--------------------------- MODULE VehicleTuning ---------------------------
(***************************************************************************)
(* How the server tunes a vehicle: its handling and suspension, its        *)
(* wheels, its headlights, the parts it shows.  The game keeps the lines   *)
(* of the suspension and the size of the wheels in the model, which all    *)
(* vehicles of a kind share: the client changes the model for the length   *)
(* of a call and changes it back, and keeps a copy of the lines for each   *)
(* vehicle.                                                                *)
(*                                                                         *)
(* All of it runs on the game thread, between and inside the game's calls  *)
(* (hook).  The vehicles here are all of one model.  A value is Standard,  *)
(* the model's own, or one of Tuned; the sign of an angle is left out.     *)
(***************************************************************************)
EXTENDS Integers

CONSTANTS
    TunedIds,       \* the ids of vehicles
    Other,          \* a vehicle of the model that is not in the pool
    Tuned,          \* what the server may order for any of the values
    TunedParts,     \* the parts that are named
    DefaultParts,   \* those a new vehicle shows
    OffsetRest,     \* the 30 ms after which wheels are moved
    NoVehicle       \* an empty slot of the pool, and no vehicle

Standard == 0

ASSUME VehicleTuningAssumption ==
    /\ Tuned \subseteq Nat \ {0} /\ OffsetRest \in Nat
    /\ DefaultParts \subseteq TunedParts /\ NoVehicle \notin TunedIds /\ Other \notin TunedIds
    /\ "model" \notin TunedIds

VARIABLES
    tuned,          \* the CVehicle of each id
    model,          \* the model: the size of its wheels, its lines, and whose lines it points to
    hook,           \* the game's call that is going on, and the vehicle it is about
    g_pLastProcessedVehicleMatrix,
    g_iLastProcessedWheelVehicle,
    sight,          \* what the game draws
    tunedTo,        \* what was last ordered of each vehicle
    tuningPart      \* what this behaviour is about

tuningVars == <<tuned, model, hook, g_pLastProcessedVehicleMatrix, g_iLastProcessedWheelVehicle,
                sight, tunedTo, tuningPart>>

TunedValues == Tuned \cup {Standard}
Axles == {"X", "Y"}             \* the front and the rear wheels
Node == [X |-> 2, Y |-> 4]      \* the nodes of the left ones; the right ones mirror them
NoNode == -1

NoHandling == [speed |-> Standard, spring |-> Standard, own |-> FALSE]
NoLines == [spring |-> Standard, size |-> Standard, own |-> FALSE]
LinesFor(spring, size) == [spring |-> spring, size |-> size, own |-> TRUE]
NotHooked == [call |-> "none", of |-> NoVehicle]
NothingSeen == [of |-> NoVehicle, axle |-> "X", size |-> Standard, width |-> Standard,
                tilt |-> Standard, light |-> Standard]

TuningInit ==
    /\ tuned = [c \in TunedIds |-> NoVehicle]
    /\ model = [size |-> Standard, lines |-> LinesFor(Standard, Standard), at |-> "model"]
    /\ hook = NotHooked
    /\ g_pLastProcessedVehicleMatrix = NoVehicle /\ g_iLastProcessedWheelVehicle = NoNode
    /\ sight = NothingSeen
    /\ tunedTo = [c \in TunedIds |-> NoVehicle]
    /\ tuningPart \in {"riding", "rims", "offsets", "parts"}

-----------------------------------------------------------------------------
(* The lines, from and to the vehicles and the model.                      *)

ModelAndCars == [cars |-> tuned, model |-> model]
SetModelAndCars(w) == tuned' = w.cars /\ model' = w.model

LinesInPlace(w) == IF w.model.at = "model" THEN w.model.lines ELSE w.cars[w.model.at].lines

(* CAutomobile::SetupSuspensionLines writes the lines the model points to, *)
(* for a vehicle's handling and the model's wheels.                        *)
SetupSuspensionLines(w, c) ==
    LET lines == LinesFor(w.cars[c].handling.spring, w.model.size)
    IN IF w.model.at = "model" THEN [w EXCEPT !.model.lines = lines]
       ELSE [w EXCEPT !.cars[w.model.at].lines = lines]

(* Mutant: copied when the block is made, and not again. *)
CopyGlobalSuspensionLinesToPrivate_Once(w, c) ==
    IF w.cars[c].isCar /\ ~w.cars[c].lines.own THEN [w EXCEPT !.cars[c].lines = LinesInPlace(w)] ELSE w

CopyGlobalSuspensionLinesToPrivate(w, c) ==
    IF w.cars[c].isCar THEN [w EXCEPT !.cars[c].lines = LinesInPlace(w)] ELSE w

Leave == -1
Or(order, otherwise) == IF order = Leave THEN otherwise ELSE order

(* The handling starts from the default each time.  Lines are set up for   *)
(* the wheels the vehicle has been given, in the place of the model's, and *)
(* only by an order about the suspension or the wheels.                    *)
SetHandlingData(w, c, o) ==
    LET car == [w.cars[c] EXCEPT
                  !.handling = [speed |-> Or(o.speed, Standard), spring |-> Or(o.spring, Standard), own |-> TRUE],
                  !.size = Or(o.size, @)]
        ordered == [w EXCEPT !.cars[c] = car,
                             !.model.size = IF car.size = Standard THEN @ ELSE car.size]
        setUp == IF o.spring = Leave /\ o.size = Leave THEN ordered
                 ELSE CopyGlobalSuspensionLinesToPrivate(SetupSuspensionLines(ordered, c), c)
    IN [setUp EXCEPT !.model.size = w.model.size]

(* Back to the default, on lines for the model's wheels.  The vehicle's    *)
(* wheels keep their size.                                                 *)
ResetVehicleHandling(w, c) ==
    LET reset == [w EXCEPT !.cars[c].handling = [NoHandling EXCEPT !.own = TRUE]]
    IN CopyGlobalSuspensionLinesToPrivate(SetupSuspensionLines(reset, c), c)

-----------------------------------------------------------------------------
(* The parts.  A part has an undamaged and a damaged version, of which the *)
(* game shows one, or none.                                                *)

SetComponentVisibleInternal(versions, visible) ==
    IF visible
    THEN IF versions = {} THEN {"undamaged"} ELSE versions
    ELSE {}

(* Everything is hidden, and what is ordered is shown again. *)
SetComponentVisible(car, components) ==
    [car EXCEPT !.parts = [p \in TunedParts |->
        LET hidden == SetComponentVisibleInternal(car.parts[p], FALSE)
        IN IF p \in components THEN SetComponentVisibleInternal(hidden, TRUE) ELSE hidden]]

-----------------------------------------------------------------------------
(* The wheels.                                                             *)

SetWheelOffset(car, axle, offset) ==
    IF ~car.isCar THEN car
    ELSE [car EXCEPT !.offset[axle] = [set |-> TRUE, new |-> offset, processed |-> FALSE, at |-> @.at],
                     !.age = 0]

SetWheelAlignment(car, axle, angle) ==
    IF car.isCar THEN [car EXCEPT !.alignment[axle] = [set |-> TRUE, angle |-> angle]] ELSE car

SetHeadlightsColor(car, colour) == IF car.isCar THEN [car EXCEPT !.light = colour] ELSE car

(* The wheels' frames are put where they were at first, and the offset from there. *)
ProcessWheelOffset(o) == [o EXCEPT !.at = IF o.set THEN o.new ELSE @, !.processed = TRUE]

ProcessWheelsOffset(car) ==
    IF car.age <= OffsetRest THEN car
    ELSE [car EXCEPT !.offset = [axle \in Axles |->
            IF @[axle].processed THEN @[axle] ELSE ProcessWheelOffset(@[axle])]]

-----------------------------------------------------------------------------

(* CVehicle::CVehicle.  The angles are not initialised. *)
Made(isCar, garbage) ==
    [isCar |-> isCar, there |-> TRUE, handling |-> NoHandling, size |-> Standard, width |-> Standard,
     lines |-> NoLines, light |-> Standard,
     alignment |-> [axle \in Axles |-> [set |-> FALSE, angle |-> garbage[axle]]],
     offset |-> [axle \in Axles |-> [set |-> FALSE, new |-> Standard, processed |-> TRUE, at |-> Standard]],
     age |-> OffsetRest + 1,
     parts |-> [p \in TunedParts |-> {"undamaged"}]]

NothingWanted ==
    [lines |-> LinesFor(Standard, Standard), size |-> Standard, width |-> Standard, light |-> Standard,
     tilt |-> [axle \in Axles |-> Leave], offset |-> [axle \in Axles |-> Standard],
     parts |-> [p \in TunedParts |-> IF p \in DefaultParts THEN "shown" ELSE "hidden"]]

Unhooked == hook = NotHooked
Idle(c) == Unhooked /\ tuned[c] # NoVehicle
InGame(c) == tuned[c] # NoVehicle /\ tuned[c].there
Undrawn == UNCHANGED <<hook, g_pLastProcessedVehicleMatrix, g_iLastProcessedWheelVehicle, sight, tuningPart>>

(* CVehiclePool::New, the vehicle before being deleted.  The game sets up  *)
(* the lines of a vehicle it creates.  (A train is not created, and the    *)
(* constructor then reads through the null pointer.)                       *)
AddVehicle(c, isCar, garbage) ==
    LET w == [ModelAndCars EXCEPT !.cars[c] = SetComponentVisible(Made(isCar, garbage), DefaultParts)]
        created == IF isCar THEN SetupSuspensionLines(w, c) ELSE w
    IN /\ Unhooked
       /\ SetModelAndCars(CopyGlobalSuspensionLinesToPrivate(created, c))
       /\ tunedTo' = [tunedTo EXCEPT ![c] = NothingWanted]
       /\ Undrawn

(* CVehicle::~CVehicle. *)
RemoveVehicle(c) ==
    /\ Idle(c)
    /\ tuned' = [tuned EXCEPT ![c] = NoVehicle]
    /\ tunedTo' = [tunedTo EXCEPT ![c] = NoVehicle]
    /\ Undrawn /\ UNCHANGED model

(* RPC_CUSTOM_HANDLING. *)
CustomHandling(c, o) ==
    /\ Idle(c) /\ tuned[c].there /\ tuned[c].isCar
    /\ SetModelAndCars(SetHandlingData(ModelAndCars, c, o))
    /\ LET size == Or(o.size, tunedTo[c].size)
       IN tunedTo' = [tunedTo EXCEPT ![c].size = size,
                                   ![c].lines = IF o.spring = Leave /\ o.size = Leave THEN @
                                                ELSE LinesFor(Or(o.spring, Standard), size)]
    /\ Undrawn

(* RPC_CUSTOM_HANDLING_DEFAULTS. *)
CustomHandlingDefaults(c) ==
    /\ Idle(c) /\ tuned[c].there /\ tuned[c].isCar
    /\ SetModelAndCars(ResetVehicleHandling(ModelAndCars, c))
    /\ tunedTo' = [tunedTo EXCEPT ![c].lines = LinesFor(Standard, Standard)]
    /\ Undrawn

(* RPC_CUSTOM_VISUALS, wheels and headlights: what is zero is left alone,  *)
(* a width of 20 is the model's.                                           *)
CustomRims(c, o) ==
    /\ Idle(c)
    /\ LET aligned == [axle \in Axles |-> o.tilt[axle] # Leave]
           lit == IF o.light = Leave THEN tuned[c] ELSE SetHeadlightsColor(tuned[c], o.light)
           wide == [lit EXCEPT !.width = Or(o.width, @)]
           Tilted(car, axle) == IF aligned[axle] THEN SetWheelAlignment(car, axle, o.tilt[axle]) ELSE car
           Offset(car, axle) == IF o.offset[axle] = Leave THEN car ELSE SetWheelOffset(car, axle, o.offset[axle])
           tilted == Tilted(Tilted(wide, "X"), "Y")
       IN tuned' = [tuned EXCEPT ![c] = Offset(Offset(tilted, "X"), "Y")]
    /\ tunedTo' = [tunedTo EXCEPT
         ![c].width = Or(o.width, @),
         ![c].light = IF tuned[c].isCar THEN Or(o.light, @) ELSE @,
         ![c].tilt = [axle \in Axles |-> IF tuned[c].isCar THEN Or(o.tilt[axle], @[axle]) ELSE @[axle]],
         ![c].offset = [axle \in Axles |-> IF tuned[c].isCar THEN Or(o.offset[axle], @[axle]) ELSE @[axle]]]
    /\ Undrawn /\ UNCHANGED model

(* RPC_CUSTOM_COMPONENT. *)
CustomComponent(c, components) ==
    /\ Idle(c) /\ tuned[c].there
    /\ tuned' = [tuned EXCEPT ![c] = SetComponentVisible(@, components)]
    /\ tunedTo' = [tunedTo EXCEPT ![c].parts =
                    [p \in TunedParts |-> IF p \in components THEN "shown" ELSE "hidden"]]
    /\ Undrawn /\ UNCHANGED model

(* The game shows and hides parts itself: damage, repairs, doors. *)
GameTouches(c, p, versions) ==
    /\ Idle(c) /\ tuned[c].there
    /\ tuned' = [tuned EXCEPT ![c].parts[p] = versions]
    /\ tunedTo' = [tunedTo EXCEPT ![c].parts[p] = "any"]
    /\ Undrawn /\ UNCHANGED model

(* CAutomobile::Fix mends the whole vehicle. *)
Fix(car) ==
    [car EXCEPT !.parts = [p \in TunedParts |-> IF "damaged" \in @[p] THEN {"undamaged"} ELSE @[p]]]

(* UpdateDamageStatus, SetWheelPopped: they mend and do not damage.        *)
Mended(car, damaged) == IF car.isCar /\ ~damaged THEN Fix(car) ELSE car
FixedWith(car, flat) == IF car.isCar /\ ~flat THEN Fix(car) ELSE car

(* The RPC DamageVehicle: without a flat tyre all other damage goes too. *)
DamageVehicle(c, damaged, flat) ==
    /\ Idle(c) /\ tuned[c].there
    /\ tuned' = [tuned EXCEPT ![c] = FixedWith(Mended(@, damaged), flat)]
    /\ tunedTo' = [tunedTo EXCEPT ![c].parts = [p \in TunedParts |-> "any"]]
    /\ Undrawn /\ UNCHANGED model

(* The game's vehicle is gone, the client's is not. *)
Vanishes(c) ==
    /\ Idle(c) /\ tuned[c].there
    /\ tuned' = [tuned EXCEPT ![c].there = FALSE]
    /\ Undrawn /\ UNCHANGED <<model, tunedTo>>

TimeGoes ==
    /\ Unhooked
    /\ tuned' = [c \in TunedIds |->
         IF tuned[c] = NoVehicle \/ tuned[c].age > OffsetRest THEN tuned[c]
         ELSE [tuned[c] EXCEPT !.age = @ + 1]]
    /\ Undrawn /\ UNCHANGED <<model, tunedTo>>

-----------------------------------------------------------------------------
(* The hooks.                                                              *)

Seen(v) == v \in {Other} \cup {c \in TunedIds : InGame(c)}

(* CAutomobile__ProcessEntityCollision_hook, before and after the game's. *)
CollisionBegins(v) ==
    /\ Unhooked /\ Seen(v)
    /\ hook' = [call |-> "collision", of |-> v]
    /\ model' = IF v # Other /\ tuned[v].lines.own THEN [model EXCEPT !.at = v] ELSE model
    /\ UNCHANGED <<tuned, g_pLastProcessedVehicleMatrix, g_iLastProcessedWheelVehicle, sight, tunedTo, tuningPart>>

CollisionEnds ==
    /\ hook.call = "collision"
    /\ hook' = NotHooked
    /\ model' = [model EXCEPT !.at = "model"]
    /\ UNCHANGED <<tuned, g_pLastProcessedVehicleMatrix, g_iLastProcessedWheelVehicle, sight, tunedTo, tuningPart>>

(* CAutomobile__PreRender_hook, before and after the game's. *)
PreRenderBegins(v) ==
    /\ Unhooked /\ Seen(v)
    /\ hook' = [call |-> "prerender", of |-> v]
    /\ IF v = Other THEN UNCHANGED <<tuned, model, g_pLastProcessedVehicleMatrix>>
       ELSE /\ tuned' = [tuned EXCEPT ![v] = ProcessWheelsOffset(@)]
            /\ g_pLastProcessedVehicleMatrix' = v
            /\ model' = IF tuned[v].size = Standard THEN model ELSE [model EXCEPT !.size = tuned[v].size]
    /\ UNCHANGED <<g_iLastProcessedWheelVehicle, sight, tunedTo, tuningPart>>

PreRenderEnds ==
    /\ hook.call = "prerender"
    /\ hook' = NotHooked /\ sight' = NothingSeen
    /\ model' = [model EXCEPT !.size = Standard]
    /\ g_pLastProcessedVehicleMatrix' = NoVehicle /\ g_iLastProcessedWheelVehicle' = NoNode
    /\ UNCHANGED <<tuned, tunedTo, tuningPart>>

(* CMatrix__SetScale_hook and CMatrix__Rotate_hook: how a wheel is drawn.  *)
(* An axle is tilted when either has been told to be.                      *)
Scaled(seen, last) ==
    IF last = NoVehicle THEN seen
    ELSE [seen EXCEPT !.size = tuned[last].size, !.width = tuned[last].width]

Rotated(seen, last, node) ==
    IF last = NoVehicle \/ \A axle \in Axles : ~tuned[last].alignment[axle].set THEN seen
    ELSE [seen EXCEPT !.tilt = tuned[last].alignment[CHOOSE axle \in Axles : Node[axle] = node].angle]

(* CAutomobile__UpdateWheelMatrix_hook, around the game's of one wheel. *)
WheelDrawn(axle) ==
    /\ hook.call = "prerender"
    /\ g_iLastProcessedWheelVehicle' =
         IF g_pLastProcessedVehicleMatrix = NoVehicle THEN g_iLastProcessedWheelVehicle ELSE Node[axle]
    /\ sight' = Scaled(Rotated([NothingSeen EXCEPT !.of = hook.of, !.axle = axle],
                               g_pLastProcessedVehicleMatrix, g_iLastProcessedWheelVehicle'),
                       g_pLastProcessedVehicleMatrix)
    /\ UNCHANGED <<tuned, model, hook, g_pLastProcessedVehicleMatrix, tunedTo, tuningPart>>

(* The colour of a vehicle's own, or the one the game gives. *)
ProcessHeadlightsColor(v, given) ==
    IF v = Other THEN given ELSE IF tuned[v].light = Standard THEN given ELSE tuned[v].light

(* CVehicle__DoHeadLightBeam_hook: the beam, and its light on the ground. *)
BeamBegins(v) ==
    /\ Unhooked /\ Seen(v)
    /\ hook' = [call |-> "beam", of |-> v]
    /\ sight' = [NothingSeen EXCEPT !.of = v, !.light = ProcessHeadlightsColor(v, Standard)]
    /\ UNCHANGED <<tuned, model, g_pLastProcessedVehicleMatrix, g_iLastProcessedWheelVehicle, tunedTo, tuningPart>>

BeamEnds ==
    /\ hook.call = "beam"
    /\ hook' = NotHooked /\ sight' = NothingSeen
    /\ UNCHANGED <<tuned, model, g_pLastProcessedVehicleMatrix, g_iLastProcessedWheelVehicle, tunedTo, tuningPart>>

-----------------------------------------------------------------------------

TuningOrders == TunedValues \cup {Leave}
NoOrder == [light |-> Leave, width |-> Leave, tilt |-> [axle \in Axles |-> Leave],
            offset |-> [axle \in Axles |-> Leave]]
RimOrders ==
    {[NoOrder EXCEPT !.light = v] : v \in Tuned} \cup {[NoOrder EXCEPT !.width = v] : v \in TunedValues} \cup
    {[NoOrder EXCEPT !.tilt = t] : t \in [Axles -> Tuned \cup {Leave}]}
OffsetOrders == {[NoOrder EXCEPT !.offset = o] : o \in [Axles -> Tuned \cup {Leave}]}
Garbage == [Axles -> IF tuningPart = "rims" THEN TunedValues ELSE {Standard}]

RidingNext ==
    \/ \E c \in TunedIds, o \in [speed : TuningOrders, spring : TuningOrders, size : TuningOrders] : CustomHandling(c, o)
    \/ \E c \in TunedIds : CustomHandlingDefaults(c) \/ Vanishes(c)
    \/ \E v \in TunedIds \cup {Other} : CollisionBegins(v)
    \/ CollisionEnds

RimsNext ==
    \/ \E c \in TunedIds, o \in RimOrders : CustomRims(c, o)
    \/ \E v \in TunedIds \cup {Other} : BeamBegins(v)
    \/ BeamEnds

OffsetsNext ==
    \/ \E c \in TunedIds, o \in OffsetOrders : CustomRims(c, o)
    \/ TimeGoes

ComponentsNext ==
    \/ \E c \in TunedIds, components \in SUBSET TunedParts : CustomComponent(c, components)
    \/ \E c \in TunedIds, p \in TunedParts, versions \in {{}, {"undamaged"}, {"damaged"}} :
         GameTouches(c, p, versions)
    \/ \E c \in TunedIds, damaged, flat \in BOOLEAN : DamageVehicle(c, damaged, flat)

TuningNext ==
    \/ \E c \in TunedIds, isCar \in BOOLEAN, garbage \in Garbage : AddVehicle(c, isCar, garbage)
    \/ \E c \in TunedIds : RemoveVehicle(c)
    \/ tuningPart = "riding" /\ RidingNext
    \/ tuningPart = "rims" /\ RimsNext
    \/ tuningPart = "offsets" /\ OffsetsNext
    \/ tuningPart = "parts" /\ ComponentsNext
    \/ tuningPart # "parts" /\ \E v \in TunedIds \cup {Other} : PreRenderBegins(v)
    \/ \E axle \in Axles : WheelDrawn(axle)
    \/ PreRenderEnds

-----------------------------------------------------------------------------

Drawing(c) == hook = [call |-> "prerender", of |-> c]

(* Every vehicle rides on lines of its own, those of the last order about  *)
(* its suspension, its wheels or the default, whatever was ordered for     *)
(* another of the same model or created since; and the model is the game's *)
(* own but during a hook.                                                  *)
OwnSuspension ==
    /\ Unhooked => model.size = Standard /\ model.at = "model"
    /\ \A c \in TunedIds :
         tuned[c] # NoVehicle /\ tuned[c].isCar =>
           /\ tuned[c].lines = tunedTo[c].lines
           /\ hook = [call |-> "collision", of |-> c] => LinesInPlace(ModelAndCars) = tunedTo[c].lines

(* A vehicle is drawn with the wheels, the angles and the lights ordered   *)
(* for it, and no other vehicle is: its wheels are where they were last    *)
(* ordered to be as soon as that has rested.  (An axle nothing is ordered  *)
(* of may be drawn at any angle once the other is tilted: its own is not   *)
(* initialised.)                                                           *)
OwnWheels ==
    /\ sight.of = Other => sight = [NothingSeen EXCEPT !.of = Other, !.axle = sight.axle]
    /\ \A c \in TunedIds :
         /\ sight.of = c /\ Drawing(c) =>
              /\ sight.size = tunedTo[c].size /\ sight.width = tunedTo[c].width
              /\ IF tunedTo[c].tilt[sight.axle] # Leave THEN sight.tilt = tunedTo[c].tilt[sight.axle]
                 ELSE (\A axle \in Axles : tunedTo[c].tilt[axle] = Leave) => sight.tilt = Standard
         /\ sight.of = c /\ hook.call = "beam" => sight.light = tunedTo[c].light
         /\ Drawing(c) /\ tuned[c].age > OffsetRest =>
              \A axle \in Axles : tuned[c].offset[axle].at = tunedTo[c].offset[axle]

(* A vehicle shows the parts last ordered and no other, undamaged, until   *)
(* the game itself changes them.                                           *)
PartsAsOrdered ==
    \A c \in TunedIds : tuned[c] # NoVehicle =>
        \A p \in TunedParts :
            /\ tunedTo[c].parts[p] = "shown" => tuned[c].parts[p] = {"undamaged"}
            /\ tunedTo[c].parts[p] = "hidden" => tuned[c].parts[p] = {}

(* A vehicle's suspension, wheels, lights and parts are those last ordered *)
(* for it, and no other vehicle's, whatever a hook changes in the model    *)
(* they share for the length of a call.                                    *)
TunedAsOrdered == OwnSuspension /\ OwnWheels /\ PartsAsOrdered

TuningSpec == TuningInit /\ [][TuningNext]_tuningVars
=============================================================================
