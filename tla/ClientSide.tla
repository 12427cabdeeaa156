----------------------------- MODULE ClientSide -----------------------------
(***************************************************************************)
(* What the player has before him: the pools of what the server shows, the *)
(* looks of the vehicles and their plates, the keyboard and the windows he *)
(* answers with, his settings, the marks on the map, and what the objects  *)
(* show.  They share nothing: a behaviour exercises one of them (side).    *)
(***************************************************************************)
EXTENDS EntityPools, TextInput, VehicleLook, VehicleTuning, Offscreen, Settings,
        WorldMarks, Objects

VARIABLE side   \* what this behaviour is about

clientVars == <<vars, inputVars, lookVars, tuningVars, offscreenVars, settingsVars, worldMarksVars,
                objectVars, side>>

(* The other sides stay in one initial state. *)
ClientInit ==
    /\ Init /\ InputInit /\ LookInit /\ TuningInit
    /\ OffscreenInit /\ SettingsInit /\ WorldMarksInit /\ ObjectsInit
    /\ side \in {"pools", "input", "looks", "tuned", "drawn", "settings", "marked", "objects"}
    /\ side # "pools" => part = "pickups"
    /\ side # "input" => inputPart = "keyboard" /\ ~m_bNewKeyboard
    /\ side # "tuned" => tuningPart = "riding"
    /\ side # "settings" => file["name"] # Tagged
    /\ side # "marked" => marksPart = "marks"
    /\ side # "objects" => objectPart = "skins"

ClientNext ==
    \/ /\ side = "pools" /\ Next
       /\ UNCHANGED <<inputVars, lookVars, tuningVars, offscreenVars, settingsVars, worldMarksVars,
                      objectVars, side>>
    \/ /\ side = "input" /\ InputNext
       /\ UNCHANGED <<vars, lookVars, tuningVars, offscreenVars, settingsVars, worldMarksVars,
                      objectVars, side>>
    \/ /\ side = "looks" /\ LookNext
       /\ UNCHANGED <<vars, inputVars, tuningVars, offscreenVars, settingsVars, worldMarksVars,
                      objectVars, side>>
    \/ /\ side = "tuned" /\ TuningNext
       /\ UNCHANGED <<vars, inputVars, lookVars, offscreenVars, settingsVars, worldMarksVars,
                      objectVars, side>>
    \/ /\ side = "drawn" /\ OffscreenNext
       /\ UNCHANGED <<vars, inputVars, lookVars, tuningVars, settingsVars, worldMarksVars,
                      objectVars, side>>
    \/ /\ side = "settings" /\ SettingsNext
       /\ UNCHANGED <<vars, inputVars, lookVars, tuningVars, offscreenVars, worldMarksVars,
                      objectVars, side>>
    \/ /\ side = "marked" /\ WorldMarksNext
       /\ UNCHANGED <<vars, inputVars, lookVars, tuningVars, offscreenVars, settingsVars,
                      objectVars, side>>
    \/ /\ side = "objects" /\ ObjectsNext
       /\ UNCHANGED <<vars, inputVars, lookVars, tuningVars, offscreenVars, settingsVars,
                      worldMarksVars, side>>

(* The instance's buildings: two of different models in one place. *)
TwoHouses == {[model |-> "shed", at |-> "near"], [model |-> "tower", at |-> "near"]}

(* Every vehicle shows what was ordered for it: its textures, plates and   *)
(* shadow, and its wheels, suspension, lights and parts.                   *)
CarsAsOrdered == LooksTrue /\ TunedAsOrdered

(* The map and the world show what the server put there: icons and         *)
(* checkpoints, none of the buildings it removed, and its objects with     *)
(* their textures and on their vehicles.                                   *)
WorldAsOrdered == MarksAsPlaced /\ RemovedStayAway /\ MaterialsReturned /\ ObjectsFollow

ClientSpec == ClientInit /\ [][ClientNext]_clientVars
=============================================================================
