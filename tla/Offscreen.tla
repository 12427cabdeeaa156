------------------------------ MODULE Offscreen ------------------------------
(***************************************************************************)
(* Pictures the client draws for itself: the number plates of vehicles,    *)
(* whose texts go through one shared bitmap and whose picture is taken by  *)
(* one CRenderTarget, and the previews of text draws, which photograph a   *)
(* ped, vehicle or object that is made for the picture (CSnapShotHelper).  *)
(*                                                                         *)
(* Both happen in CGame__Process, one after the other.  The drawing of a   *)
(* picture is broken into the steps between which something is held: any   *)
(* of the calls may fail, and what was made before must be given back.  A  *)
(* picture is what it shows; fonts' shapes, colours, places and sizes are  *)
(* left out.  One failure is not survived: a text in colour whose image    *)
(* cannot be read.                                                         *)
(***************************************************************************)
EXTENDS Integers, Sequences, FiniteSets

CONSTANTS
    Numbers, Regions,   \* what may be written on a plate
    PlateKinds,         \* the kinds ordered, known ones and others
    Lacking,            \* the fonts and sprites a client may be without
    ShotModels,         \* the models asked for in previews
    PedModels,          \* those of peds
    Paints, NoPaint,    \* a vehicle's two colours, 0xFFFF
    Void,               \* null, and nothing drawn
    MaxOrders,          \* bound: plates ordered in a frame
    MaxFailures         \* bound: calls that fail

ASSUME OffscreenAssumption == MaxOrders \in Nat /\ MaxFailures \in Nat

VARIABLES
    fonts,          \* m_pFonts: the fonts that could be read
    templates,      \* the sprites whose texture is in the database
    scene,          \* how much of the render target's scene could be made
    plateOrders,    \* CCustomPlateManager::m_Plates
    drawing,        \* where the drawing is
    bitmap,         \* m_pBitmap: the texts on it, each with its font
    rasters,        \* pTextRaster and pRegionRaster, or their sprites
    target,         \* m_pResultTexture
    lit,            \* lights in the world that belong to a picture
    pngFrom,        \* what RtPNGImageRead takes its argument for
    handed,         \* the last plate drawn and its picture, or none
    posed,          \* the model being photographed, and the one asked for
    borrowed,       \* what is in the game only to be photographed
    shots,          \* the last picture of a model, and the order
    failures        \* the calls that have failed

targetVars == <<fonts, templates, scene>>
plateVars == <<plateOrders, bitmap, rasters, target, pngFrom, handed>>
shotVars == <<posed, borrowed, shots>>
offscreenVars == <<targetVars, plateVars, shotVars, drawing, lit, failures>>

-----------------------------------------------------------------------------
(* The plates.  Of each: the picture it is drawn on, the font of its       *)
(* number, whether it renders the region as well, what it shows, and       *)
(* whether its texts' first colour is one of its own: r, g, b not all 0.   *)

Plate(sprite, font, region, shown, tinted) ==
    [sprite |-> sprite, font |-> font, region |-> region, shown |-> shown, tinted |-> tinted]

RuPlate       == Plate("plate_ru", "RU", TRUE, {"number", "region"}, FALSE)
UaPlate       == Plate("plate_ua", "UA", FALSE, {"number"}, FALSE)
BuPlate       == Plate("plate_bu", "UA", FALSE, {"number"}, FALSE)
KzPlate       == Plate("plate_kz", "KZ", TRUE, {"number", "region"}, FALSE)
RuPolicePlate == Plate("plate_ru_police", "RU", TRUE, {"number", "region"}, TRUE)
TaxiPlate     == Plate("plate_taxi", "RU", TRUE, {"number", "region"}, TRUE)
RuGosPlate    == Plate("plate_gos", "RU", TRUE, {"number", "region"}, TRUE)
NoPlatePlate  == Plate("plate_outside", "RU", TRUE, {}, FALSE)    \* renders both, shows none

KnownPlates == <<RuPlate, UaPlate, BuPlate, KzPlate, RuPolicePlate, TaxiPlate, RuGosPlate, NoPlatePlate>>
AllSprites == {KnownPlates[k].sprite : k \in DOMAIN KnownPlates}
AllFonts == {"RU", "KZ", "UA"}

NoTexts == [number |-> Void, region |-> Void]
NoPlate == [order |-> Void, picture |-> Void]

OffscreenInit ==
    /\ fonts = {} /\ templates = {} /\ scene = 0
    /\ plateOrders = <<>> /\ drawing = "start" /\ bitmap = {}
    /\ rasters = NoTexts /\ target = Void /\ lit = 0 /\ pngFrom = "file"
    /\ handed = NoPlate
    /\ posed = Void /\ borrowed = {} /\ shots = NoPlate
    /\ failures = 0

(* A call that works, or one of the few that do not. *)
Works(ok) ==
    /\ ok \/ failures < MaxFailures
    /\ failures' = IF ok THEN failures ELSE failures + 1

(* light, camera, frame, z-buffer, world: the scene is ready when all of   *)
(* them could be had.  What was made before the first failure stays.       *)
SceneParts == 5
InitialiseScene(made) == Works(made = SceneParts) /\ scene' = made
m_bReady == scene = SceneParts

(* AddFont: a font that cannot be read is deleted again. *)
AddFont(readable) == fonts' = readable

(* CCustomPlateManager::Initialise, in the first frame. *)
Initialise ==
    /\ drawing = "start" /\ drawing' = "idle"
    /\ \E without \in SUBSET Lacking, made \in 0 .. SceneParts :
          /\ AddFont(AllFonts \ without)
          /\ templates' = AllSprites \ without
          /\ InitialiseScene(made)
    /\ UNCHANGED <<plateVars, shotVars, lit>>

(* PushPlate. *)
QueuePlate ==
    /\ drawing = "idle" /\ Len(plateOrders) < MaxOrders
    /\ \E k \in PlateKinds, n \in Numbers, r \in Regions :
            plateOrders' = Append(plateOrders, [type |-> k, number |-> n, region |-> r])
    /\ UNCHANGED <<targetVars, shotVars, bitmap, rasters, target, pngFrom, handed, drawing, lit, failures>>

ThisOrder == Head(plateOrders)
Kind == KnownPlates[ThisOrder.type]

(* The plate is done, with or without a picture: the next one. *)
NextPlate ==
    /\ plateOrders' = Tail(plateOrders)
    /\ drawing' = IF Len(plateOrders) = 1 THEN "idle" ELSE "plate"

(* Process.  Without its fonts and target the manager draws nothing, and   *)
(* forgets no order either.                                                *)
ProcessPlates ==
    /\ drawing = "idle" /\ plateOrders # <<>>
    /\ fonts = AllFonts
    /\ drawing' = "plate"
    /\ shots' = NoPlate
    /\ UNCHANGED <<targetVars, plateVars, posed, borrowed, lit, failures>>

(* A kind it does not know, or whose texture is missing, has no picture. *)
Unknown ==
    /\ drawing = "plate"
    /\ ThisOrder.type \in DOMAIN KnownPlates => Kind.sprite \notin templates
    /\ NextPlate
    /\ UNCHANGED <<targetVars, shotVars, bitmap, rasters, target, pngFrom, handed, lit, failures>>

-----------------------------------------------------------------------------
(* The texts.  *)

(* Mutant: the bitmap keeps what was on it. *)
RenderText_OverOld(font, text) == bitmap' = bitmap \cup {<<font, text>>}

(* memset and CFontRenderer::RenderText. *)
RenderText(font, text) == bitmap' = {<<font, text>>}

Outcomes == {"made", "noPNG", "noImage", "noRaster"}

(* GetRWRasterFromBitmap[Palette] is null when no PNG could be made, which *)
(* is before the game's reader is switched to memory, and when the reader  *)
(* gets no image from it or no raster can be made of that, which leaves    *)
(* the reader as it is.                                                    *)
GetRWRasterFromBitmap(text, outcome) ==
    /\ Works(outcome = "made")
    /\ rasters' = [rasters EXCEPT ![text] = IF outcome = "made" THEN bitmap' ELSE Void]
    /\ pngFrom' = CASE outcome = "made"                    -> "file"
                    [] outcome = "noPNG"                   -> pngFrom
                    [] outcome \in {"noImage", "noRaster"} -> "memory"

(* The variant with a palette writes its colour into the image before it   *)
(* asks whether there is one.                                              *)
TintsNothing(outcome) == outcome = "noImage" /\ Kind.tinted

(* The first half of Process...Plate: the number.  Where there is no       *)
(* region to come, its failure is the end.                                 *)
ProcessNumber ==
    /\ drawing = "plate" /\ ThisOrder.type \in DOMAIN KnownPlates /\ Kind.sprite \in templates
    /\ RenderText(Kind.font, ThisOrder.number)
    /\ \E o \in Outcomes :
          /\ GetRWRasterFromBitmap("number", o)
          /\ IF TintsNothing(o) THEN drawing' = "crashed" /\ UNCHANGED plateOrders
             ELSE IF Kind.region THEN drawing' = "region" /\ UNCHANGED plateOrders
             ELSE IF o = "made" THEN drawing' = "texts" /\ UNCHANGED plateOrders
             ELSE NextPlate
    /\ UNCHANGED <<targetVars, shotVars, target, handed, lit>>

(* The region, in the font of Russian plates whatever the kind. *)
ProcessRegion ==
    /\ drawing = "region"
    /\ RenderText("RU", ThisOrder.region)
    /\ \E o \in Outcomes :
          /\ GetRWRasterFromBitmap("region", o)
          /\ drawing' = IF TintsNothing(o) THEN "crashed" ELSE "rasters"
    /\ UNCHANGED <<targetVars, shotVars, plateOrders, target, handed, lit>>

(* With one of the two missing the other is destroyed. *)
CheckRasters ==
    /\ drawing = "rasters"
    /\ IF Void \in {rasters.number, rasters.region}
       THEN rasters' = NoTexts /\ NextPlate
       ELSE drawing' = "texts" /\ UNCHANGED <<rasters, plateOrders>>
    /\ UNCHANGED <<targetVars, shotVars, bitmap, target, pngFrom, handed, lit, failures>>

-----------------------------------------------------------------------------
(* CRenderTarget. *)

Picture == [sprite |-> Kind.sprite, texts |-> [t \in Kind.shown |-> rasters[t]]]

(* PreProcessCamera: a new raster and texture for the result. *)
PreProcessCamera(shows) == target' = shows

(* RwCameraBeginUpdate may fail: the camera sees nothing then, and the     *)
(* light is not added.                                                     *)
ProcessCamera(ok) == Works(ok) /\ lit' = IF ok THEN lit + 1 ELSE lit

(* m_bSucessfull is whether the light was added. *)
PostProcessCamera == lit' = IF lit = 0 THEN 0 ELSE lit - 1

(* Begin, and the sprites drawn on one another.  Without a scene there is  *)
(* no result.                                                              *)
Begin ==
    /\ drawing = "texts" /\ drawing' = "drawn"
    /\ IF m_bReady
       THEN \E ok \in BOOLEAN : ProcessCamera(ok) /\ PreProcessCamera(IF ok THEN Picture ELSE [blank |-> TRUE])
       ELSE UNCHANGED <<target, lit, failures>>
    /\ UNCHANGED <<targetVars, shotVars, plateOrders, bitmap, rasters, pngFrom, handed>>

(* End, and the sprites of the texts are deleted with their textures.  The *)
(* picture goes to the vehicle (VehicleLook).                              *)
End ==
    /\ drawing = "drawn"
    /\ IF m_bReady THEN PostProcessCamera ELSE UNCHANGED lit
    /\ target' = Void
    /\ handed' = IF m_bReady THEN [order |-> ThisOrder, picture |-> target] ELSE handed
    /\ rasters' = NoTexts
    /\ NextPlate
    /\ UNCHANGED <<targetVars, shotVars, bitmap, pngFrom, failures>>

-----------------------------------------------------------------------------
(* CSnapShotHelper. *)

(* The trains' two cars are shown as their engines, a few objects as a     *)
(* question mark.                                                          *)
VehicleShown(m) == CASE m = 570 -> 538 [] m = 569 -> 537 [] OTHER -> m
ObjectShown(m) == IF m \in {1373, 3118, 3552, 3553} THEN 18631 ELSE m
VehicleModels == 400 .. 611

Resting == drawing = "idle" /\ UNCHANGED <<targetVars, plateOrders, bitmap, rasters, target, pngFrom>>

(* What may be taken for a picture, and what becomes of it when no one    *)
(* gives it back.                                                          *)
Taken == {"ped", "vehicle", "object", "model"}
Lost == [ped |-> "lost ped", vehicle |-> "lost vehicle", object |-> "lost object", model |-> "lost model"]

(* What a picture needs is made.  When its raster cannot be, the function  *)
(* returns with the ped or vehicle it has made.                            *)
CreatePedSnapShot(m) ==
    /\ m \in PedModels
    /\ \E ok \in BOOLEAN :
          /\ Works(ok)
          /\ borrowed' = borrowed \cup {IF ok THEN "ped" ELSE Lost.ped}
          /\ IF ok THEN drawing' = "posed" /\ posed' =
                  [asked |-> [model |-> m, paint |-> NoPaint],
                   shown |-> [model |-> m, paint |-> NoPaint]]
             ELSE UNCHANGED <<drawing, posed>>

(* Both colours, or none. *)
CreateVehicleSnapShot(m, p1, p2) ==
    /\ m \in VehicleModels \ PedModels
    /\ \E ok \in BOOLEAN :
          /\ Works(ok)
          /\ borrowed' = borrowed \cup {IF ok THEN "vehicle" ELSE Lost.vehicle}
          /\ IF ok THEN drawing' = "posed" /\ posed' =
                  [asked |-> [model |-> m, paint |-> <<p1, p2>>],
                   shown |-> [model |-> VehicleShown(m),
                              paint |-> IF NoPaint \in {p1, p2} THEN NoPaint ELSE <<p1, p2>>]]
             ELSE UNCHANGED <<drawing, posed>>

(* The model is loaded for the picture when nobody else has it loaded.  An *)
(* instance without a frame is left where it is, and so is the model.      *)
CreateObjectSnapShot(m, loaded) ==
    /\ m \notin PedModels \cup VehicleModels
    /\ \E ok \in BOOLEAN :
          /\ Works(ok)
          /\ LET taken == {"object"} \cup (IF loaded THEN {} ELSE {"model"}) IN
             borrowed' = borrowed \cup (IF ok THEN taken ELSE {Lost[b] : b \in taken})
          /\ IF ok THEN drawing' = "posed" /\ posed' =
                  [asked |-> [model |-> m, paint |-> NoPaint],
                   shown |-> [model |-> ObjectShown(m), paint |-> NoPaint]]
             ELSE UNCHANGED <<drawing, posed>>

(* SnapshotProcess of a text draw. *)
Snapshot ==
    /\ Resting
    /\ \E m \in ShotModels :
          \/ CreatePedSnapShot(m)
          \/ \E p1, p2 \in Paints \cup {NoPaint} : CreateVehicleSnapShot(m, p1, p2)
          \/ \E loaded \in BOOLEAN : CreateObjectSnapShot(m, loaded)
    /\ handed' = NoPlate /\ shots' = NoPlate
    /\ UNCHANGED lit

(* ProcessCamera: the light is added and the model rendered, whether the   *)
(* update could begin or not.                                              *)
Photograph ==
    /\ drawing = "posed" /\ drawing' = "rendered"
    /\ lit' = lit + 1
    /\ \E ok \in BOOLEAN :
          /\ Works(ok)
          /\ shots' = [order |-> posed.asked, picture |-> IF ok THEN posed.shown ELSE Void]
    /\ UNCHANGED <<targetVars, plateVars, posed, borrowed>>

(* The light goes, and what was made or loaded for the picture. *)
PutAway ==
    /\ drawing = "rendered" /\ drawing' = "idle"
    /\ lit' = lit - 1
    /\ borrowed' = borrowed \ Taken
    /\ posed' = Void
    /\ UNCHANGED <<targetVars, plateVars, shots, failures>>

(* The process has ended. *)
ClientGone == drawing = "crashed" /\ UNCHANGED offscreenVars

OffscreenNext ==
    \/ Initialise \/ QueuePlate \/ ProcessPlates \/ Unknown
    \/ ProcessNumber \/ ProcessRegion \/ CheckRasters \/ Begin \/ End
    \/ Snapshot \/ Photograph \/ PutAway \/ ClientGone

-----------------------------------------------------------------------------
OffscreenTypeOK ==
    /\ fonts \subseteq AllFonts /\ templates \subseteq AllSprites /\ scene \in 0 .. SceneParts
    /\ drawing \in {"start", "idle", "plate", "region", "rasters", "texts", "drawn", "posed", "rendered",
                   "crashed"}
    /\ lit \in 0 .. 1 /\ pngFrom \in {"file", "memory"} /\ failures \in 0 .. MaxFailures

(* A plate shows the number and region of its own order in the fonts of    *)
(* its kind, and nothing of the plate or the text that was on the bitmap   *)
(* before it, unless the camera could not see.                             *)
PlateAsOrdered ==
    LET o == handed.order  p == handed.picture IN
    o # Void =>
        \/ failures > 0 /\ p = [blank |-> TRUE]
        \/ LET k == KnownPlates[o.type] IN
           /\ p.sprite = k.sprite
           /\ p.texts = [t \in k.shown |-> IF t = "number" THEN {<<k.font, o.number>>} ELSE {<<"RU", o.region>>}]

(* A preview shows the model asked for, in both of its colours or in its   *)
(* own.                                                                    *)
ShotAsAsked ==
    LET o == shots.order  p == shots.picture IN
    o # Void =>
        \/ failures > 0 /\ p = Void
        \/ /\ p.model = o.model \/ p.model \in {537, 538, 18631}
           /\ p.paint \in {o.paint, NoPaint}
           /\ p.paint = NoPaint => o.paint = NoPaint \/ NoPaint \in {o.paint[1], o.paint[2]}

(* Between pictures nothing is left of them, and the game finds its world, *)
(* its cameras and its reader of pictures as they were, but for calls that *)
(* have failed.                                                            *)
NothingLeft ==
    drawing \in {"idle", "plate"} =>
        /\ rasters = NoTexts /\ target = Void /\ lit = 0
        /\ borrowed \cap Taken = {}
        /\ failures = 0 => borrowed = {} /\ pngFrom = "file"

(* The client is lost to a plate only when that plate has texts in colour  *)
(* and a call of its drawing has failed.                                   *)
LostToColour == drawing = "crashed" => Kind.tinted /\ failures > 0

(* A picture shows what was ordered, whatever was drawn before it and      *)
(* whichever calls have failed, and leaves nothing behind for the next;    *)
(* but an image in colour that cannot be read ends the client.             *)
PicturesTrue == PlateAsOrdered /\ ShotAsAsked /\ NothingLeft /\ LostToColour
=============================================================================
