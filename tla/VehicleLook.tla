---------------------------- MODULE VehicleLook ----------------------------
(***************************************************************************)
(* What the server makes a vehicle look like: the textures that replace    *)
(* those of its model (a number plate, vinyls, tinted windows) and its     *)
(* shadow.  A plate is drawn in a later frame than it is ordered in, by    *)
(* CCustomPlateManager, which knows the vehicle by its id only.            *)
(*                                                                         *)
(* All of it runs on the game thread.  A texture is the file it comes from *)
(* or the plate that is drawn on it; colours, sizes and wheels, which are  *)
(* plain assignments, are left out.  LoadTextureFromDB is taken to add a   *)
(* reference, which its users' RwTextureDestroy gives back.                *)
(***************************************************************************)
EXTENDS Integers, SequencesExt

CONSTANTS
    CarIds,         \* the ids of vehicles
    Toners,         \* the names of the windows' textures, "remap_toner_%d"
    Files,          \* the textures in the database
    Plates,         \* the plates that can be drawn
    BadPlate,       \* a plate of no known kind, or whose picture is missing
    NoTexture,      \* the null texture, and a file the database has not got
    NoCar,          \* an empty slot of the pool
    MaxReplaced,    \* MAX_REPLACED_TEXTURES
    MaxPlates,      \* bound: plates ordered in a frame
    MaxLost         \* bound: textures lost

VARIABLES
    m_pVehicles,    \* the look of each vehicle in the pool
    m_Plates,       \* the plates ordered and not drawn yet
    refs,           \* the references to each texture
    lost,           \* how many of them nobody holds any more
    ordered         \* of each vehicle and texture, what it should be replaced by

lookVars == <<m_pVehicles, m_Plates, refs, lost, ordered>>

Textures == Files \cup Plates
Names == {"remap_plate", "remap_cbody_0"} \cup Toners
Slots == 1 .. MaxReplaced
Free == "free"  \* an empty szOld, which stands for m_bReplaceTextureStatus
Unused == [szOld |-> Free, pTexture |-> NoTexture]

(* What an order does to one texture: take it off (0), leave it (255), or  *)
(* put on another.                                                         *)
Take == "take"
Keep == "keep"
Orders == Files \cup {NoTexture, Take, Keep}

Look == [m_szReplacedTextures : [Slots -> [szOld : Names \cup {Free}, pTexture : Textures \cup {NoTexture}]],
         m_bShadow : BOOLEAN, shadow : Textures \cup {NoTexture}]

(* The client replaces five textures, three of them of windows. *)
ASSUME VehicleLookAssumption ==
    /\ MaxReplaced \in Nat /\ MaxPlates \in Nat /\ MaxLost \in Nat
    /\ IsFiniteSet(CarIds) /\ IsFiniteSet(Toners) /\ Cardinality(Toners) + 2 <= MaxReplaced
    /\ Toners \cap {Free, "remap_plate", "remap_cbody_0"} = {}
    /\ NoTexture \notin Textures /\ {BadPlate, Keep} \cap Plates = {} /\ NoCar \notin Look

(* CVehicle::CVehicle. *)
NewLook == [m_szReplacedTextures |-> [i \in Slots |-> Unused], m_bShadow |-> FALSE, shadow |-> NoTexture]

AsTheModel == [n \in Names |-> NoTexture]

LookInit ==
    /\ m_pVehicles = [c \in CarIds |-> NoCar]
    /\ m_Plates = <<>>
    /\ refs = [t \in Textures |-> 0] /\ lost = [t \in Textures |-> 0]
    /\ ordered = [c \in CarIds |-> AsTheModel]

-----------------------------------------------------------------------------
(* The methods of CVehicle, from and to a vehicle's look and the counts.   *)

Referenced(v, t) == IF t = NoTexture THEN v ELSE [v EXCEPT !.refs[t] = @ + 1]
RwTextureDestroy(v, t) == IF t = NoTexture THEN v ELSE [v EXCEPT !.refs[t] = @ - 1]
Forgotten(v, t) == IF t = NoTexture THEN v ELSE [v EXCEPT !.lost[t] = @ + 1]

Used(v, name) == {i \in Slots : v.look.m_szReplacedTextures[i].szOld = name}
IsRetextured(v, name) == Used(v, name) # {}

RemoveTexture(v, name) ==
    IF ~IsRetextured(v, name) THEN v
    ELSE LET i == Min(Used(v, name))
         IN [RwTextureDestroy(v, v.look.m_szReplacedTextures[i].pTexture)
               EXCEPT !.look.m_szReplacedTextures[i] = Unused]

Replaced(v, name, t) ==
    [v EXCEPT !.look.m_szReplacedTextures[Min(Used(v, Free))] = [szOld |-> name, pTexture |-> t]]

(* ApplyTexture of a texture that has been made. *)
ApplyPlate(v, p) ==
    LET before == RemoveTexture(v, "remap_plate") IN
    IF Used(before, Free) = {} THEN Forgotten(before, p) ELSE Replaced(before, "remap_plate", p)

(* ApplyTexture of a file, which may be missing. *)
ApplyFile(v, name, f) ==
    LET before == RemoveTexture(v, name) IN
    IF Used(before, Free) = {} THEN before ELSE Replaced(Referenced(before, f), name, f)

ApplyToner(v, toner, o) ==
    CASE o = Take -> RemoveTexture(v, toner)
      [] o = Keep -> v
      [] OTHER    -> ApplyFile(v, toner, o)

(* Both vinyls go to the one texture of the body. *)
ApplyVinyls(v, o1, o2) ==
    IF Take \in {o1, o2} THEN RemoveTexture(v, "remap_cbody_0")
    ELSE LET first == IF o1 = Keep THEN v ELSE ApplyFile(v, "remap_cbody_0", o1)
         IN IF o2 = Keep THEN first ELSE ApplyFile(first, "remap_cbody_0", o2)

(* Mutant: the shadow's pointer outlives its texture. *)
SetCustomShadow_KeepsPointer(v, size, f) ==
    IF ~size
    THEN [RwTextureDestroy(v, v.look.shadow) EXCEPT !.look.m_bShadow = FALSE]
    ELSE [Referenced(Forgotten(v, v.look.shadow), f) EXCEPT !.look.m_bShadow = TRUE, !.look.shadow = f]

(* A shadow without a size is none.  The texture of a shadow that is       *)
(* replaced by another is not given back.                                  *)
SetCustomShadow(v, size, f) ==
    IF ~size
    THEN [RwTextureDestroy(v, v.look.shadow) EXCEPT !.look.m_bShadow = FALSE, !.look.shadow = NoTexture]
    ELSE [Referenced(Forgotten(v, v.look.shadow), f) EXCEPT !.look.m_bShadow = TRUE, !.look.shadow = f]

(* The textures the destructor gives back, and how many of each. *)
Worn(look, t) ==
    Cardinality({i \in Slots : look.m_szReplacedTextures[i].pTexture = t})
      + (IF look.m_bShadow /\ look.shadow = t THEN 1 ELSE 0)

-----------------------------------------------------------------------------

View(c) == [look |-> m_pVehicles[c], refs |-> refs, lost |-> lost]
Bounded(v) == SumFunction(v.lost) <= MaxLost
SetLook(c, v) ==
    /\ Bounded(v)
    /\ m_pVehicles' = [m_pVehicles EXCEPT ![c] = v.look]
    /\ refs' = v.refs /\ lost' = v.lost

PushPlate(c, p) ==
    /\ Len(m_Plates) < MaxPlates
    /\ m_Plates' = Append(m_Plates, [vehicleId |-> c, plate |-> p])

(* The references of the vehicles cs, given back by ~CVehicle. *)
Scrapped(cs) ==
    [t \in Textures |-> refs[t] - MapThenSumSet(LAMBDA c : Worn(m_pVehicles[c], t),
                                                {c \in cs : m_pVehicles[c] # NoCar})]

(* CVehiclePool::New: a vehicle that is there is deleted, and the new one  *)
(* gets one of the client's own plates, whose pictures are all there.      *)
NewVehicle(c, p) ==
    /\ p \in Plates /\ PushPlate(c, p)
    /\ refs' = Scrapped({c})
    /\ m_pVehicles' = [m_pVehicles EXCEPT ![c] = NewLook]
    /\ ordered' = [ordered EXCEPT ![c] = [AsTheModel EXCEPT !["remap_plate"] = p]]
    /\ UNCHANGED lost

(* CVehiclePool::Delete.  The plates that were ordered stay. *)
DeleteVehicle(c) ==
    /\ m_pVehicles[c] # NoCar
    /\ refs' = Scrapped({c})
    /\ m_pVehicles' = [m_pVehicles EXCEPT ![c] = NoCar]
    /\ ordered' = [ordered EXCEPT ![c] = AsTheModel]
    /\ UNCHANGED <<m_Plates, lost>>

(* ResetVehiclePool. *)
ResetVehiclePool ==
    /\ refs' = Scrapped(CarIds)
    /\ m_pVehicles' = [c \in CarIds |-> NoCar]
    /\ ordered' = [c \in CarIds |-> AsTheModel]
    /\ UNCHANGED <<m_Plates, lost>>

(* What an order makes of what was ordered before. *)
Ordered(before, o) == CASE o = Take -> NoTexture [] o = Keep -> before [] OTHER -> o
OrderedVinyls(before, o1, o2) ==
    IF Take \in {o1, o2} THEN NoTexture ELSE Ordered(Ordered(before, o1), o2)

(* RPC_CUSTOM_VISUALS: a shadow, windows, body and a plate in one order. *)
CustomVisuals(c, size, shadow, toners, vinyls, plate) ==
    /\ m_pVehicles[c] # NoCar
    /\ LET toned == FoldSet(LAMBDA n, v : ApplyToner(v, n, toners[n]),
                            SetCustomShadow(View(c), size, shadow), Toners)
       IN SetLook(c, ApplyVinyls(toned, vinyls[1], vinyls[2]))
    /\ IF plate = Keep THEN UNCHANGED m_Plates ELSE PushPlate(c, plate)
    /\ ordered' = [ordered EXCEPT ![c] = [n \in Names |->
            CASE n \in Toners        -> Ordered(ordered[c][n], toners[n])
              [] n = "remap_cbody_0" -> OrderedVinyls(ordered[c][n], vinyls[1], vinyls[2])
              [] n = "remap_plate"   -> IF plate \in Plates THEN plate ELSE ordered[c][n]]]

(* One plate: a texture is drawn, for whoever has the id by now. *)
Drawn(w, order) ==
    LET c == order.vehicleId
        v == Referenced([look |-> w.cars[c], refs |-> w.refs, lost |-> w.lost], order.plate)
        after == IF v.look = NoCar THEN Forgotten(v, order.plate) ELSE ApplyPlate(v, order.plate)
    IN IF order.plate = BadPlate THEN w
       ELSE [cars |-> [w.cars EXCEPT ![c] = after.look], refs |-> after.refs, lost |-> after.lost]

(* CCustomPlateManager::Process, once a frame, the fonts having loaded. *)
Process ==
    LET w == FoldLeft(Drawn, [cars |-> m_pVehicles, refs |-> refs, lost |-> lost], m_Plates) IN
    /\ Bounded(w)
    /\ m_pVehicles' = w.cars /\ refs' = w.refs /\ lost' = w.lost
    /\ m_Plates' = <<>>
    /\ UNCHANGED ordered

(* What the server may order.  Orders that act alike are taken once, and an *)
(* order changes the windows, the body or the plate, and the shadow.       *)
Shades == {<<FALSE, NoTexture>>} \cup ({TRUE} \X (Files \cup {NoTexture}))
Kept == [toners |-> [n \in Toners |-> Keep], vinyls |-> <<Keep, Keep>>, plate |-> Keep]
Suits ==
    {[Kept EXCEPT !.toners = ts] : ts \in [Toners -> Orders]} \cup
    {[Kept EXCEPT !.vinyls = v] : v \in {<<Take, Take>>} \cup ((Orders \ {Take}) \X (Orders \ {Take}))} \cup
    {[Kept EXCEPT !.plate = p] : p \in Plates \cup {BadPlate}}

LookNext ==
    \/ \E c \in CarIds :
         \/ \E p \in Plates : NewVehicle(c, p)
         \/ DeleteVehicle(c)
         \/ \E shade \in Shades, suit \in Suits :
              CustomVisuals(c, shade[1], shade[2], suit.toners, suit.vinyls, suit.plate)
    \/ Process
    \/ ResetVehiclePool

-----------------------------------------------------------------------------

LookTypeOK ==
    /\ m_pVehicles \in [CarIds -> Look \cup {NoCar}]
    /\ m_Plates \in Seq([vehicleId : CarIds, plate : Plates \cup {BadPlate}])
    /\ refs \in [Textures -> Nat] /\ lost \in [Textures -> Nat]
    /\ ordered \in [CarIds -> [Names -> Textures \cup {NoTexture}]]

(* What CVehicle__SetupRenderMatCB puts in the place of a texture: that of *)
(* the first slot with its name and a texture.  (m_bReplacedTexture, which *)
(* the caller tests, is set with the first slot and never cleared.)        *)
Shown(look, name) ==
    LET fits == {i \in Slots : /\ look.m_szReplacedTextures[i].szOld = name
                               /\ look.m_szReplacedTextures[i].pTexture # NoTexture}
    IN IF fits = {} THEN NoTexture ELSE look.m_szReplacedTextures[Min(fits)].pTexture

(* A vehicle wears what it was last ordered to wear: the order of          *)
(* replacing, the slots that are used again and the plate that is drawn    *)
(* frames later never leave it in an older texture, or in the plate of the *)
(* vehicle that had its id before.                                         *)
LastTextureShows ==
    \A c \in CarIds, n \in Names :
        \/ m_pVehicles[c] = NoCar
        \/ n = "remap_plate" /\ \E i \in DOMAIN m_Plates : m_Plates[i].vehicleId = c
        \/ Shown(m_pVehicles[c], n) = ordered[c][n]

(* Every reference to a texture is given back once: no texture is          *)
(* destroyed that a vehicle still wears, and none is left over but those   *)
(* of replaced shadows and of plates whose vehicle was gone.               *)
TexturesAccounted ==
    \A t \in Textures :
        refs[t] = lost[t] + MapThenSumSet(LAMBDA c : Worn(m_pVehicles[c], t),
                                          {c \in CarIds : m_pVehicles[c] # NoCar})

(* A vehicle wears the textures, the plate and the shadow last ordered for *)
(* it, and every texture is held as often as it is worn, but for the leaks *)
(* that TexturesAccounted names.                                           *)
LooksTrue == LastTextureShows /\ TexturesAccounted
=============================================================================
