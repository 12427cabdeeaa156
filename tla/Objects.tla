------------------------------- MODULE Objects -------------------------------
(***************************************************************************)
(* The server's objects beyond their slots (SlotPools): the textures they  *)
(* show instead of their models' (scriptrpc.cpp), how the drawing of one   *)
(* borrows the materials that all objects of its model share (hooks.cpp),  *)
(* and what they are attached to (object.cpp).  All of it runs on the game *)
(* thread, the drawing inside the game's.                                  *)
(* A material without a texture shows the model's, whether m_bCreated and  *)
(* m_bMaterials say that it was ordered or not.                            *)
(***************************************************************************)
EXTENDS Naturals, SequencesExt

CONSTANTS
    ObjectIds,      \* of them 0, which the drawing does not find
    Shapes,         \* models
    Surfaces,       \* the indexes of materials, MAX_MATERIALS
    Skins,          \* the textures the server may name
    Bare,           \* no texture
    Props,          \* the game's objects
    NoProp,
    RideIds,        \* ids of vehicles
    Rides,          \* the game's vehicles
    Aside,          \* attached to nothing, or no vehicle
    Wearer,         \* some player's ped
    MaxOrphans      \* bound: how often one texture may be forgotten

ASSUME ObjectsAssumption ==
    /\ ObjectIds \subseteq Nat /\ IsFiniteSet(ObjectIds) /\ IsFiniteSet(Surfaces)
    /\ Bare \notin Skins /\ NoProp \notin Props
    /\ {Aside, Wearer} \cap Rides = {} /\ Aside # Wearer
    /\ MaxOrphans \in Nat

VARIABLES
    m_pObjects,     \* each object, or NoObject
    skinRefs,           \* how often the client holds each texture
    orphans,           \* how many of these nobody will give back
    paint,          \* what the materials of each model show
    resetEntries,   \* what has to be put back when an object is drawn, in order
    rendering,      \* the game's object being drawn
    attachedTo,     \* each of the game's objects
    rideAt,         \* the vehicle with an id
    objectPart,     \* what this behaviour is about: "skins" or "rides"
    processed       \* the pool was processed since the last order, arrival or departure

objectVars ==
    <<m_pObjects, skinRefs, orphans, paint, resetEntries, rendering, attachedTo, rideAt, objectPart, processed>>

NoObject == [entity |-> NoProp, model |-> Bare, tex |-> [s \in Surfaces |-> Bare], ride |-> Aside]
Own(model, s) == <<model, s>>
Plain == [model \in Shapes |-> [s \in Surfaces |-> Own(model, s)]]

ObjectsInit ==
    /\ m_pObjects = [i \in ObjectIds |-> NoObject]
    /\ skinRefs = [t \in Skins |-> 0] /\ orphans = [t \in Skins |-> 0]
    /\ paint = Plain
    /\ resetEntries = <<>> /\ rendering = NoProp
    /\ attachedTo = [e \in Props |-> Aside]
    /\ rideAt = [v \in RideIds |-> Aside]
    /\ processed = TRUE
    /\ objectPart \in {"skins", "rides"}

-----------------------------------------------------------------------------
(* Textures.  Reading one from the store, or else from the database, takes *)
(* a reference; nobody gives back the one that was there.                  *)

InUse(tex, t) == Cardinality({s \in Surfaces : tex[s] = t})
Held(t) == Cardinality({p \in ObjectIds \X Surfaces : m_pObjects[p[1]].tex[p[2]] = t})
GivenBack(tex) == [t \in Skins |-> skinRefs[t] - InUse(tex, t)]

(* CObject::~CObject. *)
Destroyed(i) ==
    /\ skinRefs' = GivenBack(m_pObjects[i].tex)
    /\ attachedTo' = [e \in Props |-> IF e = m_pObjects[i].entity THEN Aside ELSE attachedTo[e]]

(* Whoever has the id goes first.  e may be NoProp, when the game has no   *)
(* room; the server names each material at most once, and those that are   *)
(* texts (2) are skipped.                                                  *)
ScrCreateObject(i, e, model, tex, ride) ==
    /\ e \notin {m_pObjects[j].entity : j \in ObjectIds \ {i}} \ {NoProp}
    /\ skinRefs' = [t \in Skins |-> GivenBack(m_pObjects[i].tex)[t] + InUse(tex, t)]
    /\ attachedTo' = [o \in Props |-> IF o = m_pObjects[i].entity THEN Aside ELSE attachedTo[o]]
    /\ m_pObjects' = [m_pObjects EXCEPT ![i] =
                         [entity |-> e, model |-> model, tex |-> tex, ride |-> ride]]
    /\ processed' = FALSE
    /\ UNCHANGED <<orphans, paint, resetEntries, rendering, rideAt>>

ResetObjectPool ==
    /\ skinRefs' = [t \in Skins |-> skinRefs[t] - Held(t)]
    /\ attachedTo' = [e \in Props |-> Aside]
    /\ m_pObjects' = [i \in ObjectIds |-> NoObject]
    /\ UNCHANGED <<orphans, paint, resetEntries, rendering, rideAt, processed>>

ScrDestroyObject(i) ==
    /\ m_pObjects[i] # NoObject
    /\ Destroyed(i)
    /\ m_pObjects' = [m_pObjects EXCEPT ![i] = NoObject]
    /\ UNCHANGED <<orphans, paint, resetEntries, rendering, rideAt, processed>>

(* t is Bare when the order is about a colour (model -1) or names a        *)
(* texture that is found nowhere.                                          *)
ScrSetPlayerObjectMaterial(i, s, t) ==
    LET before == m_pObjects[i].tex[s] IN
    /\ m_pObjects[i] # NoObject
    /\ before # Bare => orphans[before] < MaxOrphans
    /\ m_pObjects' = [m_pObjects EXCEPT ![i].tex[s] = t]
    /\ skinRefs' = [u \in Skins |-> IF u = t THEN skinRefs[u] + 1 ELSE skinRefs[u]]
    /\ orphans' = [u \in Skins |-> IF u = before THEN orphans[u] + 1 ELSE orphans[u]]
    /\ UNCHANGED <<paint, resetEntries, rendering, attachedTo, rideAt, processed>>

-----------------------------------------------------------------------------
(* What objects are attached to                                            *)

(* Whoever has no ped cannot be named, see README. *)
ScrAttachObjectToPlayer(i) ==
    /\ m_pObjects[i].entity # NoProp
    /\ attachedTo' = [attachedTo EXCEPT ![m_pObjects[i].entity] = Wearer]
    /\ UNCHANGED <<m_pObjects, skinRefs, orphans, paint, resetEntries, rendering, rideAt, processed>>

(* CObject::ProcessAttachToVehicle, unless the object is attached or the   *)
(* vehicle is not there.                                                   *)
Follows(e) ==
    {i \in ObjectIds : /\ m_pObjects[i].entity = e /\ m_pObjects[i].ride # Aside
                       /\ attachedTo[e] = Aside /\ rideAt[m_pObjects[i].ride] # Aside}

ProcessObjects ==
    /\ ~processed
    /\ attachedTo' = [e \in Props |->
          IF Follows(e) = {} THEN attachedTo[e]
          ELSE rideAt[m_pObjects[CHOOSE i \in Follows(e) : TRUE].ride]]
    /\ processed' = TRUE
    /\ UNCHANGED <<m_pObjects, skinRefs, orphans, paint, resetEntries, rendering, rideAt>>

(* The game lets go of what is attached to a vehicle or ped that goes. *)
LetGo(holder) == [e \in Props |-> IF attachedTo[e] = holder THEN Aside ELSE attachedTo[e]]

(* Creation and deletion of a vehicle; in its place may come another. *)
RideChanges(v, r) ==
    /\ rideAt[v] # r /\ (r = Aside \/ \A w \in RideIds : rideAt[w] # r)
    /\ attachedTo' = IF rideAt[v] = Aside THEN attachedTo ELSE LetGo(rideAt[v])
    /\ rideAt' = [rideAt EXCEPT ![v] = r]
    /\ processed' = FALSE
    /\ UNCHANGED <<m_pObjects, skinRefs, orphans, paint, resetEntries, rendering>>

WearerGoes ==
    /\ attachedTo' = LetGo(Wearer)
    /\ processed' = FALSE
    /\ UNCHANGED <<m_pObjects, skinRefs, orphans, paint, resetEntries, rendering, rideAt>>

-----------------------------------------------------------------------------
(* Drawing                                                                 *)

(* GetObjectFromGtaPtr, which begins with 1. *)
Found(e) == {i \in ObjectIds \ {0} : m_pObjects[i].entity = e}

(* CObject__Render_hook and RwFrameForAllObjectsCALLBACK1 before the game   *)
(* draws; three callers are not hooked.  A model names each material once, *)
(* in an order of its own.                                                 *)
RenderBegins(e) ==
    LET shown == m_pObjects[Min(Found(e))]
        lent == {s \in Surfaces : shown.tex[s] # Bare}
        Saved(s) == [model |-> shown.model, at |-> s, texture |-> paint[shown.model][s]]
    IN
    /\ e \in {m_pObjects[i].entity : i \in ObjectIds} \ {NoProp}
    /\ rendering' = e
    /\ IF Found(e) = {} THEN UNCHANGED <<paint, resetEntries>>
       ELSE /\ resetEntries' = resetEntries \o
                  [k \in 1 .. Cardinality(lent) |-> Saved(SetToSeq(lent)[k])]
            /\ paint' = [paint EXCEPT ![shown.model] =
                            [s \in Surfaces |-> IF s \in lent THEN shown.tex[s] ELSE @[s]]]
    /\ UNCHANGED <<m_pObjects, skinRefs, orphans, attachedTo, rideAt, processed>>

(* What was saved is put back in order: of two entries the later one wins. *)
Entries(model, s) ==
    {k \in DOMAIN resetEntries : resetEntries[k].model = model /\ resetEntries[k].at = s}

RenderEnds ==
    /\ paint' = [model \in Shapes |-> [s \in Surfaces |->
          IF Entries(model, s) = {} THEN paint[model][s]
          ELSE resetEntries[Max(Entries(model, s))].texture]]
    /\ resetEntries' = <<>> /\ rendering' = NoProp
    /\ UNCHANGED <<m_pObjects, skinRefs, orphans, attachedTo, rideAt, processed>>

SkinsNext ==
    \/ \E i \in ObjectIds, e \in Props \cup {NoProp}, model \in Shapes, tex \in [Surfaces -> Skins \cup {Bare}] :
          ScrCreateObject(i, e, model, tex, Aside)
    \/ \E i \in ObjectIds, s \in Surfaces, t \in Skins \cup {Bare} : ScrSetPlayerObjectMaterial(i, s, t)
    \/ \E e \in Props : RenderBegins(e)

RidesNext ==
    \/ \E i \in ObjectIds, e \in Props \cup {NoProp}, model \in Shapes, ride \in RideIds \cup {Aside} :
          ScrCreateObject(i, e, model, NoObject.tex, ride)
    \/ \E i \in ObjectIds : ScrAttachObjectToPlayer(i)
    \/ \E v \in RideIds, r \in Rides \cup {Aside} : RideChanges(v, r)
    \/ ProcessObjects \/ WearerGoes

ObjectsNext ==
    \/ rendering # NoProp /\ RenderEnds /\ UNCHANGED objectPart
    \/ /\ rendering = NoProp
       /\ \/ objectPart = "skins" /\ SkinsNext
          \/ objectPart = "rides" /\ RidesNext
          \/ ResetObjectPool \/ \E i \in ObjectIds : ScrDestroyObject(i)
       /\ UNCHANGED objectPart

-----------------------------------------------------------------------------
(* Every texture is held as often as objects show it, and as often as one  *)
(* was put over it; a texture in use is never freed.  Between drawings     *)
(* every model shows its own textures and nothing is left to put back,     *)
(* whichever objects of it were drawn or deleted; during one the object's model shows what was ordered for    *)
(* this object (that of number 0 shows its own).                           *)
MaterialsReturned ==
    /\ \A t \in Skins : skinRefs[t] = Held(t) + orphans[t]
    /\ rendering = NoProp => paint = Plain /\ resetEntries = <<>>
    /\ \A i \in Found(rendering) : rendering # NoProp =>
          LET o == m_pObjects[i] IN
          paint = [Plain EXCEPT ![o.model] =
                      [s \in Surfaces |-> IF o.tex[s] = Bare THEN @[s] ELSE o.tex[s]]]

(* What is attached to a vehicle was ordered onto the id that this vehicle *)
(* has; and once the pool was processed, every object ordered onto a       *)
(* vehicle that is there hangs on it, or on a player.                      *)
ObjectsFollow ==
    /\ \A e \in Props : attachedTo[e] \in Rides =>
          \E i \in ObjectIds : /\ m_pObjects[i].entity = e /\ m_pObjects[i].ride # Aside
                               /\ rideAt[m_pObjects[i].ride] = attachedTo[e]
    /\ processed => \A i \in ObjectIds :
          LET o == m_pObjects[i] IN
          o.entity # NoProp /\ o.ride # Aside /\ rideAt[o.ride] # Aside
             => attachedTo[o.entity] \in {rideAt[o.ride], Wearer}
==============================================================================
