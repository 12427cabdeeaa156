----------------------------- MODULE SlotPools -----------------------------
(***************************************************************************)
(* The pools of objects, actors, gang zones and 3D labels.  Each has a     *)
(* pointer and a flag per id, and its own idea of when to test which: what *)
(* a pool draws, processes and destroys depends on the two agreeing.       *)
(*                                                                         *)
(* All of it runs on the game thread.  What an entity looks like, and what *)
(* it is attached to, is left out.                                         *)
(***************************************************************************)
CONSTANTS
    Ids,        \* the ids of a pool
    Entities,   \* bound: the entities there is room for in the game
    Nobody      \* the null pointer

ASSUME SlotPoolsAssumption == Nobody \notin Entities

Kinds == {"object", "actor", "zone", "label"}

VARIABLES
    slots,      \* of each kind: the pool's pointers and flags, and the game's entities
    wanted      \* of each kind: the ids the server has created

slotPoolVars == <<slots, wanted>>

Pool == [ptr : [Ids -> Entities \cup {Nobody}], on : [Ids -> BOOLEAN], world : SUBSET Entities]
EmptySlots(world) == [ptr |-> [i \in Ids |-> Nobody], on |-> [i \in Ids |-> FALSE], world |-> world]

SlotPoolsInit ==
    /\ slots = [k \in Kinds |-> EmptySlots({})]
    /\ wanted = [k \in Kinds |-> {}]

Placed(p, i, e) ==
    [ptr |-> [p.ptr EXCEPT ![i] = e], on |-> [p.on EXCEPT ![i] = TRUE], world |-> p.world \cup {e}]
Dropped(p, i) ==
    [ptr |-> [p.ptr EXCEPT ![i] = Nobody], on |-> [p.on EXCEPT ![i] = FALSE], world |-> p.world \ {p.ptr[i]}]
Flagged(p, i) == [p EXCEPT !.on[i] = FALSE]

(* The pools' Delete: of an object only when flag and pointer are set, of  *)
(* a zone when the pointer is; actors and labels lose the flag anyway.     *)
ObjectDeleted(p, i) == IF p.on[i] /\ p.ptr[i] # Nobody THEN Dropped(p, i) ELSE p
ZoneDeleted(p, i) == IF p.ptr[i] # Nobody THEN Dropped(p, i) ELSE p
ActorDeleted(p, i) == IF p.ptr[i] # Nobody THEN Dropped(p, i) ELSE Flagged(p, i)
LabelDeleted(p, i) == IF p.ptr[i] # Nobody THEN Dropped(p, i) ELSE Flagged(p, i)

Deleted(k, p, i) ==
    CASE k = "object" -> ObjectDeleted(p, i)
      [] k = "zone"   -> ZoneDeleted(p, i)
      [] k = "actor"  -> ActorDeleted(p, i)
      [] k = "label"  -> LabelDeleted(p, i)

(* Mutant: the entity that is there is forgotten. *)
Create_Forgets(k, i, e) ==
    /\ e \in Entities \ slots[k].world
    /\ slots' = [slots EXCEPT ![k] = Placed(@, i, e)]
    /\ wanted' = [wanted EXCEPT ![k] = @ \cup {i}]

(* CObjectPool::New, CActorPool::Spawn, CGangZonePool::New and             *)
(* CreateTextLabel: an entity that is there is destroyed first.            *)
Create(k, i, e) ==
    LET before == Deleted(k, slots[k], i) IN
    /\ e \in Entities \ before.world
    /\ slots' = [slots EXCEPT ![k] = Placed(before, i, e)]
    /\ wanted' = [wanted EXCEPT ![k] = @ \cup {i}]

(* Objects, actors, zones and labels the server takes away.  An object is  *)
(* asked for first, with the flag, which Delete tests again.               *)
Delete(k, i) ==
    /\ slots' = [slots EXCEPT ![k] = Deleted(k, @, i)]
    /\ wanted' = [wanted EXCEPT ![k] = @ \ {i}]

(* What a pool's destructor leaves in the game: objects and actors go      *)
(* through Delete, a zone needs its pointer, a label pointer and flag.     *)
Left(k, p) ==
    CASE k \in {"actor", "zone"}   -> p.world \ {p.ptr[i] : i \in Ids}
      [] k \in {"object", "label"} -> p.world \ {p.ptr[i] : i \in {j \in Ids : p.on[j]}}

(* ResetObjectPool, ResetActorPool, ResetGangZonePool and ResetLabelPool.  *)
ResetSlotPools ==
    /\ slots' = [k \in Kinds |-> EmptySlots(Left(k, slots[k]))]
    /\ wanted' = [k \in Kinds |-> {}]

SlotPoolsNext(k) ==
    \E i \in Ids : Delete(k, i) \/ \E e \in Entities : Create(k, i, e)

-----------------------------------------------------------------------------

SlotPoolsTypeOK == slots \in [Kinds -> Pool] /\ wanted \in [Kinds -> SUBSET Ids]

(* What the server has created and not taken away is what the pool draws   *)
(* and processes, by flag or by pointer, and what exists in the game: no   *)
(* entity is left behind by a re-creation or a restart, and no two ids     *)
(* have the same one.                                                      *)
SlotsAsWanted ==
    \A k \in Kinds : LET p == slots[k] IN
      /\ wanted[k] = {i \in Ids : p.on[i]}
      /\ \A i \in Ids : p.on[i] = (p.ptr[i] # Nobody)
      /\ p.world = {p.ptr[i] : i \in wanted[k]}
      /\ \A i, j \in wanted[k] : p.ptr[i] = p.ptr[j] => i = j
=============================================================================
