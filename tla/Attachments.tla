---------------------------- MODULE Attachments ----------------------------
(***************************************************************************)
(* What the peds carry: the objects the server attaches to any player, and *)
(* the weapons the local player has on his back while they are not in his  *)
(* hands (CWeaponsOutFit), in slots of their own of the same array.  Every *)
(* attached object is one of the game's and is to be deleted with its ped. *)
(*                                                                         *)
(* An object is what it shows: a weapon's model or one of the server's.    *)
(***************************************************************************)
EXTENDS Integers, FiniteSetsExt, Functions

CONSTANTS
    Weapons,        \* the weapons a player may have
    Modelless,      \* those of them without a model to show
    Me,             \* the local player
    Others,         \* the other players
    OutfitSlots,    \* the slots for weapons, 0 .. 9; each is 10 further up in the ped's array
    ServerSlots,    \* the slots the server uses
    Shapes,         \* the models the server attaches
    Nothing         \* an empty slot, and the ped of a player who has none

OutfitSlot(s) == 10 + s
AttachSlots == {OutfitSlot(s) : s \in OutfitSlots} \cup ServerSlots

ASSUME AttachmentsAssumption ==
    /\ Modelless \subseteq Weapons /\ Me \notin Others
    /\ OutfitSlots \subseteq Nat /\ 0 \in OutfitSlots
    /\ {OutfitSlot(s) : s \in OutfitSlots} \cap ServerSlots = {}
    /\ Nothing \notin Weapons \cup Shapes /\ Weapons \cap Shapes = {}
    /\ Nothing \notin [AttachSlots -> Weapons \cup Shapes \cup {Nothing}]
    /\ \A S \in {Weapons, Others, OutfitSlots, ServerSlots} : IsFiniteSet(S)

VARIABLES
    m_aAttachedObjects, \* of each ped, what is attached in each slot
    objects,            \* the game's objects that were made for it
    m_bUsedWeapon,      \* the weapons the outfit has seen
    m_iSlots,           \* the slot of each, or -1
    m_bUsedSlots,       \* the slots that are taken
    m_bEnabled,         \* the outfit is switched on
    m_bParsed,          \* outfit.dat was read
    m_bUpdated,         \* the offsets have been changed
    arms,               \* the local player's weapons with ammunition
    hand,               \* the one in his hand, or Nothing
    spawned,        \* he has spawned and has not died since
    fresh,              \* the outfit has been gone through since his weapons changed
    flushed,            \* weapons whose objects went when he died
    attached            \* what the server has attached

outfitVars == <<m_bUsedWeapon, m_iSlots, m_bUsedSlots>>
attachVars == <<m_aAttachedObjects, objects, outfitVars, m_bEnabled, m_bParsed, m_bUpdated,
                arms, hand, spawned, fresh, flushed, attached>>

Peds == {Me} \cup Others
Bare == [s \in AttachSlots |-> Nothing]
NoOrders == [s \in ServerSlots |-> Nothing]

AttachInit ==
    /\ m_aAttachedObjects = [p \in Peds |-> IF p = Me THEN Bare ELSE Nothing]
    /\ objects = 0
    /\ m_bUsedWeapon = {}
    /\ m_bEnabled \in BOOLEAN /\ m_bParsed \in BOOLEAN /\ m_bUpdated = FALSE
    /\ m_iSlots = [w \in Weapons |-> IF m_bParsed THEN -1 ELSE 0]
    /\ m_bUsedSlots = {}
    /\ arms = {} /\ hand = Nothing /\ spawned = FALSE
    /\ fresh = FALSE /\ flushed = {}
    /\ attached = [p \in Peds |-> NoOrders]

-----------------------------------------------------------------------------
(* The methods of CPlayerPed, from and to what is attached to the ped and  *)
(* the number of objects.                                                  *)

DeattachObject(v, s) ==
    [on |-> [v.on EXCEPT ![s] = Nothing],
     objects |-> IF v.on[s] = Nothing THEN v.objects ELSE v.objects - 1]

(* Mutant: what is in the slot is overwritten. *)
AttachObject_Overwrites(v, s, thing) ==
    [on |-> [v.on EXCEPT ![s] = thing], objects |-> v.objects + 1]

AttachObject(v, s, thing) ==
    LET free == DeattachObject(v, s)
    IN [on |-> [free.on EXCEPT ![s] = thing], objects |-> free.objects + 1]

FlushAttach(v) == FoldSet(LAMBDA s, w : DeattachObject(w, s), v, AttachSlots)

On(p) == [on |-> m_aAttachedObjects[p], objects |-> objects]

SetOn(p, v) ==
    /\ m_aAttachedObjects' = [m_aAttachedObjects EXCEPT ![p] = v.on]
    /\ objects' = v.objects

-----------------------------------------------------------------------------
(* The methods of CWeaponsOutFit, from and to the state o of the outfit    *)
(* and of the local ped.                                                   *)

(* A weapon that finds no slot is marked as used and waits for nothing. *)
OnWeaponAdded(o, w) ==
    LET free == OutfitSlots \ o.slots
        seen == [o EXCEPT !.used = @ \cup {w}]
    IN IF w \in Modelless \/ free = {} THEN seen
       ELSE [seen EXCEPT !.slots = @ \cup {Min(free)}, !.slot[w] = Min(free),
                         !.ped = AttachObject(o.ped, OutfitSlot(Min(free)), w)]

OnWeaponRemoved(o, w) ==
    LET seen == [o EXCEPT !.used = @ \ {w}]
    IN IF o.slot[w] = -1 THEN seen
       ELSE [seen EXCEPT !.slots = @ \ {o.slot[w]}, !.slot[w] = -1,
                         !.ped = DeattachObject(o.ped, OutfitSlot(o.slot[w]))]

(* The weapons that should be on the back. *)
OnBack == arms \ {hand}

(* One pass over all weapons, in the order of their numbers.  Which of two *)
(* gets the last slot is left open.                                        *)
Passes(o) ==
    LET added == OnBack \ o.used
        removed == o.used \ OnBack
        orders == {f \in [1 .. Cardinality(added \cup removed) -> added \cup removed] : IsInjective(f)}
        Step(w, q) == IF w \in added THEN OnWeaponAdded(q, w) ELSE OnWeaponRemoved(q, w)
    IN {FoldFunction(Step, o, f) : f \in orders}

Outfit == [ped |-> On(Me), used |-> m_bUsedWeapon, slot |-> m_iSlots, slots |-> m_bUsedSlots]

SetOutfit(o) ==
    /\ SetOn(Me, o.ped)
    /\ m_bUsedWeapon' = o.used /\ m_iSlots' = o.slot /\ m_bUsedSlots' = o.slots

(* ProcessLocalPlayer, in every frame of an active player: the outfit is   *)
(* taken off, or its offsets are brought up to date, or gone through.      *)
ProcessLocalPlayer ==
    /\ spawned
    /\ \/ /\ ~m_bEnabled \/ ~m_bParsed
          /\ SetOutfit(FoldSet(LAMBDA w, o : OnWeaponRemoved(o, w), Outfit, Weapons))
          /\ flushed' = {}
          /\ UNCHANGED <<m_bUpdated, fresh>>
       \/ /\ m_bEnabled /\ m_bParsed /\ m_bUpdated
          /\ m_bUpdated' = FALSE
          /\ UNCHANGED <<m_aAttachedObjects, objects, outfitVars, fresh, flushed>>
       \/ /\ m_bEnabled /\ m_bParsed /\ ~m_bUpdated
          /\ \E o \in Passes(Outfit) : SetOutfit(o)
          /\ fresh' = TRUE
          /\ flushed' = flushed \cap m_bUsedWeapon'
          /\ UNCHANGED m_bUpdated
    /\ UNCHANGED <<m_bEnabled, m_bParsed, arms, hand, spawned, attached>>

(* setNativeOutfitGunsSettings, and the setters of the offsets. *)
SetEnabled(b) ==
    /\ m_bEnabled' = b /\ fresh' = FALSE
    /\ UNCHANGED <<m_aAttachedObjects, objects, outfitVars, m_bParsed, m_bUpdated,
                   arms, hand, spawned, flushed, attached>>

OnUpdateOffsets ==
    /\ m_bUpdated' = TRUE
    /\ UNCHANGED <<m_aAttachedObjects, objects, outfitVars, m_bEnabled, m_bParsed,
                   arms, hand, spawned, fresh, flushed, attached>>

(* The player gets, drops, draws or uses up weapons. *)
Rearm(weapons, drawn) ==
    /\ spawned
    /\ drawn \in weapons \cup {Nothing}
    /\ arms' = weapons /\ hand' = drawn /\ fresh' = FALSE
    /\ UNCHANGED <<m_aAttachedObjects, objects, outfitVars, m_bEnabled, m_bParsed, m_bUpdated,
                   spawned, flushed, attached>>

(* The branch of CLocalPlayer::Process for a player who just died.  The    *)
(* outfit is not told (OnPedDie is empty and has no caller).               *)
DieFlushed ==
    /\ spawned
    /\ spawned' = FALSE
    /\ SetOn(Me, FlushAttach(On(Me)))
    /\ flushed' = {w \in Weapons : m_iSlots[w] # -1}
    /\ attached' = [attached EXCEPT ![Me] = NoOrders]
    /\ UNCHANGED <<outfitVars, m_bEnabled, m_bParsed, m_bUpdated, arms, hand, fresh>>

(* CLocalPlayer::Spawn, with the weapons of the spawn info. *)
SpawnArmed(weapons) ==
    /\ ~spawned
    /\ spawned' = TRUE
    /\ arms' = weapons /\ hand' = Nothing /\ fresh' = FALSE
    /\ UNCHANGED <<m_aAttachedObjects, objects, outfitVars, m_bEnabled, m_bParsed, m_bUpdated,
                   flushed, attached>>

(* The constructor and Destroy of another player's ped. *)
PedGiven(p) ==
    /\ m_aAttachedObjects[p] = Nothing
    /\ m_aAttachedObjects' = [m_aAttachedObjects EXCEPT ![p] = Bare]
    /\ UNCHANGED <<objects, outfitVars, m_bEnabled, m_bParsed, m_bUpdated,
                   arms, hand, spawned, fresh, flushed, attached>>

DestroyPed(p) ==
    /\ m_aAttachedObjects[p] # Nothing
    /\ SetOn(p, [FlushAttach(On(p)) EXCEPT !.on = Nothing])
    /\ attached' = [attached EXCEPT ![p] = NoOrders]
    /\ UNCHANGED <<outfitVars, m_bEnabled, m_bParsed, m_bUpdated,
                   arms, hand, spawned, fresh, flushed>>

(* RPC_ScrSetPlayerAttachedObject. *)
ScrSetPlayerAttachedObject(p, s, thing) ==
    /\ m_aAttachedObjects[p] # Nothing
    /\ SetOn(p, IF thing = Nothing THEN DeattachObject(On(p), s) ELSE AttachObject(On(p), s, thing))
    /\ attached' = [attached EXCEPT ![p][s] = thing]
    /\ UNCHANGED <<outfitVars, m_bEnabled, m_bParsed, m_bUpdated,
                   arms, hand, spawned, fresh, flushed>>

AttachNext ==
    \/ ProcessLocalPlayer
    \/ \E b \in BOOLEAN : SetEnabled(b)
    \/ OnUpdateOffsets
    \/ \E weapons \in SUBSET Weapons, drawn \in Weapons \cup {Nothing} : Rearm(weapons, drawn)
    \/ DieFlushed
    \/ \E weapons \in SUBSET Weapons : SpawnArmed(weapons)
    \/ \E p \in Others : PedGiven(p) \/ DestroyPed(p)
    \/ \E p \in Peds, s \in ServerSlots, thing \in Shapes \cup {Nothing} :
          ScrSetPlayerAttachedObject(p, s, thing)

-----------------------------------------------------------------------------

(* Each taken slot is that of one weapon the outfit has seen, and each     *)
(* weapon with a slot has taken it.                                        *)
OwnSlots ==
    m_bParsed =>
        /\ m_bUsedSlots = {m_iSlots[w] : w \in Weapons} \ {-1}
        /\ \A w1, w2 \in Weapons : m_iSlots[w1] = m_iSlots[w2] /\ m_iSlots[w1] # -1 => w1 = w2
        /\ \A w \in Weapons : m_iSlots[w] # -1 => w \in m_bUsedWeapon

(* What hangs on the local player's back is the weapon its slot was given  *)
(* to, and it is missing only if it was cast off when he died.  Once the   *)
(* outfit has been gone through, it has seen what he has and does not hold. *)
(* (One that found no slot then is not shown when a slot comes free.)      *)
OnTheBack ==
    /\ \A s \in OutfitSlots :
          LET thing == m_aAttachedObjects[Me][OutfitSlot(s)]
          IN thing # Nothing => thing \in Weapons /\ m_iSlots[thing] = s
    /\ m_bParsed => \A w \in Weapons :
          m_iSlots[w] # -1 => \/ m_aAttachedObjects[Me][OutfitSlot(m_iSlots[w])] = w
                              \/ w \in flushed
    /\ fresh => m_bUsedWeapon = OnBack

(* The server's objects are where it has put them, whatever the outfit     *)
(* does in the same array.                                                 *)
AsOrdered ==
    \A p \in Peds, s \in ServerSlots :
        IF m_aAttachedObjects[p] = Nothing THEN attached[p][s] = Nothing
        ELSE m_aAttachedObjects[p][s] = attached[p][s]

(* No object outlives its place on a ped, and none is deleted twice. *)
NoneLeft ==
    objects = MapThenSumSet(LAMBDA p : Cardinality({s \in AttachSlots : m_aAttachedObjects[p][s] # Nothing}),
                            {p \in Peds : m_aAttachedObjects[p] # Nothing})

WornAsCarried == OwnSlots /\ OnTheBack /\ AsOrdered /\ NoneLeft
=============================================================================
