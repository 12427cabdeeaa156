-------------------------- MODULE ClientSideProofs --------------------------
(***************************************************************************)
(* What the player has before him: that the pools show what the server has *)
(* put there, that texts reach their fields and the player is never left   *)
(* frozen, that his settings are kept, that the map and the objects are as *)
(* ordered, that pictures drawn off screen show their orders, and that     *)
(* vehicles keep to their own tuning; for any number of slots, textures    *)
(* and entities, any fields and vehicles, and any bounds.                  *)
(***************************************************************************)
EXTENDS ClientSide, FiniteSetTheorems, SequenceTheorems, WellFoundedInduction, TLAPS

-----------------------------------------------------------------------------
(* Pickups *)

(* The count may be above the pickups there are, never below: Destroy does *)
(* nothing at zero.                                                        *)
PickupsInv ==
    /\ PickupsTypeOK /\ PickupsAsShown
    /\ m_iPickupID = m_dwHnd
    /\ IsFiniteSet(Occupied) /\ Cardinality(Occupied) <= m_iPickupCount

LEMMA PickupsStart == PickupsInit => PickupsInv
<1> SUFFICES ASSUME PickupsInit PROVE PickupsInv  OBVIOUS
<1> USE PickupsAssumption
<1>1. Occupied = {}  BY DEF PickupsInit, Occupied
<1>2. IsFiniteSet(Occupied) /\ Cardinality(Occupied) = 0  BY <1>1, FS_EmptySet
<1>3. PickupsTypeOK  BY DEF PickupsInit, PickupsTypeOK, None
<1>4. PickupsAsShown  BY <1>1 DEF PickupsInit, PickupsAsShown
<1>5. QED  BY <1>2, <1>3, <1>4 DEF PickupsInit, PickupsInv

LEMMA NewKeeps ==
    ASSUME PickupsInv, NEW i \in PickupSlots, NEW g \in PickupIndexes, NEW b \in BOOLEAN, New(i, g, b)
    PROVE  PickupsInv'
<1> USE PickupsAssumption DEF PickupsInv
<1>1. g # None  BY DEF None
<1>2. Occupied' = Occupied \cup {i}
  BY <1>1 DEF New, Occupied, PickupsTypeOK
<1>3. IsFiniteSet(Occupied') /\ Cardinality(Occupied') <= m_iPickupCount'
  <2>1. /\ IsFiniteSet(Occupied')
        /\ Cardinality(Occupied') = IF i \in Occupied THEN Cardinality(Occupied) ELSE Cardinality(Occupied) + 1
    BY <1>2, FS_AddElement
  <2>2. Cardinality(Occupied) \in Nat /\ m_iPickupCount \in Nat
    BY FS_CardinalityType DEF PickupsTypeOK
  <2>3. QED  BY <2>1, <2>2 DEF New
<1>4. PickupsTypeOK'
  <2>1. m_iPickupCount' \in 0 .. MaxPickups  BY DEF New, PickupsTypeOK
  <2>2. m_dwHnd' \in [PickupSlots -> PickupIndexes \cup {None}]  BY DEF New, PickupsTypeOK
  <2>3. m_iPickupID' \in [PickupSlots -> PickupIndexes \cup {None}]  BY DEF New, PickupsTypeOK
  <2>4. m_iTimer' \in [PickupSlots -> 0 .. Rest]  BY DEF New, PickupsTypeOK
  <2>5. polled' \subseteq PickupSlots /\ inGame' \subseteq PickupIndexes /\ taken' \subseteq PickupIndexes
    BY DEF New, PickupsTypeOK
  <2>6. QED  BY <2>1, <2>2, <2>3, <2>4, <2>5 DEF New, Silent, PickupsTypeOK
<1>5. m_iPickupID' = m_dwHnd'  BY DEF New
<1>6. PickupsAsShown'
  <2>1. Occupied' = shown' \ refused'  BY <1>2 DEF New, PickupsAsShown
  <2>2. \A j \in PickupSlots : m_dwHnd'[j] = IF j = i THEN g ELSE m_dwHnd[j]
    BY DEF New, PickupsTypeOK
  <2>3. inGame' = (inGame \ {m_dwHnd[i]}) \cup {g} /\ g \notin inGame \ {m_dwHnd[i]}
    BY DEF New
  <2>4. \A j \in Occupied \ {i} : m_dwHnd[j] \in inGame \ {m_dwHnd[i]}
    BY DEF PickupsAsShown, Occupied
  <2>5. inGame \ {m_dwHnd[i]} = {m_dwHnd[j] : j \in Occupied \ {i}}
    BY <2>4 DEF PickupsAsShown
  <2>6. \A j \in Occupied \ {i} : m_dwHnd'[j] = m_dwHnd[j]  BY <2>2 DEF Occupied
  <2>7. inGame' = {m_dwHnd'[j] : j \in Occupied'}
    <3>1. m_dwHnd'[i] = g  BY <2>2
    <3>2. {m_dwHnd'[j] : j \in Occupied'} = {m_dwHnd[j] : j \in Occupied \ {i}} \cup {g}
      BY <3>1, <1>2, <2>6
    <3>3. QED  BY <3>2, <2>3, <2>5
  <2>8. \A j, k \in Occupied' : m_dwHnd'[j] = m_dwHnd'[k] => j = k
    BY <1>2, <2>2, <2>3, <2>4 DEF PickupsAsShown, Occupied
  <2>9. QED  BY <2>1, <2>7, <2>8 DEF PickupsAsShown
<1>7. QED  BY <1>3, <1>4, <1>5, <1>6

LEMMA RemoveKeeps ==
    ASSUME PickupsInv, NEW i \in PickupSlots, i \in shown, RemovePickup(i),
           shown' = shown \ {i}, refused' = refused \ {i}, Silent
    PROVE  PickupsInv'
<1> USE PickupsAssumption DEF PickupsInv
<1>1. \A j \in PickupSlots : m_dwHnd'[j] = IF j = i THEN None ELSE m_dwHnd[j]
  BY DEF RemovePickup, PickupsTypeOK
<1>2. Occupied' = Occupied \ {i} /\ i \in Occupied
  BY <1>1 DEF RemovePickup, Occupied
<1>3. IsFiniteSet(Occupied') /\ Cardinality(Occupied') <= m_iPickupCount'
  <2>1. IsFiniteSet(Occupied') /\ Cardinality(Occupied') = Cardinality(Occupied) - 1
    BY <1>2, FS_RemoveElement
  <2>2. Cardinality(Occupied) \in Nat /\ m_iPickupCount \in Nat
    BY FS_CardinalityType DEF PickupsTypeOK
  <2>3. QED  BY <2>1, <2>2 DEF RemovePickup
<1>4. PickupsTypeOK'
  <2>1. m_iPickupCount' \in 0 .. MaxPickups  BY DEF RemovePickup, PickupsTypeOK
  <2>2. m_dwHnd' \in [PickupSlots -> PickupIndexes \cup {None}]  BY DEF RemovePickup, PickupsTypeOK
  <2>3. m_iPickupID' \in [PickupSlots -> PickupIndexes \cup {None}]  BY DEF RemovePickup, PickupsTypeOK
  <2>4. m_iTimer' \in [PickupSlots -> 0 .. Rest]  BY DEF RemovePickup, PickupsTypeOK
  <2>5. QED  BY <2>1, <2>2, <2>3, <2>4 DEF RemovePickup, Silent, PickupsTypeOK
<1>5. m_iPickupID' = m_dwHnd'  BY DEF RemovePickup
<1>6. PickupsAsShown'
  <2>1. Occupied' = shown' \ refused'  BY <1>2 DEF PickupsAsShown
  <2>2. ASSUME NEW j \in Occupied' PROVE m_dwHnd'[j] = m_dwHnd[j] /\ m_dwHnd[j] # m_dwHnd[i]
    <3>1. j \in PickupSlots /\ j \in Occupied /\ j # i  BY <1>2 DEF Occupied
    <3>2. QED  BY <3>1, <1>1, <1>2 DEF PickupsAsShown
  <2>3. inGame' = {m_dwHnd[j] : j \in Occupied'}
    BY <1>2, <2>2 DEF RemovePickup, PickupsAsShown
  <2>4. inGame' = {m_dwHnd'[j] : j \in Occupied'}  BY <2>2, <2>3
  <2>5. \A j, k \in Occupied' : m_dwHnd'[j] = m_dwHnd'[k] => j = k
    BY <1>2, <2>2 DEF PickupsAsShown
  <2>6. QED  BY <2>1, <2>4, <2>5 DEF PickupsAsShown
<1>7. QED  BY <1>3, <1>4, <1>5, <1>6

LEMMA ResetPickupKeeps == PickupsInv /\ ResetPickupPool => PickupsInv'
<1> SUFFICES ASSUME PickupsInv, ResetPickupPool PROVE PickupsInv'  OBVIOUS
<1> USE PickupsAssumption
<1>1. Occupied' = {}  BY DEF ResetPickupPool, Occupied
<1>2. IsFiniteSet(Occupied') /\ Cardinality(Occupied') = 0  BY <1>1, FS_EmptySet
<1>3. PickupsTypeOK'
  <2>1. m_dwHnd' \in [PickupSlots -> PickupIndexes \cup {None}] /\ m_iPickupID' = m_dwHnd'
    BY DEF ResetPickupPool
  <2>2. m_iTimer' \in [PickupSlots -> 0 .. Rest]  BY DEF ResetPickupPool
  <2>3. inGame' \subseteq PickupIndexes /\ taken' \subseteq PickupIndexes
    BY DEF ResetPickupPool, PickupsInv, PickupsTypeOK
  <2>4. QED  BY <2>1, <2>2, <2>3 DEF ResetPickupPool, Silent, PickupsTypeOK
<1>4. PickupsAsShown'
  BY <1>1 DEF ResetPickupPool, PickupsInv, PickupsAsShown
<1>5. QED  BY <1>2, <1>3, <1>4 DEF ResetPickupPool, PickupsInv

LEMMA SameSlots ==
    ASSUME PickupsInv, UNCHANGED <<m_iPickupCount, m_dwHnd, m_iPickupID, inGame>>,
           shown' \ refused' = shown \ refused, PickupsTypeOK'
    PROVE  PickupsInv'
<1>1. Occupied' = Occupied  BY DEF Occupied
<1>2. QED  BY <1>1 DEF PickupsInv, PickupsAsShown

LEMMA PickupsKeep == PickupsInv /\ (PickupsNext \/ ResetPickupPool \/ UNCHANGED pickupVars) => PickupsInv'
<1> SUFFICES ASSUME PickupsInv, PickupsNext \/ ResetPickupPool \/ UNCHANGED pickupVars
             PROVE  PickupsInv'
  OBVIOUS
<1> USE PickupsAssumption
<1>1. ASSUME NEW i \in PickupSlots, Refuse(i) PROVE PickupsInv'
  <2>1. PickupsTypeOK'  BY <1>1 DEF Refuse, Silent, pool, PickupsInv, PickupsTypeOK
  <2>2. m_dwHnd[i] = None <=> i \notin shown \ refused
    BY DEF PickupsInv, PickupsAsShown, Occupied
  <2>3. shown' \ refused' = shown \ refused  BY <1>1, <2>2 DEF Refuse
  <2>4. QED  BY <1>1, <2>1, <2>3, SameSlots DEF Refuse, pool
<1>2. ASSUME NEW i \in PickupSlots, Destroy(i) PROVE PickupsInv'
  <2>1. CASE RemovePickup(i)  BY <1>2, <2>1, RemoveKeeps DEF Destroy
  <2>2. CASE ~RemovePickup(i)
    <3>1. (m_iPickupCount <= 0 \/ m_dwHnd[i] = None) /\ UNCHANGED <<pool, taken>>
      BY <1>2, <2>2 DEF Destroy
    <3>2. m_dwHnd[i] = None
      <4>1. SUFFICES ASSUME m_iPickupCount <= 0 PROVE Occupied = {}
        BY <3>1 DEF Occupied
      <4>2. Cardinality(Occupied) \in Nat  BY FS_CardinalityType DEF PickupsInv
      <4>3. Cardinality(Occupied) = 0
        BY <4>1, <4>2 DEF PickupsInv, PickupsTypeOK
      <4>4. QED  BY <4>3, FS_EmptySet DEF PickupsInv
    <3>3. i \notin shown \ refused
      BY <3>2 DEF PickupsInv, PickupsAsShown, Occupied
    <3>4. shown' \ refused' = shown \ refused  BY <1>2, <3>3 DEF Destroy
    <3>5. PickupsTypeOK'  BY <1>2, <3>1 DEF Destroy, Silent, pool, PickupsInv, PickupsTypeOK
    <3>6. QED  BY <3>1, <3>4, <3>5, SameSlots DEF pool
  <2>3. QED  BY <2>1, <2>2
<1>3. ASSUME NEW g \in PickupIndexes, PickedUp(g) PROVE PickupsInv'
  <2>1. PickupsTypeOK'  BY <1>3 DEF PickedUp, PickupsInv, PickupsTypeOK
  <2>2. QED  BY <1>3, <2>1, SameSlots DEF PickedUp
<1>4. ASSUME ProcessPickups PROVE PickupsInv'
  <2>1. told' \subseteq PickupSlots  BY <1>4 DEF ProcessPickups, Occupied
  <2>2. m_iTimer \in [PickupSlots -> 0 .. Rest]  BY DEF PickupsInv, PickupsTypeOK
  <2>3. m_iTimer' \in [PickupSlots -> 0 .. Rest]  BY <1>4, <2>2 DEF ProcessPickups
  <2>4. PickupsTypeOK'
    BY <1>4, <2>1, <2>3 DEF ProcessPickups, PickupsInv, PickupsTypeOK
  <2>5. QED  BY <1>4, <2>4, SameSlots DEF ProcessPickups
<1>5. ASSUME UNCHANGED pickupVars PROVE PickupsInv'
  <2>1. PickupsTypeOK'  BY <1>5 DEF pickupVars, pool, PickupsInv, PickupsTypeOK
  <2>2. QED  BY <1>5, <2>1, SameSlots DEF pickupVars, pool
<1>6. QED
  BY <1>1, <1>2, <1>3, <1>4, <1>5, NewKeeps, ResetPickupKeeps DEF PickupsNext

(* The step PickupsTold speaks of. *)
ToldStep ==
    /\ \A i \in told' : m_dwHnd[i] = walkedInto' \/ m_dwHnd[i] \in taken
    /\ \A i \in PickupSlots :
         m_dwHnd[i] = walkedInto' /\ m_dwHnd[i] # None /\ m_iTimer[i] = 0 => i \in told'

LEMMA TellsRight == PickupsInv /\ (PickupsNext \/ ResetPickupPool) => ToldStep
<1> SUFFICES ASSUME PickupsInv, PickupsNext \/ ResetPickupPool PROVE ToldStep  OBVIOUS
<1>1. ASSUME NEW g \in PickupIndexes, PickedUp(g) PROVE ToldStep
  <2>1. \A i \in told' : m_dwHnd[i] = walkedInto'
    BY <1>1 DEF PickedUp, HasNumber, PickupsInv
  <2>2. ASSUME NEW i \in PickupSlots, m_dwHnd[i] = g, m_dwHnd[i] # None, m_iTimer[i] = 0
        PROVE  i \in told'
    <3>1. \A j \in PickupSlots : m_dwHnd[j] = g => j = i
      BY <2>2 DEF PickupsInv, PickupsAsShown, Occupied
    <3>2. \A j \in 0 .. (i - 1) : j \in PickupSlots /\ j # i
      BY PickupsAssumption DEF PickupSlots
    <3>3. HasNumber(g, i)  BY <2>2, <3>1, <3>2 DEF HasNumber, PickupsInv
    <3>4. QED  BY <1>1, <2>2, <3>3 DEF PickedUp
  <2>3. QED  BY <1>1, <2>1, <2>2 DEF PickedUp, ToldStep
<1>2. ASSUME ProcessPickups PROVE ToldStep
  BY <1>2 DEF ProcessPickups, ToldStep
<1>3. ASSUME Silent PROVE ToldStep
  BY <1>3 DEF Silent, ToldStep
<1>4. QED
  BY <1>1, <1>2, <1>3 DEF PickupsNext, ResetPickupPool, New, Refuse, Destroy

-----------------------------------------------------------------------------
(* Texture slots *)

OwnersIn(things, slotOf, t) == {d \in things : slotOf[d] = t}

(* The two halves of TexturesOwned, of any marks, pictures and objects.    *)
NoneLost(marks, things, slotOf) ==
    \A t \in TextureSlots : marks[t] => OwnersIn(things, slotOf, t) # {}
OneEach(marks, pictures, things, slotOf) ==
    \A t \in TextureSlots :
      /\ \A d, e \in OwnersIn(things, slotOf, t) : d = e
      /\ OwnersIn(things, slotOf, t) # {} => marks[t]
      /\ pictures[t] \in OwnersIn(things, slotOf, t) \cup {NoThing}

LEMMA OwnedMeans ==
    TexturesOwned <=>
      /\ "stray" \notin spoilt => NoneLost(bTextDrawTextureSlotState, alive, iTextureSlot)
      /\ spoilt = {} => OneEach(bTextDrawTextureSlotState, TextDrawTexture, alive, iTextureSlot)
  BY DEF TexturesOwned, NoneLost, OneEach, Owners, OwnersIn

(* Destroying objects gives their slots back and nobody else's.            *)
LEMMA FreeingKeeps ==
    ASSUME TextDrawsTypeOK, NEW objects, objects \subseteq alive
    PROVE  /\ Marks(objects) \in [TextureSlots -> BOOLEAN]
           /\ Pictures(objects) \in [TextureSlots -> Things \cup {NoThing}]
           /\ NoneLost(bTextDrawTextureSlotState, alive, iTextureSlot)
                => NoneLost(Marks(objects), alive \ objects, iTextureSlot)
           /\ OneEach(bTextDrawTextureSlotState, TextDrawTexture, alive, iTextureSlot)
                => OneEach(Marks(objects), Pictures(objects), alive \ objects, iTextureSlot)
<1>1. Marks(objects) \in [TextureSlots -> BOOLEAN]  BY DEF Marks
<1>2. Pictures(objects) \in [TextureSlots -> Things \cup {NoThing}]
  BY DEF Pictures, TextDrawsTypeOK
<1>3. \A t \in TextureSlots, d \in objects : iTextureSlot[d] = t => t \in Freed(objects)
  BY DEF Freed
<1>4. ASSUME NoneLost(bTextDrawTextureSlotState, alive, iTextureSlot)
      PROVE  NoneLost(Marks(objects), alive \ objects, iTextureSlot)
  BY <1>3, <1>4 DEF NoneLost, Marks, OwnersIn
<1>5. ASSUME OneEach(bTextDrawTextureSlotState, TextDrawTexture, alive, iTextureSlot)
      PROVE  OneEach(Marks(objects), Pictures(objects), alive \ objects, iTextureSlot)
  <2> SUFFICES ASSUME NEW t \in TextureSlots
               PROVE  /\ \A d, e \in OwnersIn(alive \ objects, iTextureSlot, t) : d = e
                      /\ OwnersIn(alive \ objects, iTextureSlot, t) # {} => Marks(objects)[t]
                      /\ Pictures(objects)[t] \in OwnersIn(alive \ objects, iTextureSlot, t) \cup {NoThing}
    BY DEF OneEach
  <2>1. OwnersIn(alive \ objects, iTextureSlot, t) \subseteq OwnersIn(alive, iTextureSlot, t)
    BY DEF OwnersIn
  <2>2. ASSUME NEW d \in OwnersIn(alive \ objects, iTextureSlot, t) PROVE t \notin Freed(objects)
    <3>1. SUFFICES ASSUME NEW e \in objects, iTextureSlot[e] = t PROVE FALSE
      BY DEF Freed
    <3>2. e \in OwnersIn(alive, iTextureSlot, t)  BY <3>1 DEF OwnersIn
    <3>3. d = e  BY <1>5, <2>1, <3>2 DEF OneEach
    <3>4. QED  BY <3>1, <3>3 DEF OwnersIn
  <2>3. OwnersIn(alive \ objects, iTextureSlot, t) # {} => Marks(objects)[t]
    BY <1>5, <2>1, <2>2 DEF OneEach, Marks
  <2>4. CASE t \in Freed(objects)  BY <1>5, <2>1, <2>3, <2>4 DEF OneEach, Pictures
  <2>5. CASE t \notin Freed(objects)
    <3>1. Pictures(objects)[t] = TextDrawTexture[t]  BY <2>5 DEF Pictures
    <3>2. OwnersIn(alive, iTextureSlot, t) = OwnersIn(alive \ objects, iTextureSlot, t)
      BY <1>3, <2>5 DEF OwnersIn
    <3>3. QED  BY <1>5, <2>3, <3>1, <3>2 DEF OneEach
  <2>6. QED  BY <2>4, <2>5
<1>6. QED  BY <1>1, <1>2, <1>4, <1>5

(* An object that gets a free slot, or none, owns it alone.                *)
LEMMA TakingKeeps ==
    ASSUME NEW marks \in [TextureSlots -> BOOLEAN], NEW pictures \in [TextureSlots -> Things \cup {NoThing}],
           NEW things \in SUBSET Things, NEW slotOf \in [Things -> TextureSlots \cup {NoSlot}],
           NEW d \in Things \ things, NEW t \in TextureSlots \cup {NoSlot},
           t \in TextureSlots => ~marks[t],
           NEW marks2, marks2 = [u \in TextureSlots |-> marks[u] \/ u = t],
           NEW pictures2, pictures2 = pictures \/ (t # NoSlot /\ pictures2 = [pictures EXCEPT ![t] = d]),
           NEW slotOf2, slotOf2 = [slotOf EXCEPT ![d] = t]
    PROVE  /\ NoneLost(marks, things, slotOf) => NoneLost(marks2, things \cup {d}, slotOf2)
           /\ OneEach(marks, pictures, things, slotOf)
                => OneEach(marks2, pictures2, things \cup {d}, slotOf2)
<1>1. \A e \in things : slotOf2[e] = slotOf[e]  OBVIOUS
<1>2. slotOf2[d] = t  OBVIOUS
<1>3. \A u \in TextureSlots :
        OwnersIn(things \cup {d}, slotOf2, u) = OwnersIn(things, slotOf, u) \cup {e \in {d} : u = t}
  BY <1>1, <1>2 DEF OwnersIn
<1>4. ASSUME NoneLost(marks, things, slotOf) PROVE NoneLost(marks2, things \cup {d}, slotOf2)
  BY <1>3, <1>4 DEF NoneLost
<1>5. ASSUME OneEach(marks, pictures, things, slotOf)
      PROVE  OneEach(marks2, pictures2, things \cup {d}, slotOf2)
  <2> SUFFICES ASSUME NEW u \in TextureSlots
               PROVE  /\ \A e, f \in OwnersIn(things \cup {d}, slotOf2, u) : e = f
                      /\ OwnersIn(things \cup {d}, slotOf2, u) # {} => marks2[u]
                      /\ pictures2[u] \in OwnersIn(things \cup {d}, slotOf2, u) \cup {NoThing}
    BY DEF OneEach
  <2>1. CASE u = t
    <3>1. OwnersIn(things, slotOf, u) = {}  BY <1>5, <2>1 DEF OneEach
    <3>2. OwnersIn(things \cup {d}, slotOf2, u) = {d}  BY <1>3, <2>1, <3>1
    <3>3. pictures[u] = NoThing  BY <1>5, <3>1 DEF OneEach
    <3>4. pictures2[u] \in {d, NoThing}  BY <3>3, <2>1
    <3>5. QED  BY <2>1, <3>2, <3>4
  <2>2. CASE u # t
    <3>1. OwnersIn(things \cup {d}, slotOf2, u) = OwnersIn(things, slotOf, u)  BY <1>3, <2>2
    <3>2. pictures2[u] = pictures[u] /\ marks2[u] = marks[u]  BY <2>2
    <3>3. QED  BY <1>5, <3>1, <3>2 DEF OneEach
  <2>3. QED  BY <2>1, <2>2
<1>6. QED  BY <1>4, <1>5
TextDrawsInv == TextDrawsTypeOK /\ DrawsAsShown /\ TexturesOwned

LEMMA TextDrawsStart == TextDrawsInit => TextDrawsInv
<1> SUFFICES ASSUME TextDrawsInit PROVE TextDrawsInv  OBVIOUS
<1>1. TextDrawsTypeOK  BY DEF TextDrawsInit, TextDrawsTypeOK, Styles
<1>2. DrawsAsShown  BY DEF TextDrawsInit, DrawsAsShown
<1>3. TexturesOwned  BY DEF TextDrawsInit, TexturesOwned, Owners
<1>4. QED  BY <1>1, <1>2, <1>3 DEF TextDrawsInv

LEMMA TextDrawShowKeeps ==
    ASSUME TextDrawsInv, NEW i \in DrawIds, NEW d \in Things, NEW style \in Styles, Show(i, d, style)
    PROVE  TextDrawsInv'
<1> DEFINE old == {m_pTextDraw[i]} \ {NoThing}
           marks == Marks(old)
           others == alive \ old
<1> USE TextDrawsAssumption
<1>1. TextDrawsTypeOK /\ DrawsAsShown /\ TexturesOwned  BY DEF TextDrawsInv
<1>2. old \subseteq alive  BY <1>1 DEF DrawsAsShown
<1>3. /\ marks \in [TextureSlots -> BOOLEAN]
      /\ Pictures(old) \in [TextureSlots -> Things \cup {NoThing}]
  BY <1>1, <1>2, FreeingKeeps
<1>4. PICK t \in TextureSlots \cup {NoSlot} :
        /\ IF style = 4 THEN FreeSlot(marks, t) ELSE t = NoSlot
        /\ bTextDrawTextureSlotState' = [u \in TextureSlots |-> marks[u] \/ u = t]
        /\ Loads(Pictures(old), d, t)
        /\ iTextureSlot' = [iTextureSlot EXCEPT ![d] = t]
  BY DEF Show
<1>5. /\ d \in Things \ others /\ dwStyle' = [dwStyle EXCEPT ![d] = style]
      /\ alive' = others \cup {d}
      /\ m_pTextDraw' = [m_pTextDraw EXCEPT ![i] = d]
      /\ m_bSlotState' = [m_bSlotState EXCEPT ![i] = TRUE]
      /\ drawn' = drawn \cup {i} /\ spoilt' = spoilt
  BY DEF Show
<1>6. t \in TextureSlots => ~marks[t]
  BY <1>4 DEF FreeSlot, NoSlot, TextureSlots
<1>7. \/ TextDrawTexture' = Pictures(old)
      \/ t # NoSlot /\ TextDrawTexture' = [Pictures(old) EXCEPT ![t] = d]
  BY <1>4 DEF Loads
<1>8. others \in SUBSET Things /\ iTextureSlot \in [Things -> TextureSlots \cup {NoSlot}]
  BY <1>1 DEF TextDrawsTypeOK
<1>9. /\ NoneLost(marks, others, iTextureSlot)
           => NoneLost(bTextDrawTextureSlotState', alive', iTextureSlot')
      /\ OneEach(marks, Pictures(old), others, iTextureSlot)
           => OneEach(bTextDrawTextureSlotState', TextDrawTexture', alive', iTextureSlot')
  <2> HIDE DEF marks, others
  <2>1. TextDrawTexture' = Pictures(old) \/ (t # NoSlot /\ TextDrawTexture' = [Pictures(old) EXCEPT ![t] = d])
    BY <1>7
  <2>2. QED  BY <1>3, <1>4, <1>5, <1>6, <1>8, <2>1, TakingKeeps
<1>10. TexturesOwned'
  <2>1. /\ "stray" \notin spoilt => NoneLost(marks, others, iTextureSlot)
        /\ spoilt = {} => OneEach(marks, Pictures(old), others, iTextureSlot)
    BY <1>1, <1>2, FreeingKeeps, OwnedMeans
  <2>2. /\ "stray" \notin spoilt' => NoneLost(bTextDrawTextureSlotState', alive', iTextureSlot')
        /\ spoilt' = {} => OneEach(bTextDrawTextureSlotState', TextDrawTexture', alive', iTextureSlot')
    BY <1>5, <1>9, <2>1
  <2>3. QED  BY <2>2 DEF TexturesOwned, NoneLost, OneEach, Owners, OwnersIn
<1>11. TextDrawsTypeOK'
  <2>1. TextDrawTexture' \in [TextureSlots -> Things \cup {NoThing}]  BY <1>3, <1>7
  <2>2. iTextureSlot' \in [Things -> TextureSlots \cup {NoSlot}]  BY <1>4, <1>8
  <2>3. bTextDrawTextureSlotState' \in [TextureSlots -> BOOLEAN]  BY <1>3, <1>4
  <2>4. QED  BY <1>1, <1>5, <2>1, <2>2, <2>3 DEF TextDrawsTypeOK
<1>12. DrawsAsShown'
  <2>1. /\ m_pTextDraw \in [DrawIds -> Things \cup {NoThing}] /\ m_bSlotState \in [DrawIds -> BOOLEAN]
        /\ drawn \subseteq DrawIds
    BY <1>1 DEF TextDrawsTypeOK
  <2>2. \A j \in DrawIds : m_pTextDraw'[j] = IF j = i THEN d ELSE m_pTextDraw[j]
    BY <1>5, <2>1
  <2>3. \A j \in DrawIds : m_bSlotState'[j] = IF j = i THEN TRUE ELSE m_bSlotState[j]
    BY <1>5, <2>1
  <2>4. d # NoThing  OBVIOUS
  <2>5. drawn' = {j \in DrawIds : m_bSlotState'[j]}
    BY <1>1, <1>5, <2>1, <2>3 DEF DrawsAsShown
  <2>6. \A j \in DrawIds : m_bSlotState'[j] = (m_pTextDraw'[j] # NoThing)
    BY <1>1, <2>2, <2>3, <2>4 DEF DrawsAsShown
  <2>7. \A j \in DrawIds \ {i} : m_pTextDraw[j] # NoThing => m_pTextDraw[j] \in others
    BY <1>1 DEF DrawsAsShown
  <2>8. others = {m_pTextDraw[j] : j \in DrawIds \ {i}} \ {NoThing}
    BY <1>1, <2>7 DEF DrawsAsShown
  <2>9. alive' = {m_pTextDraw'[j] : j \in DrawIds} \ {NoThing}
    <3>1. {m_pTextDraw'[j] : j \in DrawIds} = {m_pTextDraw[j] : j \in DrawIds \ {i}} \cup {d}
      BY <2>2
    <3>2. QED  BY <3>1, <2>4, <2>8, <1>5
  <2>10. \A j, k \in DrawIds : m_pTextDraw'[j] = m_pTextDraw'[k] => j = k \/ m_pTextDraw'[j] = NoThing
    BY <1>1, <1>5, <2>2, <2>4, <2>7 DEF DrawsAsShown
  <2>11. QED  BY <2>5, <2>6, <2>9, <2>10 DEF DrawsAsShown
<1>13. QED  BY <1>10, <1>11, <1>12 DEF TextDrawsInv

LEMMA HideKeeps ==
    ASSUME TextDrawsInv, NEW i \in DrawIds, Hide(i)
    PROVE  TextDrawsInv'
<1> DEFINE d == m_pTextDraw[i]
<1>1. TextDrawsTypeOK /\ DrawsAsShown /\ TexturesOwned  BY DEF TextDrawsInv
<1>2. CASE d = NoThing
  <2>1. i \notin drawn  BY <1>1, <1>2 DEF DrawsAsShown
  <2>2. UNCHANGED textDrawVars  BY <1>2, <2>1 DEF Hide, textDrawVars
  <2>3. QED
    BY <1>1, <2>2 DEF TextDrawsInv, textDrawVars, draws, textures, TextDrawsTypeOK, DrawsAsShown, TexturesOwned, Owners
<1>3. CASE d # NoThing
  <2>1. /\ drawn' = drawn \ {i}
        /\ bTextDrawTextureSlotState' = Marks({d}) /\ TextDrawTexture' = Pictures({d})
        /\ alive' = alive \ {d}
        /\ m_pTextDraw' = [m_pTextDraw EXCEPT ![i] = NoThing]
        /\ m_bSlotState' = [m_bSlotState EXCEPT ![i] = FALSE]
        /\ UNCHANGED <<dwStyle, iTextureSlot, spoilt>>
    BY <1>3 DEF Hide
  <2>2. {d} \subseteq alive  BY <1>1, <1>3 DEF DrawsAsShown
  <2>3. TexturesOwned'
    <3>1. /\ "stray" \notin spoilt' => NoneLost(bTextDrawTextureSlotState', alive', iTextureSlot')
          /\ spoilt' = {} => OneEach(bTextDrawTextureSlotState', TextDrawTexture', alive', iTextureSlot')
      BY <1>1, <2>1, <2>2, FreeingKeeps, OwnedMeans
    <3>2. QED  BY <3>1 DEF TexturesOwned, NoneLost, OneEach, Owners, OwnersIn
  <2>4. TextDrawsTypeOK'
    <3>1. /\ bTextDrawTextureSlotState' \in [TextureSlots -> BOOLEAN]
          /\ TextDrawTexture' \in [TextureSlots -> Things \cup {NoThing}]
      BY <1>1, <2>1, <2>2, FreeingKeeps
    <3>2. QED  BY <1>1, <2>1, <3>1 DEF TextDrawsTypeOK
  <2>5. DrawsAsShown'
    <3>1. /\ m_pTextDraw \in [DrawIds -> Things \cup {NoThing}] /\ m_bSlotState \in [DrawIds -> BOOLEAN]
          /\ drawn \subseteq DrawIds
      BY <1>1 DEF TextDrawsTypeOK
    <3>2. \A j \in DrawIds : m_pTextDraw'[j] = IF j = i THEN NoThing ELSE m_pTextDraw[j]
      BY <2>1, <3>1
    <3>3. \A j \in DrawIds : m_bSlotState'[j] = IF j = i THEN FALSE ELSE m_bSlotState[j]
      BY <2>1, <3>1
    <3>4. \A j \in DrawIds \ {i} : m_pTextDraw[j] # d
      BY <1>1, <1>3 DEF DrawsAsShown
    <3>5. alive' = {m_pTextDraw'[j] : j \in DrawIds} \ {NoThing}
      <4>1. alive \ {d} = {m_pTextDraw[j] : j \in DrawIds \ {i}} \ {NoThing}
        BY <1>1, <3>4 DEF DrawsAsShown
      <4>2. {m_pTextDraw'[j] : j \in DrawIds} = {m_pTextDraw[j] : j \in DrawIds \ {i}} \cup {NoThing}
        BY <3>2
      <4>3. QED  BY <2>1, <4>1, <4>2
    <3>6. drawn' = {j \in DrawIds : m_bSlotState'[j]}
      BY <1>1, <2>1, <3>3 DEF DrawsAsShown
    <3>7. \A j \in DrawIds : m_bSlotState'[j] = (m_pTextDraw'[j] # NoThing)
      BY <1>1, <3>2, <3>3 DEF DrawsAsShown
    <3>8. \A j, k \in DrawIds : m_pTextDraw'[j] = m_pTextDraw'[k] => j = k \/ m_pTextDraw'[j] = NoThing
      BY <1>1, <3>2 DEF DrawsAsShown
    <3>9. QED  BY <3>5, <3>6, <3>7, <3>8 DEF DrawsAsShown
  <2>6. QED  BY <2>3, <2>4, <2>5 DEF TextDrawsInv
<1>4. QED  BY <1>2, <1>3

LEMMA EditKeeps ==
    ASSUME TextDrawsInv, NEW i \in DrawIds, Edit(i)
    PROVE  TextDrawsInv'
<1> DEFINE d == m_pTextDraw[i]
<1>1. TextDrawsTypeOK /\ DrawsAsShown /\ TexturesOwned  BY DEF TextDrawsInv
<1>2. /\ d # NoThing /\ iTextureSlot[d] # NoSlot
      /\ bTextDrawTextureSlotState' = Marks({d})
      /\ Loads(Pictures({d}), d, iTextureSlot[d])
      /\ spoilt' = spoilt \cup {"edited"}
      /\ UNCHANGED <<draws, drawn>>
  BY DEF Edit
<1>3. {d} \subseteq alive /\ d \in Things
  BY <1>1, <1>2 DEF DrawsAsShown, TextDrawsTypeOK
<1>4. /\ bTextDrawTextureSlotState' \in [TextureSlots -> BOOLEAN]
      /\ Pictures({d}) \in [TextureSlots -> Things \cup {NoThing}]
  BY <1>1, <1>2, <1>3, FreeingKeeps
<1>5. TextDrawTexture' \in [TextureSlots -> Things \cup {NoThing}]
  BY <1>2, <1>3, <1>4 DEF Loads
<1>6. TextDrawsTypeOK'  BY <1>1, <1>2, <1>4, <1>5 DEF TextDrawsTypeOK, draws, SpoiltKinds
<1>7. DrawsAsShown'  BY <1>1, <1>2 DEF DrawsAsShown, draws
<1>8. TexturesOwned'
  <2>1. ASSUME NEW t \in TextureSlots, "stray" \notin spoilt', bTextDrawTextureSlotState'[t]
        PROVE  Owners(t)' # {}
    <3>1. bTextDrawTextureSlotState[t]  BY <1>2, <2>1 DEF Marks
    <3>2. "stray" \notin spoilt  BY <1>2, <2>1
    <3>3. QED  BY <1>1, <1>2, <3>1, <3>2 DEF TexturesOwned, Owners, draws
  <2>2. spoilt' # {}  BY <1>2
  <2>3. QED  BY <2>1, <2>2 DEF TexturesOwned
<1>9. QED  BY <1>6, <1>7, <1>8 DEF TextDrawsInv
LEMMA SnapshotKeeps ==
    ASSUME TextDrawsInv, NEW i \in DrawIds, SnapshotProcess(i)
    PROVE  TextDrawsInv'
<1> DEFINE d == m_pTextDraw[i]
           others == alive \ {d}
<1>1. TextDrawsTypeOK /\ DrawsAsShown /\ TexturesOwned  BY DEF TextDrawsInv
<1>2. PICK t \in TextureSlots :
        /\ FreeSlot(bTextDrawTextureSlotState, t)
        /\ iTextureSlot' = [iTextureSlot EXCEPT ![d] = t]
        /\ bTextDrawTextureSlotState' = [bTextDrawTextureSlotState EXCEPT ![t] = TRUE]
        /\ TextDrawTexture' = [TextDrawTexture EXCEPT ![t] = d]
  BY DEF SnapshotProcess
<1>3. d # NoThing /\ iTextureSlot[d] = NoSlot
  BY DEF SnapshotProcess, Pending, Waiting
<1>4. d \in alive /\ d \in Things
  BY <1>1, <1>3 DEF DrawsAsShown, TextDrawsTypeOK
<1>5. UNCHANGED <<m_pTextDraw, m_bSlotState, dwStyle, alive, spoilt, drawn>>
  BY DEF SnapshotProcess
<1>6. t # NoSlot /\ ~bTextDrawTextureSlotState[t]
  BY <1>2, TextDrawsAssumption DEF FreeSlot, NoSlot, TextureSlots
<1>7. TextDrawsTypeOK'
  BY <1>1, <1>2, <1>4, <1>5 DEF TextDrawsTypeOK
<1>8. DrawsAsShown'  BY <1>1, <1>5 DEF DrawsAsShown
<1>9. \A u \in TextureSlots : OwnersIn(others, iTextureSlot, u) = OwnersIn(alive, iTextureSlot, u)
  BY <1>3, TextDrawsAssumption DEF OwnersIn, NoSlot, TextureSlots
<1>10. /\ NoneLost(bTextDrawTextureSlotState, others, iTextureSlot)
            => NoneLost(bTextDrawTextureSlotState', others \cup {d}, iTextureSlot')
       /\ OneEach(bTextDrawTextureSlotState, TextDrawTexture, others, iTextureSlot)
            => OneEach(bTextDrawTextureSlotState', TextDrawTexture', others \cup {d}, iTextureSlot')
  <2>1. /\ bTextDrawTextureSlotState \in [TextureSlots -> BOOLEAN]
        /\ TextDrawTexture \in [TextureSlots -> Things \cup {NoThing}]
        /\ others \in SUBSET Things /\ d \in Things \ others
        /\ iTextureSlot \in [Things -> TextureSlots \cup {NoSlot}]
        /\ t \in TextureSlots \cup {NoSlot}
    BY <1>1, <1>4 DEF TextDrawsTypeOK
  <2>2. bTextDrawTextureSlotState' = [u \in TextureSlots |-> bTextDrawTextureSlotState[u] \/ u = t]
    BY <1>2, <2>1
  <2>3. QED  BY <1>2, <1>6, <2>1, <2>2, TakingKeeps
<1>11. TexturesOwned'
  <2>1. others \cup {d} = alive'  BY <1>4, <1>5
  <2>2. /\ "stray" \notin spoilt' => NoneLost(bTextDrawTextureSlotState', alive', iTextureSlot')
        /\ spoilt' = {} => OneEach(bTextDrawTextureSlotState', TextDrawTexture', alive', iTextureSlot')
    <3>1. /\ "stray" \notin spoilt => NoneLost(bTextDrawTextureSlotState, others, iTextureSlot)
          /\ spoilt = {} => OneEach(bTextDrawTextureSlotState, TextDrawTexture, others, iTextureSlot)
      BY <1>1, <1>9, OwnedMeans DEF NoneLost, OneEach
    <3>2. QED  BY <1>5, <1>10, <2>1, <3>1
  <2>3. QED  BY <2>2 DEF TexturesOwned, NoneLost, OneEach, Owners, OwnersIn
<1>12. QED  BY <1>7, <1>8, <1>11 DEF TextDrawsInv

LEMMA StrayKeeps == TextDrawsInv /\ SnapshotStray => TextDrawsInv'
<1> SUFFICES ASSUME TextDrawsInv, SnapshotStray PROVE TextDrawsInv'  OBVIOUS
<1>1. TextDrawsTypeOK'
  BY DEF SnapshotStray, draws, TextDrawsInv, TextDrawsTypeOK, SpoiltKinds
<1>2. DrawsAsShown'  BY DEF SnapshotStray, draws, TextDrawsInv, DrawsAsShown
<1>3. TexturesOwned'  BY DEF SnapshotStray, TexturesOwned
<1>4. QED  BY <1>1, <1>2, <1>3 DEF TextDrawsInv

LEMMA ResetTextDrawKeeps == TextDrawsInv /\ ResetTextDrawPool => TextDrawsInv'
<1> SUFFICES ASSUME TextDrawsInv, ResetTextDrawPool PROVE TextDrawsInv'  OBVIOUS
<1>1. TextDrawsTypeOK /\ DrawsAsShown /\ TexturesOwned  BY DEF TextDrawsInv
<1> DEFINE all == {m_pTextDraw[i] : i \in DrawIds} \ {NoThing}
<1>2. all = alive  BY <1>1 DEF DrawsAsShown
<1>3. /\ bTextDrawTextureSlotState' = Marks(all) /\ TextDrawTexture' = Pictures(all)
      /\ alive' = alive \ all /\ drawn' = {}
      /\ m_pTextDraw' = [i \in DrawIds |-> NoThing] /\ m_bSlotState' = [i \in DrawIds |-> FALSE]
      /\ UNCHANGED <<dwStyle, iTextureSlot, spoilt>>
  BY DEF ResetTextDrawPool
<1>4. TextDrawsTypeOK'
  <2>1. /\ bTextDrawTextureSlotState' \in [TextureSlots -> BOOLEAN]
        /\ TextDrawTexture' \in [TextureSlots -> Things \cup {NoThing}]
    BY <1>1, <1>2, <1>3, FreeingKeeps
  <2>2. QED  BY <1>1, <1>3, <2>1 DEF TextDrawsTypeOK
<1>5. DrawsAsShown'  BY <1>2, <1>3 DEF DrawsAsShown
<1>6. TexturesOwned'
  <2>1. /\ "stray" \notin spoilt' => NoneLost(bTextDrawTextureSlotState', alive', iTextureSlot')
        /\ spoilt' = {} => OneEach(bTextDrawTextureSlotState', TextDrawTexture', alive', iTextureSlot')
    BY <1>1, <1>2, <1>3, FreeingKeeps, OwnedMeans
  <2>2. QED  BY <2>1 DEF TexturesOwned, NoneLost, OneEach, Owners, OwnersIn
<1>7. QED  BY <1>4, <1>5, <1>6 DEF TextDrawsInv

LEMMA TextDrawsKeep ==
    TextDrawsInv /\ (TextDrawsNext \/ ResetTextDrawPool \/ UNCHANGED textDrawVars) => TextDrawsInv'
<1>1. TextDrawsInv /\ UNCHANGED textDrawVars => TextDrawsInv'
  BY DEF TextDrawsInv, textDrawVars, draws, textures, TextDrawsTypeOK, DrawsAsShown, TexturesOwned, Owners
<1>2. QED
  BY <1>1, TextDrawShowKeeps, HideKeeps, EditKeeps, SnapshotKeeps, StrayKeeps, ResetTextDrawKeeps DEF TextDrawsNext

-----------------------------------------------------------------------------
(* Objects, actors, gang zones and labels *)

(* One pool shows the ids of a set. *)
ShowsIn(p, ids) ==
    /\ p \in Pool /\ ids \subseteq Ids
    /\ ids = {i \in Ids : p.on[i]}
    /\ \A i \in Ids : p.on[i] = (p.ptr[i] # Nobody)
    /\ p.world = {p.ptr[i] : i \in ids}
    /\ \A i, j \in ids : p.ptr[i] = p.ptr[j] => i = j

SlotsInv == SlotPoolsTypeOK /\ SlotsAsWanted

LEMMA SlotsMeans ==
    SlotsInv <=> /\ slots \in [Kinds -> Pool] /\ wanted \in [Kinds -> SUBSET Ids]
                 /\ \A k \in Kinds : ShowsIn(slots[k], wanted[k])
<1>1. slots \in [Kinds -> Pool] /\ wanted \in [Kinds -> SUBSET Ids]
        => \A k \in Kinds : slots[k] \in Pool /\ wanted[k] \subseteq Ids
  OBVIOUS
<1>2. QED  BY <1>1 DEF SlotsInv, SlotPoolsTypeOK, SlotsAsWanted, ShowsIn

LEMMA EmptyShows == ShowsIn(EmptySlots({}), {})
  BY DEF ShowsIn, EmptySlots, Pool

LEMMA DropShows ==
    ASSUME NEW p, NEW ids, ShowsIn(p, ids), NEW i \in Ids, p.ptr[i] # Nobody
    PROVE  ShowsIn(Dropped(p, i), ids \ {i}) /\ Dropped(p, i).ptr[i] = Nobody
<1> DEFINE q == Dropped(p, i)
<1>1. p.ptr \in [Ids -> Entities \cup {Nobody}] /\ p.on \in [Ids -> BOOLEAN] /\ p.world \subseteq Entities
  BY DEF ShowsIn, Pool
<1>2. /\ q.ptr = [p.ptr EXCEPT ![i] = Nobody] /\ q.on = [p.on EXCEPT ![i] = FALSE]
      /\ q.world = p.world \ {p.ptr[i]}
  BY DEF Dropped
<1>3. q \in Pool  BY <1>1 DEF Dropped, Pool
<1>4. i \in ids  BY DEF ShowsIn
<1>5. \A j \in Ids : /\ q.ptr[j] = IF j = i THEN Nobody ELSE p.ptr[j]
                     /\ q.on[j] = IF j = i THEN FALSE ELSE p.on[j]
  BY <1>1, <1>2
<1> HIDE DEF q
<1>6. \A j \in ids \ {i} : p.ptr[j] # p.ptr[i]  BY <1>4 DEF ShowsIn
<1>7. q.world = {p.ptr[j] : j \in ids \ {i}}  BY <1>2, <1>6 DEF ShowsIn
<1>8. ids \subseteq Ids  BY DEF ShowsIn
<1>9. q.world = {q.ptr[j] : j \in ids \ {i}}
  <2>1. \A j \in ids \ {i} : q.ptr[j] = p.ptr[j]  BY <1>5, <1>8
  <2>2. QED  BY <1>7, <2>1
<1>10. ids \ {i} = {j \in Ids : q.on[j]}  BY <1>5 DEF ShowsIn
<1>11. \A j \in Ids : q.on[j] = (q.ptr[j] # Nobody)  BY <1>5 DEF ShowsIn
<1>12. \A j, k \in ids \ {i} : q.ptr[j] = q.ptr[k] => j = k
  <2>1. \A j \in ids \ {i} : q.ptr[j] = p.ptr[j]  BY <1>5, <1>8
  <2>2. \A j, k \in ids : p.ptr[j] = p.ptr[k] => j = k  BY DEF ShowsIn
  <2>3. QED  BY <2>1, <2>2
<1>13. ShowsIn(q, ids \ {i})  BY <1>3, <1>8, <1>9, <1>10, <1>11, <1>12 DEF ShowsIn
<1>14. QED  BY <1>5, <1>13 DEF q

LEMMA FlagShows ==
    ASSUME NEW p, NEW ids, ShowsIn(p, ids), NEW i \in Ids, p.ptr[i] = Nobody
    PROVE  ShowsIn(p, ids \ {i}) /\ Flagged(p, i) = p
<1>1. ~p.on[i] /\ i \notin ids  BY DEF ShowsIn
<1>2. ids \ {i} = ids  BY <1>1
<1>3. p.on \in [Ids -> BOOLEAN]  BY DEF ShowsIn, Pool
<1>4. [p.on EXCEPT ![i] = FALSE] = p.on  BY <1>1, <1>3 DEF ShowsIn
<1>5. Flagged(p, i) = [p EXCEPT !.on = [p.on EXCEPT ![i] = FALSE]]  BY DEF Flagged
<1>6. [p EXCEPT !.on = p.on] = p  BY DEF ShowsIn, Pool
<1>7. QED  BY <1>2, <1>4, <1>5, <1>6

(* Whatever each pool's Delete tests, it takes the entity away.            *)
LEMMA DeletedShows ==
    ASSUME NEW k \in Kinds, NEW p, NEW ids, ShowsIn(p, ids), NEW i \in Ids
    PROVE  ShowsIn(Deleted(k, p, i), ids \ {i}) /\ Deleted(k, p, i).ptr[i] = Nobody
<1>1. Deleted(k, p, i) = IF p.ptr[i] # Nobody THEN Dropped(p, i) ELSE p
  <2>1. p.on[i] <=> p.ptr[i] # Nobody  BY DEF ShowsIn
  <2>2. p.ptr[i] = Nobody => Flagged(p, i) = p  BY FlagShows
  <2>3. ObjectDeleted(p, i) = IF p.ptr[i] # Nobody THEN Dropped(p, i) ELSE p
    BY <2>1 DEF ObjectDeleted
  <2>4. ZoneDeleted(p, i) = IF p.ptr[i] # Nobody THEN Dropped(p, i) ELSE p
    BY DEF ZoneDeleted
  <2>5. ActorDeleted(p, i) = IF p.ptr[i] # Nobody THEN Dropped(p, i) ELSE p
    BY <2>2 DEF ActorDeleted
  <2>6. LabelDeleted(p, i) = IF p.ptr[i] # Nobody THEN Dropped(p, i) ELSE p
    BY <2>2 DEF LabelDeleted
  <2>7. k \in {"object", "actor", "zone", "label"}  BY DEF Kinds
  <2>8. QED  BY <2>3, <2>4, <2>5, <2>6, <2>7 DEF Deleted
<1>2. QED  BY <1>1, DropShows, FlagShows

LEMMA PlaceShows ==
    ASSUME NEW p, NEW ids, ShowsIn(p, ids), NEW i \in Ids, p.ptr[i] = Nobody, NEW e \in Entities \ p.world
    PROVE  ShowsIn(Placed(p, i, e), ids \cup {i})
<1> DEFINE q == Placed(p, i, e)
<1>1. p.ptr \in [Ids -> Entities \cup {Nobody}] /\ p.on \in [Ids -> BOOLEAN] /\ p.world \subseteq Entities
  BY DEF ShowsIn, Pool
<1>2. /\ q.ptr = [p.ptr EXCEPT ![i] = e] /\ q.on = [p.on EXCEPT ![i] = TRUE]
      /\ q.world = p.world \cup {e}
  BY DEF Placed
<1>3. q \in Pool  BY <1>1 DEF Placed, Pool
<1>4. i \notin ids /\ ids \subseteq Ids  BY DEF ShowsIn
<1>5. \A j \in Ids : /\ q.ptr[j] = IF j = i THEN e ELSE p.ptr[j]
                     /\ q.on[j] = IF j = i THEN TRUE ELSE p.on[j]
  BY <1>1, <1>2
<1> HIDE DEF q
<1>6. e # Nobody  BY SlotPoolsAssumption
<1>7. \A j \in ids : p.ptr[j] # e  BY DEF ShowsIn
<1>8. q.world = {q.ptr[j] : j \in ids \cup {i}}
  <2>1. {q.ptr[j] : j \in ids \cup {i}} = {p.ptr[j] : j \in ids} \cup {e}  BY <1>4, <1>5
  <2>2. QED  BY <2>1, <1>2 DEF ShowsIn
<1>9. ids \cup {i} = {j \in Ids : q.on[j]}  BY <1>5 DEF ShowsIn
<1>10. ASSUME NEW j \in Ids PROVE q.on[j] = (q.ptr[j] # Nobody)
  <2>1. CASE j = i  BY <1>5, <1>6, <2>1
  <2>2. CASE j # i
    <3>1. q.on[j] = p.on[j] /\ q.ptr[j] = p.ptr[j]  BY <1>5, <2>2
    <3>2. p.on[j] = (p.ptr[j] # Nobody)  BY DEF ShowsIn
    <3>3. QED  BY <3>1, <3>2
  <2>3. QED  BY <2>1, <2>2
<1>11. \A j, k \in ids \cup {i} : q.ptr[j] = q.ptr[k] => j = k
  <2>1. \A j \in ids : q.ptr[j] = p.ptr[j]  BY <1>4, <1>5
  <2>2. q.ptr[i] = e  BY <1>5
  <2>3. \A j, k \in ids : p.ptr[j] = p.ptr[k] => j = k  BY DEF ShowsIn
  <2>4. QED  BY <1>7, <2>1, <2>2, <2>3
<1>12. ShowsIn(q, ids \cup {i})  BY <1>3, <1>4, <1>8, <1>9, <1>10, <1>11 DEF ShowsIn
<1>13. QED  BY <1>12 DEF q
LEMMA SlotsStart == SlotPoolsInit => SlotsInv
  BY EmptyShows, SlotsMeans DEF SlotPoolsInit, ShowsIn

LEMMA SlotsKeep ==
    SlotsInv /\ ((\E k \in Kinds : SlotPoolsNext(k)) \/ ResetSlotPools \/ UNCHANGED slotPoolVars) => SlotsInv'
<1> SUFFICES ASSUME SlotsInv, (\E k \in Kinds : SlotPoolsNext(k)) \/ ResetSlotPools \/ UNCHANGED slotPoolVars
             PROVE  SlotsInv'
  OBVIOUS
<1>1. /\ slots \in [Kinds -> Pool] /\ wanted \in [Kinds -> SUBSET Ids]
      /\ \A k \in Kinds : ShowsIn(slots[k], wanted[k])
  BY SlotsMeans
<1>2. SUFFICES /\ slots' \in [Kinds -> Pool] /\ wanted' \in [Kinds -> SUBSET Ids]
               /\ \A k \in Kinds : ShowsIn(slots'[k], wanted'[k])
  <2>1. \A k \in Kinds : ShowsIn(slots'[k], wanted'[k]) <=> ShowsIn(slots[k], wanted[k])'
    BY DEF ShowsIn
  <2>2. (SlotsInv)' <=> /\ slots' \in [Kinds -> Pool] /\ wanted' \in [Kinds -> SUBSET Ids]
                        /\ \A k \in Kinds : ShowsIn(slots'[k], wanted'[k])
    <3>1. slots' \in [Kinds -> Pool] /\ wanted' \in [Kinds -> SUBSET Ids]
            => \A k \in Kinds : slots'[k] \in Pool /\ wanted'[k] \subseteq Ids
      OBVIOUS
    <3>2. QED  BY <3>1 DEF SlotsInv, SlotPoolsTypeOK, SlotsAsWanted, ShowsIn
  <2>3. QED  BY <2>2
<1>3. ASSUME NEW k \in Kinds, NEW i \in Ids, Delete(k, i)
      PROVE  /\ slots' \in [Kinds -> Pool] /\ wanted' \in [Kinds -> SUBSET Ids]
             /\ \A j \in Kinds : ShowsIn(slots'[j], wanted'[j])
  <2>1. ShowsIn(Deleted(k, slots[k], i), wanted[k] \ {i})  BY <1>1, DeletedShows
  <2>2. Deleted(k, slots[k], i) \in Pool  BY <2>1 DEF ShowsIn
  <2>3. slots' = [slots EXCEPT ![k] = Deleted(k, slots[k], i)] /\ wanted' = [wanted EXCEPT ![k] = wanted[k] \ {i}]
    BY <1>3 DEF Delete
  <2>4. QED  BY <1>1, <2>1, <2>2, <2>3
<1>4. ASSUME NEW k \in Kinds, NEW i \in Ids, NEW e \in Entities, Create(k, i, e)
      PROVE  /\ slots' \in [Kinds -> Pool] /\ wanted' \in [Kinds -> SUBSET Ids]
             /\ \A j \in Kinds : ShowsIn(slots'[j], wanted'[j])
  <2> DEFINE before == Deleted(k, slots[k], i)
             after == Placed(before, i, e)
  <2>1. ShowsIn(before, wanted[k] \ {i}) /\ before.ptr[i] = Nobody  BY <1>1, DeletedShows
  <2>2. /\ e \in Entities \ before.world
        /\ slots' = [slots EXCEPT ![k] = after] /\ wanted' = [wanted EXCEPT ![k] = wanted[k] \cup {i}]
    BY <1>4 DEF Create
  <2> HIDE DEF before
  <2>3. ShowsIn(after, (wanted[k] \ {i}) \cup {i})  BY <2>1, <2>2, PlaceShows
  <2> HIDE DEF after
  <2>4. (wanted[k] \ {i}) \cup {i} = wanted[k] \cup {i}  OBVIOUS
  <2>5. ShowsIn(after, wanted[k] \cup {i}) /\ after \in Pool  BY <2>3, <2>4 DEF ShowsIn
  <2>6. QED  BY <1>1, <2>2, <2>5
<1>5. ASSUME ResetSlotPools
      PROVE  /\ slots' \in [Kinds -> Pool] /\ wanted' \in [Kinds -> SUBSET Ids]
             /\ \A j \in Kinds : ShowsIn(slots'[j], wanted'[j])
  <2>1. ASSUME NEW k \in Kinds PROVE Left(k, slots[k]) = {}
    <3>1. ShowsIn(slots[k], wanted[k])  BY <1>1
    <3>2. slots[k].world \subseteq {slots[k].ptr[i] : i \in Ids}  BY <3>1 DEF ShowsIn
    <3>3. slots[k].world = {slots[k].ptr[i] : i \in {j \in Ids : slots[k].on[j]}}  BY <3>1 DEF ShowsIn
    <3>4. k \in {"object", "actor", "zone", "label"}  BY DEF Kinds
    <3>5. CASE k \in {"actor", "zone"}  BY <3>2, <3>5 DEF Left
    <3>6. CASE k \in {"object", "label"}  BY <3>3, <3>6 DEF Left
    <3>7. QED  BY <3>4, <3>5, <3>6
  <2>2. \A k \in Kinds : slots'[k] = EmptySlots({}) /\ wanted'[k] = {}
    BY <1>5, <2>1 DEF ResetSlotPools
  <2>3. EmptySlots({}) \in Pool  BY EmptyShows DEF ShowsIn
  <2>4. slots' = [k \in Kinds |-> EmptySlots({})]
    BY <1>5, <2>1 DEF ResetSlotPools
  <2>5. QED  BY <1>5, <2>2, <2>3, <2>4, EmptyShows DEF ResetSlotPools
<1>6. ASSUME UNCHANGED slotPoolVars
      PROVE  /\ slots' \in [Kinds -> Pool] /\ wanted' \in [Kinds -> SUBSET Ids]
             /\ \A j \in Kinds : ShowsIn(slots'[j], wanted'[j])
  BY <1>1, <1>6 DEF slotPoolVars
<1>7. QED  BY <1>3, <1>4, <1>5, <1>6 DEF SlotPoolsNext

-----------------------------------------------------------------------------
(* All pools *)

PoolsInv == PickupsInv /\ TextDrawsInv /\ SlotsInv /\ part \in Parts

LEMMA PoolsStart == Init => PoolsInv
  BY PickupsStart, TextDrawsStart, SlotsStart DEF Init, PoolsInv

LEMMA PoolsStep == PoolsInv /\ [Next]_vars => PoolsInv'
<1> SUFFICES ASSUME PoolsInv, [Next]_vars PROVE PoolsInv'  OBVIOUS
<1>1. PickupsNext \/ ResetPickupPool \/ UNCHANGED pickupVars
  BY DEF Next, vars, ShutDownForGameRestart
<1>2. TextDrawsNext \/ ResetTextDrawPool \/ UNCHANGED textDrawVars
  BY DEF Next, vars, ShutDownForGameRestart
<1>3. (\E k \in Kinds : SlotPoolsNext(k)) \/ ResetSlotPools \/ UNCHANGED slotPoolVars
  BY DEF Next, vars, ShutDownForGameRestart
<1>4. part' = part  BY DEF Next, vars, ShutDownForGameRestart
<1>5. QED  BY <1>1, <1>2, <1>3, <1>4, PickupsKeep, TextDrawsKeep, SlotsKeep DEF PoolsInv

LEMMA PoolsAlways == Spec => []PoolsInv
  BY PoolsStart, PoolsStep, PTL DEF Spec

(* Type correctness, of every pool. *)
THEOREM PoolsTypeCorrect == Spec => []TypeOK
<1>1. PoolsInv => TypeOK  BY DEF PoolsInv, PickupsInv, TextDrawsInv, SlotsInv, TypeOK
<1>2. QED  BY <1>1, PoolsAlways, PTL

(* Every pool shows what the server has put there, whatever was created    *)
(* again, turned away, reused or restarted on the way.                     *)
THEOREM EverythingShown == Spec => []PoolsAsShown
<1>1. PoolsInv => PoolsAsShown
  BY DEF PoolsInv, PickupsInv, TextDrawsInv, SlotsInv, PoolsAsShown
<1>2. QED  BY <1>1, PoolsAlways, PTL

(* No texture slot is lost, and none has two owners until a sprite is      *)
(* edited or the slots run out.                                            *)
THEOREM SlotsOwned == Spec => []TexturesOwned
<1>1. PoolsInv => TexturesOwned  BY DEF PoolsInv, TextDrawsInv
<1>2. QED  BY <1>1, PoolsAlways, PTL

(* The server is told of the pickup the player has walked into, and of no  *)
(* other.                                                                  *)
THEOREM ToldOfTheRightOne == Spec => PickupsTold
<1>1. PoolsInv /\ [Next]_vars => [ToldStep]_pickupVars
  <2> SUFFICES ASSUME PoolsInv, [Next]_vars, pickupVars' # pickupVars PROVE ToldStep
    OBVIOUS
  <2>1. PickupsNext \/ ResetPickupPool
    BY DEF Next, vars, ShutDownForGameRestart
  <2>2. QED  BY <2>1, TellsRight DEF PoolsInv
<1>2. QED  BY <1>1, PoolsAlways, PTL DEF Spec, PickupsTold, ToldStep

-----------------------------------------------------------------------------
(* The keyboard and the dialogs                                            *)

(* An open keyboard has a field, and the hidden flag is that field's as    *)
(* long as the handler is set: what keeps passwords out of the history.    *)
KeyboardInv ==
    /\ KeyboardTypeOK /\ TextToItsField
    /\ m_bEnable => m_pHandler # NoField
    /\ m_pHandler # NoField => m_bInputFlag = (m_pHandler \in Secret)

InputInv == KeyboardInv /\ ControlTypeOK /\ NotStuck /\ inputPart \in {"keyboard", "control"}

-----------------------------------------------------------------------------

(* Marking the strings late keeps the queue, and marks them all. *)
LEMMA AllLate ==
    ASSUME NEW strings \in Seq(Strings)
    PROVE  /\ Late(strings) \in Seq(Strings) /\ Len(Late(strings)) = Len(strings)
           /\ \A i \in DOMAIN Late(strings) : Late(strings)[i].late
<1>1. Len(strings) \in Nat /\ DOMAIN strings = 1 .. Len(strings)  OBVIOUS
<1>2. \A i \in DOMAIN strings : strings[i] \in Strings  OBVIOUS
<1>3. \A i \in DOMAIN strings : [strings[i] EXCEPT !.late = TRUE] \in Strings
  BY <1>2 DEF Strings
<1>4. Late(strings) \in [1 .. Len(strings) -> Strings]  BY <1>1, <1>3 DEF Late
<1>5. Late(strings) \in Seq(Strings)  BY <1>1, <1>4, SeqDef
<1>6. Len(Late(strings)) = Len(strings)  BY <1>1, <1>4, <1>5
<1>7. \A i \in DOMAIN Late(strings) : Late(strings)[i].late
  BY <1>2 DEF Late, Strings
<1>8. QED  BY <1>5, <1>6, <1>7

(* The history takes the text in front and drops what is over its bound. *)
LEMMA HistoryGrows ==
    ASSUME KeyboardInv, NEW text \in Fields \ Secret
    PROVE  /\ WithString(text) \in Seq(Fields)
           /\ Len(WithString(text)) < HistorySize
           /\ Len(m_Buffer) <= Len(WithString(text))
           /\ \A i \in DOMAIN WithString(text) : WithString(text)[i] \notin Secret
<1> USE FieldsAssumption
<1> DEFINE longer == <<text>> \o m_Buffer
<1>1. /\ m_Buffer \in Seq(Fields) /\ Len(m_Buffer) \in Nat /\ Len(m_Buffer) < HistorySize
      /\ \A i \in 1 .. Len(m_Buffer) : m_Buffer[i] \notin Secret
  BY DEF KeyboardInv, KeyboardTypeOK, TextToItsField
<1>2. /\ longer \in Seq(Fields) /\ Len(longer) = Len(m_Buffer) + 1
      /\ \A i \in 1 .. Len(longer) : longer[i] = IF i = 1 THEN text ELSE m_Buffer[i - 1]
  BY <1>1
<1>3. \A i \in 1 .. Len(longer) : longer[i] \notin Secret
  <2> SUFFICES ASSUME NEW i \in 1 .. Len(longer) PROVE longer[i] \notin Secret  OBVIOUS
  <2>1. i = 1 \/ i - 1 \in 1 .. Len(m_Buffer)  BY <1>1, <1>2
  <2>2. QED  BY <1>1, <1>2, <2>1
<1> HIDE DEF longer
<1>4. CASE Len(longer) < HistorySize
  <2>1. WithString(text) = longer  BY <1>4 DEF WithString, longer
  <2>2. QED  BY <1>1, <1>2, <1>3, <1>4, <2>1
<1>5. CASE ~(Len(longer) < HistorySize)
  <2> DEFINE shorter == SubSeq(longer, 1, HistorySize - 1)
  <2>1. WithString(text) = shorter  BY <1>5 DEF WithString, longer
  <2>2. HistorySize - 1 \in 1 .. Len(longer) /\ HistorySize - 1 = Len(m_Buffer)
    BY <1>1, <1>2, <1>5
  <2>3. /\ shorter \in Seq(Fields) /\ Len(shorter) = HistorySize - 1
        /\ \A i \in 1 .. Len(shorter) : shorter[i] = longer[i]
    BY <1>2, <2>2
  <2>4. \A i \in 1 .. Len(shorter) : shorter[i] \notin Secret  BY <1>3, <2>2, <2>3
  <2> HIDE DEF shorter
  <2>5. QED  BY <2>1, <2>2, <2>3, <2>4
<1>6. QED  BY <1>4, <1>5

-----------------------------------------------------------------------------
(* The keyboard, action by action *)

LEMMA KeyboardStart == KeyboardInit => KeyboardInv
<1> SUFFICES ASSUME KeyboardInit PROVE KeyboardInv  OBVIOUS
<1> USE FieldsAssumption
<1>1. KeyboardTypeOK
  <2>1. m_Buffer \in Seq(Fields) /\ Len(m_Buffer) = 0  BY DEF KeyboardInit
  <2>2. bufferedStrings \in Seq(Strings) /\ Len(bufferedStrings) = 0  BY DEF KeyboardInit
  <2>3. received \in [of : MaybeField, to : MaybeField, late : BOOLEAN]
    BY DEF KeyboardInit, MaybeField
  <2>4. m_iLayout \in Layouts  BY DEF KeyboardInit, Layouts
  <2>5. {m_pHandler, m_sInput, asked, displayed} \subseteq MaybeField
    BY DEF KeyboardInit, MaybeField
  <2>6. m_iCounter \in 0 .. Len(m_Buffer)  BY <2>1 DEF KeyboardInit
  <2>7. Len(m_Buffer) < HistorySize /\ Len(bufferedStrings) <= MaxStrings
    BY <2>1, <2>2
  <2>8. /\ m_bEnable \in BOOLEAN /\ m_bInputFlag \in BOOLEAN /\ m_bNewKeyboard \in BOOLEAN
        /\ m_iCase \in {"lower", "upper"}
    BY DEF KeyboardInit
  <2> HIDE FieldsAssumption
  <2>9. QED
    BY <2>1, <2>2, <2>3, <2>4, <2>5, <2>6, <2>7, <2>8 DEF KeyboardTypeOK
<1>2. TextToItsField  BY DEF KeyboardInit, TextToItsField
<1>3. QED  BY <1>1, <1>2 DEF KeyboardInit, KeyboardInv

LEMMA CloseKeeps == ASSUME KeyboardInv, Close, UNCHANGED received PROVE KeyboardInv'
<1> USE FieldsAssumption
<1>1. /\ bufferedStrings' \in Seq(Strings) /\ Len(bufferedStrings') = Len(bufferedStrings)
      /\ \A i \in DOMAIN bufferedStrings' : bufferedStrings'[i].late
  BY AllLate DEF KeyboardInv, KeyboardTypeOK, Close
<1>2. KeyboardTypeOK'
  BY <1>1 DEF KeyboardInv, KeyboardTypeOK, Close, Reset, MaybeField
<1>3. TextToItsField'  BY <1>1 DEF KeyboardInv, TextToItsField, Close, Reset
<1>4. QED  BY <1>2, <1>3 DEF KeyboardInv, Close, Reset

(* Only a closed keyboard is opened, so what still waits is late already. *)
LEMMA OpenKeeps == ASSUME KeyboardInv, NEW f \in Fields, ~m_bEnable, Open(f) PROVE KeyboardInv'
<1> USE FieldsAssumption
<1>1. KeyboardTypeOK'
  BY DEF KeyboardInv, KeyboardTypeOK, Open, Reset, MaybeField
<1>2. TextToItsField'  BY DEF KeyboardInv, TextToItsField, Open, Reset
<1>3. QED  BY <1>1, <1>2 DEF KeyboardInv, Open, Reset

(* What changes the line, the layout or the history's page keeps the rest. *)
LEMMA LineKeeps ==
    ASSUME KeyboardInv,
           m_sInput' \in {NoField, m_pHandler}, m_iLayout' \in Layouts, m_iCase' \in {"lower", "upper"},
           m_iCounter' \in 0 .. Len(m_Buffer),
           UNCHANGED <<m_bEnable, m_pHandler, m_bInputFlag, m_Buffer, javaVars, bufferedStrings, received>>
    PROVE  KeyboardInv'
<1>1. KeyboardTypeOK'
  BY DEF KeyboardInv, KeyboardTypeOK, javaVars, MaybeField
<1>2. TextToItsField'  BY DEF KeyboardInv, TextToItsField
<1>3. QED  BY <1>1, <1>2 DEF KeyboardInv

LEMMA AddKeeps == ASSUME KeyboardInv, AddCharToInput PROVE KeyboardInv'
<1>1. m_sInput' \in {NoField, m_pHandler}
  BY DEF AddCharToInput, KeyboardInv, TextToItsField
<1>2. QED  BY <1>1, LineKeeps DEF AddCharToInput, KeyboardInv, KeyboardTypeOK

LEMMA SendKeeps == ASSUME KeyboardInv, m_bEnable, Send PROVE KeyboardInv'
<1> USE FieldsAssumption
<1>1. /\ bufferedStrings' \in Seq(Strings) /\ Len(bufferedStrings') = Len(bufferedStrings)
      /\ \A i \in DOMAIN bufferedStrings' : bufferedStrings'[i].late
  BY AllLate DEF KeyboardInv, KeyboardTypeOK, Send
<1>2. received' = received \/ (received' = [of |-> m_pHandler, to |-> m_pHandler, late |-> FALSE])
  BY DEF Send, Handled, KeyboardInv, TextToItsField
<1>3. /\ m_Buffer' \in Seq(Fields) /\ Len(m_Buffer') < HistorySize
      /\ Len(m_Buffer) <= Len(m_Buffer')
      /\ \A i \in DOMAIN m_Buffer' : m_Buffer'[i] \notin Secret
  <2>1. CASE m_sInput = NoField \/ m_bInputFlag
    BY <2>1 DEF Send, KeyboardInv, KeyboardTypeOK, TextToItsField
  <2>2. CASE ~(m_sInput = NoField \/ m_bInputFlag)
    <3>1. m_sInput \in Fields \ Secret
      BY <2>2 DEF KeyboardInv, KeyboardTypeOK, TextToItsField, MaybeField
    <3>2. m_Buffer' = WithString(m_sInput)  BY <2>2 DEF Send
    <3>3. QED  BY <3>1, <3>2, HistoryGrows
  <2>3. QED  BY <2>1, <2>2
<1>4. m_iCounter' \in 0 .. Len(m_Buffer')
  <2>1. Len(m_Buffer) \in Nat /\ Len(m_Buffer') \in Nat
    BY <1>3 DEF KeyboardInv, KeyboardTypeOK
  <2>2. QED  BY <1>3, <2>1 DEF Send, lineVars, KeyboardInv, KeyboardTypeOK
<1>5. received' \in [of : MaybeField, to : MaybeField, late : BOOLEAN]
  <2>1. received \in [of : MaybeField, to : MaybeField, late : BOOLEAN] /\ m_pHandler \in MaybeField
    BY DEF KeyboardInv, KeyboardTypeOK
  <2>2. CASE received' = received  BY <2>1, <2>2
  <2>3. CASE received' = [of |-> m_pHandler, to |-> m_pHandler, late |-> FALSE]
    BY <2>1, <2>3
  <2>4. QED  BY <1>2, <2>2, <2>3
<1>6. KeyboardTypeOK'
  BY <1>1, <1>3, <1>4, <1>5 DEF KeyboardInv, KeyboardTypeOK, Send, lineVars, javaVars
<1>7. TextToItsField'
  <2>1. received'.of = received'.to \/ received'.late  BY <1>2 DEF KeyboardInv, TextToItsField
  <2>2. m_sInput' \in {NoField, m_pHandler'}
    BY DEF KeyboardInv, TextToItsField, Send, lineVars
  <2>3. QED  BY <1>1, <1>3, <2>1, <2>2 DEF TextToItsField
<1>8. QED  BY <1>6, <1>7 DEF KeyboardInv, Send, lineVars

LEMMA TapKeyKeeps == ASSUME KeyboardInv, TapKey PROVE KeyboardInv'
<1>1. PICK kind : HandleInput(kind)  BY DEF TapKey
<1>2. CASE AddCharToInput  BY <1>2, AddKeeps
<1>3. CASE DeleteCharFromInput
  BY <1>3, LineKeeps DEF DeleteCharFromInput, KeyboardInv, KeyboardTypeOK, TextToItsField
<1>4. CASE Switch
  <2>1. m_iLayout' \in Layouts
    BY <1>4 DEF Switch, NextLayout, Layouts, KeyboardInv, KeyboardTypeOK
  <2>2. QED
    BY <1>4, <2>1, LineKeeps DEF Switch, KeyboardInv, KeyboardTypeOK, TextToItsField
<1>5. CASE Shift
  BY <1>5, LineKeeps DEF Shift, KeyboardInv, KeyboardTypeOK, TextToItsField
<1>6. CASE Send  BY <1>6, SendKeeps DEF TapKey
<1>7. QED  BY <1>1, <1>2, <1>3, <1>4, <1>5, <1>6 DEF HandleInput

LEMMA PageKeeps == ASSUME KeyboardInv, PageUp \/ PageDown PROVE KeyboardInv'
<1>1. Len(m_Buffer) \in Nat /\ m_iCounter \in 0 .. Len(m_Buffer)
  BY DEF KeyboardInv, KeyboardTypeOK
<1>2. PICK counter \in 0 .. Len(m_Buffer) : Recall(counter)
  BY <1>1 DEF PageUp, PageDown
<1>3. QED  BY <1>2, LineKeeps DEF Recall, KeyboardInv, KeyboardTypeOK

(* What arrives is late unless its own keyboard is open, with its handler. *)
LEMMA ArrivalKeeps == ASSUME KeyboardInv, OnNewKeyboardInput PROVE KeyboardInv'
<1> DEFINE string == [of |-> displayed, late |-> ~(m_bEnable /\ m_pHandler = displayed)]
<1>1. string \in Strings
  BY DEF Strings, OnNewKeyboardInput, KeyboardInv, KeyboardTypeOK, MaybeField
<1>2. string.late \/ (m_bEnable /\ string.of = m_pHandler)  OBVIOUS
<1>3. bufferedStrings' = Append(bufferedStrings, string)  BY DEF OnNewKeyboardInput
<1> HIDE DEF string
<1>4. /\ bufferedStrings' \in Seq(Strings) /\ Len(bufferedStrings') = Len(bufferedStrings) + 1
      /\ \A i \in 1 .. Len(bufferedStrings') :
            bufferedStrings'[i] = IF i = Len(bufferedStrings) + 1 THEN string ELSE bufferedStrings[i]
      /\ \A i \in 1 .. Len(bufferedStrings) :
            bufferedStrings[i].late \/ (m_bEnable /\ bufferedStrings[i].of = m_pHandler)
      /\ DOMAIN bufferedStrings' = 1 .. Len(bufferedStrings') /\ Len(bufferedStrings) \in Nat
  BY <1>1, <1>3 DEF KeyboardInv, KeyboardTypeOK, TextToItsField
<1>5. \A i \in DOMAIN bufferedStrings' :
         bufferedStrings'[i].late \/ (m_bEnable /\ bufferedStrings'[i].of = m_pHandler)
  <2> SUFFICES ASSUME NEW i \in 1 .. Len(bufferedStrings')
               PROVE  bufferedStrings'[i].late \/ (m_bEnable /\ bufferedStrings'[i].of = m_pHandler)
    BY <1>4
  <2>1. i = Len(bufferedStrings) + 1 \/ i \in 1 .. Len(bufferedStrings)  BY <1>4
  <2>2. QED  BY <1>2, <1>4, <2>1
<1>6. Len(bufferedStrings') <= MaxStrings
  BY <1>4, FieldsAssumption DEF OnNewKeyboardInput, KeyboardInv, KeyboardTypeOK
<1>7. KeyboardTypeOK'
  BY <1>4, <1>6 DEF KeyboardInv, KeyboardTypeOK, OnNewKeyboardInput, lineVars, javaVars
<1>8. TextToItsField'
  BY <1>5 DEF KeyboardInv, TextToItsField, OnNewKeyboardInput, lineVars
<1>9. QED  BY <1>7, <1>8 DEF KeyboardInv, OnNewKeyboardInput

LEMMA ProcessKeeps == ASSUME KeyboardInv, ProcessInputCommands PROVE KeyboardInv'
<1> USE FieldsAssumption
<1> DEFINE string == Head(bufferedStrings)
<1>1. /\ string \in Strings /\ string = bufferedStrings[1] /\ 1 \in DOMAIN bufferedStrings
      /\ Tail(bufferedStrings) \in Seq(Strings)
      /\ Len(Tail(bufferedStrings)) = Len(bufferedStrings) - 1 /\ Len(bufferedStrings) \in Nat
  BY DEF ProcessInputCommands, KeyboardInv, KeyboardTypeOK
<1>2. string.late \/ string.of = m_pHandler
  BY <1>1 DEF KeyboardInv, TextToItsField
<1>3. received' = received \/ (received' = [of |-> string.of, to |-> m_pHandler, late |-> string.late])
  BY DEF ProcessInputCommands, Handled
<1> HIDE DEF string
<1>4. /\ bufferedStrings' \in Seq(Strings) /\ Len(bufferedStrings') = Len(bufferedStrings) - 1
      /\ \A i \in DOMAIN bufferedStrings' : bufferedStrings'[i].late
  BY <1>1, AllLate DEF ProcessInputCommands
<1>5. received' \in [of : MaybeField, to : MaybeField, late : BOOLEAN]
  BY <1>1, <1>3 DEF KeyboardInv, KeyboardTypeOK, Strings, MaybeField
<1>6. received'.of = received'.to \/ received'.late
  BY <1>2, <1>3 DEF KeyboardInv, TextToItsField
<1>7. Len(bufferedStrings') <= MaxStrings
  BY <1>1, <1>4 DEF KeyboardInv, KeyboardTypeOK
<1>8. KeyboardTypeOK'
  BY <1>4, <1>5, <1>7 DEF KeyboardInv, KeyboardTypeOK, ProcessInputCommands, Reset, MaybeField
<1>9. TextToItsField'
  BY <1>4, <1>6 DEF KeyboardInv, TextToItsField, ProcessInputCommands, Reset
<1>10. QED  BY <1>8, <1>9 DEF KeyboardInv, ProcessInputCommands, Reset

LEMMA ActivityKeeps ==
    ASSUME KeyboardInv, setNativeKeyboardSettings \/ ShowInputLayout
    PROVE  KeyboardInv'
<1>1. KeyboardTypeOK'
  BY DEF KeyboardInv, KeyboardTypeOK, setNativeKeyboardSettings, ShowInputLayout, lineVars
<1>2. TextToItsField'
  BY DEF KeyboardInv, TextToItsField, setNativeKeyboardSettings, ShowInputLayout, lineVars
<1>3. QED  BY <1>1, <1>2 DEF KeyboardInv, setNativeKeyboardSettings, ShowInputLayout

LEMMA KeyboardKeeps == ASSUME KeyboardInv, KeyboardNext PROVE KeyboardInv'
<1>1. CASE TapChat  BY <1>1, OpenKeeps, FieldsAssumption DEF TapChat
<1>2. ASSUME NEW f \in Fields, PressInput(f) PROVE KeyboardInv'
  BY <1>2, OpenKeeps DEF PressInput
<1>3. CASE TapAbove  BY <1>3, CloseKeeps DEF TapAbove
<1>4. CASE onEventBackPressed  BY <1>4, CloseKeeps DEF onEventBackPressed
<1>5. CASE StartUserPause  BY <1>5, CloseKeeps DEF StartUserPause
<1>6. CASE TapKey  BY <1>6, TapKeyKeeps
<1>7. CASE Paste  BY <1>7, AddKeeps DEF Paste
<1>8. CASE PageUp \/ PageDown  BY <1>8, PageKeeps
<1>9. CASE setNativeKeyboardSettings \/ ShowInputLayout  BY <1>9, ActivityKeeps
<1>10. CASE OnNewKeyboardInput  BY <1>10, ArrivalKeeps
<1>11. CASE ProcessInputCommands  BY <1>11, ProcessKeeps
<1>12. QED
  BY <1>1, <1>2, <1>3, <1>4, <1>5, <1>6, <1>7, <1>8, <1>9, <1>10, <1>11 DEF KeyboardNext

-----------------------------------------------------------------------------
(* The player's control *)

(* A full release answers for everything. *)
LEMMA ReleaseFrees ==
    ASSUME Release
    PROVE  NotStuck' /\ frozenBy' = "none" /\ lockedBy' = "none" /\ cut' = FALSE
BY DEF Release, NotStuck

LEMMA DialogShowKeeps ==
    ASSUME ControlTypeOK, NotStuck, NEW bShow \in BOOLEAN, ShowDialog(bShow)
    PROVE  ControlTypeOK' /\ NotStuck'
<1>1. ControlTypeOK'
  BY DEF ShowDialog, Freeze, Release, ControlTypeOK, Holders
<1>2. NotStuck'
  <2>1. CASE m_bSelectState  BY <2>1 DEF ShowDialog, NotStuck
  <2>2. CASE ~m_bSelectState /\ bShow  BY <2>2 DEF ShowDialog, Freeze, NotStuck
  <2>3. CASE ~m_bSelectState /\ ~bShow  BY <2>3, ReleaseFrees DEF ShowDialog
  <2>4. QED  BY <2>1, <2>2, <2>3
<1>3. QED  BY <1>1, <1>2

LEMMA ControlKeeps ==
    ASSUME ControlTypeOK, NotStuck, ControlNext
    PROVE  ControlTypeOK' /\ NotStuck'
<1>1. CASE DialogBox
  <2>1. CASE ShowDialog(TRUE)  BY <2>1, DialogShowKeeps
  <2>2. CASE ~ShowDialog(TRUE)
    BY <1>1, <2>2 DEF DialogBox, Freeze, ControlTypeOK, NotStuck, Holders
  <2>3. QED  BY <2>1, <2>2
<1>2. CASE PressButton  BY <1>2, DialogShowKeeps DEF PressButton
<1>3. CASE sendDialogResponse
  BY <1>3, ReleaseFrees DEF sendDialogResponse, ControlTypeOK
<1>4. ASSUME NEW bState \in BOOLEAN, SetSelectState(bState) PROVE ControlTypeOK' /\ NotStuck'
  <2>1. CASE bState
    BY <1>4, <2>1 DEF SetSelectState, Freeze, ControlTypeOK, NotStuck, Holders
  <2>2. CASE ~bState  BY <1>4, <2>2, ReleaseFrees DEF SetSelectState, ControlTypeOK
  <2>3. QED  BY <2>1, <2>2
<1>5. CASE ScrTogglePlayerControllable
  <2>1. CASE Freeze("server")
    BY <1>5, <2>1 DEF ScrTogglePlayerControllable, Freeze, ControlTypeOK, NotStuck, Holders
  <2>2. CASE Release  BY <1>5, <2>2, ReleaseFrees DEF ScrTogglePlayerControllable, ControlTypeOK
  <2>3. QED  BY <1>5, <2>1, <2>2 DEF ScrTogglePlayerControllable
<1>6. CASE Toggle
  <2>1. ControlTypeOK'  BY <1>6 DEF Toggle, ControlTypeOK
  <2>2. NotStuck'  BY <1>6 DEF Toggle, ControlTypeOK, NotStuck
  <2>3. QED  BY <2>1, <2>2
<1>7. CASE Died \/ Spawn  BY <1>7, ReleaseFrees DEF Died, Spawn, ControlTypeOK
<1>8. CASE HandleClassSelection
  BY <1>8 DEF HandleClassSelection, Freeze, ControlTypeOK, NotStuck, Holders
<1>9. CASE LeaveTextDrawPool
  BY <1>9 DEF LeaveTextDrawPool, ControlTypeOK, NotStuck
<1>10. QED
  BY <1>1, <1>2, <1>3, <1>4, <1>5, <1>6, <1>7, <1>8, <1>9 DEF ControlNext

-----------------------------------------------------------------------------

LEMMA InputAlways == InputSpec => []InputInv
<1>1. InputInit => InputInv
  BY KeyboardStart DEF InputInit, InputInv, ControlInit, ControlTypeOK, NotStuck
<1>2. InputInv /\ [InputNext]_inputVars => InputInv'
  <2> SUFFICES ASSUME InputInv, [InputNext]_inputVars PROVE InputInv'  OBVIOUS
  <2>1. CASE KeyboardNext /\ UNCHANGED <<controlVars, inputPart>>
    BY <2>1, KeyboardKeeps DEF InputInv, controlVars, ControlTypeOK, NotStuck
  <2>2. CASE ControlNext /\ UNCHANGED <<keyboardVars, inputPart>>
    <3>1. KeyboardInv'
      BY <2>2 DEF InputInv, keyboardVars, KeyboardInv, KeyboardTypeOK, TextToItsField
    <3>2. QED  BY <2>2, <3>1, ControlKeeps DEF InputInv
  <2>3. CASE UNCHANGED inputVars
    <3>1. KeyboardInv'
      BY <2>3 DEF InputInv, inputVars, keyboardVars, KeyboardInv, KeyboardTypeOK, TextToItsField
    <3>2. QED  BY <2>3, <3>1 DEF InputInv, inputVars, controlVars, ControlTypeOK, NotStuck
  <2>4. QED  BY <2>1, <2>2, <2>3 DEF InputNext
<1>3. QED  BY <1>1, <1>2, PTL DEF InputSpec

(* The variables of the keyboard and of the control keep their types, and  *)
(* the page of the history stays inside it, at any size.                   *)
THEOREM InputTypeCorrect == InputSpec => []InputTypeOK
<1>1. InputInv => InputTypeOK  BY DEF InputInv, KeyboardInv, InputTypeOK
<1>2. QED  BY <1>1, InputAlways, PTL

(* No order of taps, keys, pauses, switches of the keyboard and texts from *)
(* the activity takes a text to another field, unless the keyboard it was  *)
(* typed on had been closed, nor a password into the history.              *)
THEOREM TextsArrive == InputSpec => []TextToItsField
<1>1. InputInv => TextToItsField  BY DEF InputInv, KeyboardInv
<1>2. QED  BY <1>1, InputAlways, PTL

(* No order of dialogs, selections, RPCs and deaths leaves the player      *)
(* frozen with nothing to end it, but for a restart during a selection.    *)
THEOREM PlayerFreed == InputSpec => []NotStuck
<1>1. InputInv => NotStuck  BY DEF InputInv
<1>2. QED  BY <1>1, InputAlways, PTL

-----------------------------------------------------------------------------
(* The settings                                                            *)

Setting == Values \cup {Default}

SettingsTypeOK ==
    /\ running \in BOOLEAN /\ cutOff \in BOOLEAN
    /\ m_Settings \in [Keys -> Setting] /\ DOMAIN own = Mirrored
    /\ chosen \in [Keys -> Setting] /\ kept \in [Keys -> Setting]
    /\ saving \in [step : {"none", "emptied", "removed"},
                   category : {"none", "first", "second"}, defaults : BOOLEAN]

(* A setting is as it was meant to be, or lost in a save that was cut off. *)
Holds(settings, choices, cut_off) ==
    \A k \in Keys : settings[k] = choices[k] \/ (cut_off /\ settings[k] = Default)

(* Only a program that runs saves; the file is emptied, then removed.      *)
SavesInOrder ==
    /\ saving.step = "none" => saving = NotSaving
    /\ saving.step # "none" => running
    /\ saving.step = "emptied" => file = << >>
    /\ saving.step = "removed" => file = Missing

(* Between saves the file holds what was to be kept; while the program     *)
(* runs its memory holds what was chosen, in a save as well.               *)
SettingsInv ==
    /\ SettingsTypeOK /\ SavesInOrder /\ InForce /\ CanStart
    /\ saving.step = "none" /\ file # Missing => Holds(LoadSettings(file), kept, cutOff)
    /\ running => Holds(m_Settings, chosen, cutOff)

LEMMA CategoryOfKeys ==
    /\ Keys = {"name", "font", "outfit", "hudColor", "hudPosition", "snow"}
    /\ Mirrored \subseteq Keys /\ Changeable \subseteq Keys
  BY DEF Keys, Category, Mirrored, Changeable

(* What is read of a file whose writing was cut off after some entries.    *)
PartOf(m, category, upTo) ==
    Restrict(Table(m, category), DOMAIN Table(m, category) \cap upTo)

LEMMA ReadBack ==
    ASSUME NEW m \in [Keys -> Setting], NEW category, NEW upTo
    PROVE  /\ \A k \in Keys : LoadSettings(PartOf(m, category, upTo))[k] =
                 IF k \in upTo /\ Category[k] \notin {category, "never"} THEN m[k] ELSE Default
           /\ \E keys \in SUBSET Keys : PartOf(m, category, upTo) \in [keys -> Setting]
           /\ LoadSettings(PartOf(m, category, upTo)) \in [Keys -> Setting]
<1> DEFINE table == Table(m, category)
           keys == DOMAIN table \cap upTo
           part_of == Restrict(table, keys)
<1>1. /\ DOMAIN table = {k \in Keys : /\ Category[k] \notin {category, "never"}
                                      /\ k = "hudColor" => m[k] # Default}
      /\ \A k \in DOMAIN table : table[k] = m[k]
  BY DEF Table, Restrict
<1>2. DOMAIN part_of = keys /\ \A k \in keys : part_of[k] = m[k]
  BY <1>1 DEF Restrict
<1>3. part_of = [k \in keys |-> table[k]]  BY DEF Restrict
<1>4. keys \in SUBSET Keys /\ part_of \in [keys -> Setting]
  <2>1. keys \in SUBSET Keys  BY <1>1
  <2>2. \A k \in keys : table[k] \in Setting  BY <1>1, <2>1
  <2>3. QED  BY <1>3, <2>1, <2>2
<1>5. Readable(part_of) = {k \in keys : m[k] # Tagged}
  BY <1>2 DEF Readable
<1>6. \A k \in Keys : LoadSettings(part_of)[k] = IF k \in Readable(part_of) THEN part_of[k] ELSE Default
  BY DEF LoadSettings
<1>7. ASSUME NEW k \in Keys
      PROVE  LoadSettings(part_of)[k] =
                IF k \in upTo /\ Category[k] \notin {category, "never"} THEN m[k] ELSE Default
  <2>1. m[k] = Tagged => m[k] = Default
    <3>1. m[k] \in Values \cup {Default}  BY DEF Setting
    <3>2. Tagged \notin Values  BY SettingsAssumption
    <3>3. QED  BY <3>1, <3>2
  <2>2. CASE k \in keys  BY <2>1, <2>2, <1>1, <1>2, <1>5, <1>6
  <2>3. CASE k \notin keys
    <3>1. k \notin upTo \/ Category[k] \in {category, "never"} \/ m[k] = Default
      BY <2>3, <1>1
    <3>2. LoadSettings(part_of)[k] = Default  BY <2>3, <1>5, <1>6
    <3>3. QED  BY <3>1, <3>2
  <2>4. QED  BY <2>2, <2>3
<1>8. LoadSettings(part_of) \in [Keys -> Setting]
  <2>1. \A k \in Keys : LoadSettings(part_of)[k] \in Setting  BY <1>7 DEF Setting
  <2>2. LoadSettings(part_of) = [k \in Keys |-> LoadSettings(part_of)[k]]  BY DEF LoadSettings
  <2>3. QED  BY <2>1, <2>2
<1>9. part_of = PartOf(m, category, upTo)  BY DEF PartOf
<1>10. QED
  <2> HIDE DEF keys, part_of, table
  <2>1. \E ks \in SUBSET Keys : part_of \in [ks -> Setting]  BY <1>4
  <2>2. QED  BY <1>7, <1>8, <1>9, <2>1

(* A whole table is one that was not cut off.                              *)
LEMMA ReadWhole ==
    ASSUME NEW m \in [Keys -> Setting], NEW category
    PROVE  /\ \A k \in Keys : LoadSettings(Table(m, category))[k] =
                 IF Category[k] \notin {category, "never"} THEN m[k] ELSE Default
           /\ Table(m, category) # Missing
           /\ LoadSettings(Table(m, category)) \in [Keys -> Setting]
<1> DEFINE table == Table(m, category)
<1>1. DOMAIN table \subseteq Keys  BY DEF Table, Restrict
<1>2. DOMAIN table \cap Keys = DOMAIN table  BY <1>1
<1>3. Restrict(table, DOMAIN table) = table  BY DEF Table, Restrict
<1>4. PartOf(m, category, Keys) = table  BY <1>2, <1>3 DEF PartOf
<1>5. PICK keys \in SUBSET Keys : table \in [keys -> Setting]
  <2>1. \E keys \in SUBSET Keys : PartOf(m, category, Keys) \in [keys -> Setting]
    BY ReadBack
  <2>2. QED  BY <2>1, <1>4
<1>6. table # Missing
  <2>1. table \in [keys -> Values \cup {Default, Tagged}]  BY <1>5 DEF Setting
  <2>2. QED  BY <2>1, FileAssumption
<1>7. /\ \A k \in Keys : LoadSettings(table)[k] =
            IF Category[k] \notin {category, "never"} THEN m[k] ELSE Default
      /\ LoadSettings(table) \in [Keys -> Setting]
  <2>1. /\ \A k \in Keys : LoadSettings(PartOf(m, category, Keys))[k] =
              IF k \in Keys /\ Category[k] \notin {category, "never"} THEN m[k] ELSE Default
        /\ LoadSettings(PartOf(m, category, Keys)) \in [Keys -> Setting]
    BY ReadBack
  <2>2. QED  BY <2>1, <1>4
<1>8. QED  BY <1>6, <1>7

LEMMA SettingsStart == SettingsInit => SettingsInv
<1> SUFFICES ASSUME SettingsInit PROVE SettingsInv
  OBVIOUS
<1>1. PICK n \in Values \cup {Tagged} : file = [k \in {"name"} |-> n]
  BY DEF SettingsInit
<1>2. AllDefault \in [Keys -> Setting] /\ \A k \in Keys : AllDefault[k] = Default
  BY DEF AllDefault, Setting
<1>3. /\ kept \in [Keys -> Setting]
      /\ kept["name"] = IF n = Tagged THEN Default ELSE n
      /\ \A k \in Keys \ {"name"} : kept[k] = Default
  <2>1. file["name"] = n  BY <1>1
  <2>2. kept = [AllDefault EXCEPT !["name"] = IF n = Tagged THEN Default ELSE n]
    BY <2>1 DEF SettingsInit
  <2>3. QED  BY <1>2, <2>2, CategoryOfKeys DEF Setting
<1>4. SettingsTypeOK /\ SavesInOrder /\ InForce
  BY <1>2, <1>3 DEF SettingsInit, SettingsTypeOK, SavesInOrder, InForce, NotSaving
<1>5. CanStart
  <2>1. {"name"} \in SUBSET Keys  BY CategoryOfKeys
  <2>2. file \in [{"name"} -> Values \cup {Default, Tagged}]  BY <1>1
  <2>3. QED  BY <2>1, <2>2, FileAssumption DEF CanStart
<1>6. Holds(LoadSettings(file), kept, cutOff)
  <2>1. Readable(file) = IF n = Tagged THEN {} ELSE {"name"}  BY <1>1 DEF Readable
  <2>2. \A k \in Keys : LoadSettings(file)[k] = IF k = "name" /\ n # Tagged THEN n ELSE Default
    BY <1>1, <2>1 DEF LoadSettings
  <2>3. QED  BY <2>2, <1>3 DEF Holds
<1>7. running = FALSE  BY DEF SettingsInit
<1>8. QED  BY <1>4, <1>5, <1>6, <1>7 DEF SettingsInv

LEMMA StartKeeps == ASSUME SettingsInv, Start PROVE SettingsInv'
<1>1. CASE file = Missing
  BY <1>1 DEF Start, settingsVars, SettingsInv, SettingsTypeOK, SavesInOrder, InForce, CanStart, Holds,
              LoadSettings, Readable, ShownValue
<1>2. CASE file # Missing
  <2>1. /\ ~running /\ running' = TRUE /\ m_Settings' = LoadSettings(file)
        /\ own' = [k \in Mirrored |-> m_Settings'[k]]
        /\ chosen' = kept /\ restored' = {} /\ UNCHANGED <<file, saving, kept, cutOff>>
    BY <1>2 DEF Start
  <2>2. saving.step = "none" /\ saving = NotSaving  BY <2>1 DEF SettingsInv, SavesInOrder, SettingsTypeOK
  <2>3. Holds(LoadSettings(file), kept, cutOff)  BY <1>2, <2>2 DEF SettingsInv
  <2>4. \A k \in Keys : LoadSettings(file)[k] \in Setting
    BY <2>3 DEF Holds, SettingsInv, SettingsTypeOK, Setting
  <2>5. m_Settings' \in [Keys -> Setting]
    <3>1. m_Settings' = [k \in Keys |-> LoadSettings(file)[k]]  BY <2>1 DEF LoadSettings
    <3>2. QED  BY <3>1, <2>4
  <2>6. SettingsTypeOK'  BY <2>1, <2>5 DEF SettingsInv, SettingsTypeOK
  <2>7. SavesInOrder' /\ CanStart'  BY <2>1, <2>2 DEF SettingsInv, SavesInOrder, CanStart, NotSaving
  <2>8. InForce'  BY <2>1 DEF InForce, ShownValue
  <2>9. Holds(m_Settings', chosen', cutOff') /\ Holds(LoadSettings(file'), kept', cutOff')
    BY <2>1, <2>3
  <2>10. QED  BY <2>6, <2>7, <2>8, <2>9 DEF SettingsInv
<1>3. QED  BY <1>1, <1>2

LEMMA SetKeeps ==
    ASSUME SettingsInv, NEW k \in Changeable, NEW v \in Values \cup {TooSmall}, Set(k, v),
           v = TooSmall => k = "hudPosition"
    PROVE  SettingsInv'
<1>1. /\ running /\ saving = NotSaving
      /\ m_Settings' = [m_Settings EXCEPT ![k] = Clamped(k, v)]
      /\ own' = [c \in Mirrored |-> IF c = k THEN v ELSE own[c]]
      /\ chosen' = [chosen EXCEPT ![k] = Clamped(k, v)]
      /\ restored' = restored \ {k}
      /\ UNCHANGED <<running, file, saving, kept, cutOff>>
  BY DEF Set
<1>2. k \in Keys /\ Clamped(k, v) \in Setting /\ (k \in Mirrored => Clamped(k, v) = v)
  BY CategoryOfKeys DEF Clamped, Setting, Mirrored
<1>3. SettingsTypeOK'  BY <1>1, <1>2 DEF SettingsInv, SettingsTypeOK
<1>4. SavesInOrder' /\ CanStart'  BY <1>1 DEF SettingsInv, SavesInOrder, CanStart
<1>5. InForce'
  <2>1. \A c \in Mirrored \ restored : own[c] = m_Settings[c]
    BY <1>1 DEF SettingsInv, InForce
  <2>2. \A c \in Mirrored \ restored' : own'[c] = m_Settings'[c]
    BY <2>1, <1>1, <1>2, CategoryOfKeys DEF SettingsInv, SettingsTypeOK
  <2>3. QED  BY <2>2 DEF InForce, ShownValue
<1>6. Holds(m_Settings', chosen', cutOff')
  BY <1>1, <1>2 DEF SettingsInv, SettingsTypeOK, Holds
<1>7. Holds(LoadSettings(file), kept, cutOff) => Holds(LoadSettings(file'), kept', cutOff')
  BY <1>1
<1>8. QED  BY <1>1, <1>3, <1>4, <1>5, <1>6, <1>7 DEF SettingsInv

(* The steps of a save before anything is written.                         *)
LEMMA SaveKeeps ==
    ASSUME SettingsInv,
           \/ Save \/ Removed \/ CannotOpen
           \/ \E category \in {"first", "second"} : ToDefaults(category)
    PROVE  SettingsInv'
<1>1. CASE Save
  <2>1. saving'.step = "removed"  BY <1>1 DEF Save
  <2>2. SettingsTypeOK'  BY <1>1 DEF Save, SettingsInv, SettingsTypeOK
  <2>3. SavesInOrder' /\ CanStart'  BY <1>1 DEF Save, SavesInOrder, CanStart, NotSaving
  <2>4. InForce' /\ (running' => Holds(m_Settings', chosen', cutOff'))
    BY <1>1 DEF Save, SettingsInv, InForce, ShownValue
  <2>5. QED  BY <2>1, <2>2, <2>3, <2>4 DEF SettingsInv
<1>2. CASE Removed
  <2>1. /\ saving' = [saving EXCEPT !.step = "removed"] /\ file' = Missing
        /\ running /\ UNCHANGED <<running, m_Settings, own, chosen, kept, cutOff, restored>>
    BY <1>2 DEF Removed
  <2>2. SettingsTypeOK' /\ saving'.step = "removed"  BY <2>1 DEF SettingsInv, SettingsTypeOK
  <2>3. saving' # NotSaving  BY <2>2 DEF NotSaving
  <2>4. SavesInOrder' /\ CanStart'  BY <2>1, <2>2, <2>3 DEF SavesInOrder, CanStart
  <2>5. InForce' /\ (running' => Holds(m_Settings', chosen', cutOff'))
    BY <2>1 DEF SettingsInv, InForce, ShownValue
  <2>6. QED  BY <2>2, <2>4, <2>5 DEF SettingsInv
<1>3. CASE CannotOpen
  <2>1. /\ running /\ saving.step = "removed" /\ running' = ~saving.defaults
        /\ saving' = NotSaving /\ cutOff' = TRUE
        /\ UNCHANGED <<m_Settings, own, file, chosen, kept, restored>>
    BY <1>3 DEF CannotOpen
  <2>2. file' = Missing  BY <2>1 DEF SettingsInv, SavesInOrder
  <2>3. SettingsTypeOK'  BY <2>1 DEF SettingsInv, SettingsTypeOK, NotSaving
  <2>4. SavesInOrder' /\ CanStart'  BY <2>1 DEF SavesInOrder, CanStart, NotSaving
  <2>5. InForce' /\ Holds(m_Settings', chosen', cutOff')
    BY <2>1 DEF SettingsInv, InForce, ShownValue, Holds
  <2>6. QED  BY <2>2, <2>3, <2>4, <2>5 DEF SettingsInv
<1>4. ASSUME NEW category \in {"first", "second"}, ToDefaults(category) PROVE SettingsInv'
  <2>1. /\ running /\ saving' = [step |-> "emptied", category |-> category, defaults |-> TRUE]
        /\ file' = << >> /\ UNCHANGED <<running, m_Settings, own, chosen, kept, cutOff, restored>>
    BY <1>4 DEF ToDefaults
  <2>2. saving'.step = "emptied" /\ saving' # NotSaving  BY <2>1 DEF NotSaving
  <2>3. SettingsTypeOK'  BY <2>1 DEF SettingsInv, SettingsTypeOK
  <2>4. SavesInOrder' /\ CanStart'  BY <2>1, <2>2 DEF SavesInOrder, CanStart
  <2>5. InForce' /\ (running' => Holds(m_Settings', chosen', cutOff'))
    BY <2>1 DEF SettingsInv, InForce, ShownValue
  <2>6. QED  BY <2>2, <2>3, <2>4, <2>5 DEF SettingsInv
<1>5. QED  BY <1>1, <1>2, <1>3, <1>4

LEMMA WithoutChoices ==
    ASSUME NEW choices \in [Keys -> Setting], NEW category
    PROVE  /\ Without(choices, category) \in [Keys -> Setting]
           /\ \A k \in Keys : Without(choices, category)[k] =
                 IF Category[k] \notin {category, "never"} THEN choices[k] ELSE Default
<1>1. \A k \in Keys : Without(choices, category)[k] =
         IF Category[k] \notin {category, "never"} THEN choices[k] ELSE Default
  BY DEF Without
<1>2. Without(choices, category) \in [Keys -> Setting]  BY DEF Without, Setting
<1>3. QED  BY <1>1, <1>2

LEMMA WrittenKeeps == ASSUME SettingsInv, Written PROVE SettingsInv'
<1>1. /\ running /\ saving.step = "removed"
      /\ file' = Table(m_Settings, saving.category)
      /\ saving' = NotSaving /\ kept' = Without(chosen, saving.category)
      /\ saving.defaults => m_Settings' = LoadSettings(file') /\ chosen' = kept' /\ restored' = Mirrored
      /\ ~saving.defaults => UNCHANGED <<m_Settings, chosen, restored>>
      /\ UNCHANGED <<running, own, cutOff>>
  BY DEF Written
<1>2. /\ m_Settings \in [Keys -> Setting] /\ chosen \in [Keys -> Setting]
      /\ saving.defaults \in BOOLEAN /\ DOMAIN own = Mirrored
      /\ running \in BOOLEAN /\ cutOff \in BOOLEAN
      /\ Holds(m_Settings, chosen, cutOff)
  BY <1>1 DEF SettingsInv, SettingsTypeOK
<1>3. PICK m, c, category : m = m_Settings /\ c = chosen /\ category = saving.category
  OBVIOUS
<1>4. /\ \A k \in Keys : LoadSettings(file')[k] =
            IF Category[k] \notin {category, "never"} THEN m[k] ELSE Default
      /\ file' # Missing /\ LoadSettings(file') \in [Keys -> Setting]
  <2>1. m \in [Keys -> Setting] /\ file' = Table(m, category)  BY <1>1, <1>2, <1>3
  <2>2. QED  BY <2>1, ReadWhole
<1>5. /\ \A k \in Keys : kept'[k] = IF Category[k] \notin {category, "never"} THEN c[k] ELSE Default
      /\ kept' \in [Keys -> Setting]
  <2>1. c \in [Keys -> Setting] /\ kept' = Without(c, category)  BY <1>1, <1>2, <1>3
  <2>2. QED  BY <2>1, WithoutChoices
<1>6. \A k \in Keys : m[k] = c[k] \/ (cutOff /\ m[k] = Default)  BY <1>2, <1>3 DEF Holds
<1>7. Holds(LoadSettings(file'), kept', cutOff')
  <2>1. \A k \in Keys : \/ LoadSettings(file')[k] = kept'[k]
                        \/ (cutOff' /\ LoadSettings(file')[k] = Default)
    BY <1>1, <1>4, <1>5, <1>6
  <2>2. QED  BY <2>1 DEF Holds
<1>8. Holds(m_Settings', chosen', cutOff')  BY <1>1, <1>2, <1>7
<1>9. SettingsTypeOK'  BY <1>1, <1>2, <1>4, <1>5 DEF SettingsTypeOK, NotSaving
<1>10. SavesInOrder' /\ CanStart'  BY <1>1, <1>4 DEF SavesInOrder, CanStart, NotSaving
<1>11. InForce'  BY <1>1, <1>2 DEF SettingsInv, InForce, ShownValue
<1>12. QED  BY <1>7, <1>8, <1>9, <1>10, <1>11 DEF SettingsInv

LEMMA KillKeeps == ASSUME SettingsInv, Kill PROVE SettingsInv'
<1>1. /\ running' = FALSE /\ saving' = NotSaving
      /\ cutOff' = (cutOff \/ saving # NotSaving)
      /\ m_Settings' = AllDefault /\ chosen' = AllDefault
      /\ own' = [k \in Mirrored |-> Default] /\ restored' = {}
  BY DEF Kill
<1>2. AllDefault \in [Keys -> Setting]  BY DEF AllDefault, Setting
<1>3. SavesInOrder' /\ InForce'  BY <1>1 DEF SavesInOrder, InForce, NotSaving
<1>4. CASE saving = NotSaving
  <2>1. /\ cutOff' = cutOff /\ kept' = kept /\ file' = file
        /\ cutOff \in BOOLEAN
    BY <1>1, <1>4 DEF Kill, NotSaving, SettingsInv, SettingsTypeOK
  <2>2. saving.step = "none"  BY <1>4 DEF NotSaving
  <2>3. SettingsTypeOK'  BY <1>1, <1>2, <2>1 DEF SettingsInv, SettingsTypeOK, NotSaving
  <2>4. CanStart'  BY <1>1, <1>4, <2>1 DEF SettingsInv, CanStart
  <2>5. file' # Missing => Holds(LoadSettings(file'), kept', cutOff')
    BY <2>1, <2>2 DEF SettingsInv
  <2>6. QED  BY <1>1, <1>3, <2>3, <2>4, <2>5 DEF SettingsInv
<1>5. CASE saving # NotSaving
  <2>1. PICK m, c, category : m = m_Settings /\ c = chosen /\ category = saving.category
    OBVIOUS
  <2>2. /\ m \in [Keys -> Setting] /\ c \in [Keys -> Setting]
        /\ \A k \in Keys : m[k] = c[k] \/ (cutOff /\ m[k] = Default)
        /\ running /\ saving.step \in {"emptied", "removed"}
    BY <1>5, <2>1 DEF Kill, Holds, SettingsInv, SettingsTypeOK, SavesInOrder
  <2>3. cutOff' = TRUE /\ kept' = Without(c, category)  BY <1>1, <1>5, <2>1 DEF Kill
  <2>4. /\ \A k \in Keys : kept'[k] = IF Category[k] \notin {category, "never"} THEN c[k] ELSE Default
        /\ kept' \in [Keys -> Setting]
    BY <2>2, <2>3, WithoutChoices
  <2>5. SettingsTypeOK' /\ CanStart'  BY <1>1, <1>2, <2>3, <2>4 DEF SettingsTypeOK, NotSaving, CanStart
  <2>6. ASSUME file' # Missing PROVE Holds(LoadSettings(file'), kept', cutOff')
    <3>1. CASE file' = file
      <4>1. file' = << >>  BY <2>2, <2>6, <3>1 DEF SettingsInv, SavesInOrder
      <4>2. \A k \in Keys : LoadSettings(file')[k] = Default
        BY <4>1 DEF LoadSettings, Readable
      <4>3. QED  BY <4>2, <2>3 DEF Holds
    <3>2. CASE file' # file
      <4>1. PICK n \in 0 .. Len(Order) :
               LET table == Table(m_Settings, saving.category)
               IN file' = Restrict(table, DOMAIN table \cap {Order[i] : i \in 1 .. n})
        BY <3>2 DEF Kill
      <4>2. PICK upTo : upTo = {Order[i] : i \in 1 .. n}  OBVIOUS
      <4>3. file' = PartOf(m, category, upTo)
        BY <4>1, <4>2, <2>1 DEF PartOf
      <4>4. \A k \in Keys : LoadSettings(file')[k] =
               IF k \in upTo /\ Category[k] \notin {category, "never"} THEN m[k] ELSE Default
        BY <4>3, <2>2, ReadBack
      <4>5. \A k \in Keys : LoadSettings(file')[k] \in {kept'[k], Default}
        BY <4>4, <2>2, <2>4
      <4>6. QED  BY <4>5, <2>3 DEF Holds
    <3>3. QED  BY <3>1, <3>2
  <2>7. QED  BY <1>1, <1>3, <2>5, <2>6 DEF SettingsInv
<1>6. QED  BY <1>4, <1>5

(* Settings survive every choice, save, return to defaults and kill, with  *)
(* any values to choose from; only a save that was cut off costs some, or  *)
(* the next start.                                                         *)
THEOREM SettingsSurvive == ClientSpec => []SettingsKept
<1>1. ClientInit => SettingsInv  BY SettingsStart DEF ClientInit
<1>2. SettingsInv /\ [ClientNext]_clientVars => SettingsInv'
  <2> SUFFICES ASSUME SettingsInv, [ClientNext]_clientVars PROVE SettingsInv'
    OBVIOUS
  <2>1. CASE SettingsNext
    <3>1. ASSUME NEW k \in Changeable, NEW v \in Values, Set(k, v) PROVE SettingsInv'
      <4>1. v # TooSmall  BY SettingsAssumption
      <4>2. QED  BY <3>1, <4>1, SetKeeps
    <3>2. ASSUME Set("hudPosition", TooSmall) PROVE SettingsInv'
      <4>1. "hudPosition" \in Changeable  BY CategoryOfKeys DEF Changeable
      <4>2. QED  BY <3>2, <4>1, SetKeeps
    <3>3. QED
      BY <2>1, <3>1, <3>2, StartKeeps, SaveKeeps, WrittenKeeps, KillKeeps DEF SettingsNext
  <2>2. CASE UNCHANGED settingsVars
    BY <2>2
    DEF settingsVars, SettingsInv, SettingsTypeOK, SavesInOrder, InForce, CanStart, Holds, LoadSettings,
        Readable, ShownValue
  <2>3. QED  BY <2>1, <2>2 DEF ClientNext, clientVars
<1>3. SettingsInv => SettingsKept
  BY DEF SettingsInv, SettingsKept, ChoicesHold, Holds
<1>4. QED  BY <1>1, <1>2, <1>3, PTL DEF ClientSpec

-----------------------------------------------------------------------------
(* Marks and removed buildings *)

MarksTypeOK ==
    /\ m_dwMapIcons \in [IconIds -> Markers \cup {NoMark}]
    /\ checkpoint \in [on : BOOLEAN, marker : Markers \cup {NoMark}, pos : Places \cup {Nowhere}]
    /\ race \in [on : BOOLEAN, marker : Markers \cup {NoMark}, pos : Places \cup {Nowhere},
                 gate : Gates \cup {NoMark}]
    /\ DOMAIN radar \subseteq Markers /\ DOMAIN gates \subseteq Gates
    /\ placed \in [icon : [IconIds -> Places \cup {Nowhere}], checkpoint : Places \cup {Nowhere},
                   race : Places \cup {Nowhere}, dragged : BOOLEAN, early : BOOLEAN]

(* Nobody's marker is another's, and the radar has no more than theirs.    *)
Handles == {m_dwMapIcons[i] : i \in IconIds} \cup {checkpoint.marker, race.marker}
HandlesApart ==
    /\ DOMAIN radar = Handles \ {NoMark}
    /\ \A i, j \in IconIds : m_dwMapIcons[i] # NoMark /\ m_dwMapIcons[i] = m_dwMapIcons[j] => i = j
    /\ \A i \in IconIds : m_dwMapIcons[i] # NoMark => m_dwMapIcons[i] \notin {checkpoint.marker, race.marker}
    /\ checkpoint.marker # NoMark => checkpoint.marker # race.marker

IconsPlaced ==
    \A i \in IconIds : /\ (m_dwMapIcons[i] = NoMark) = (placed.icon[i] = Nowhere)
                       /\ m_dwMapIcons[i] # NoMark => radar[m_dwMapIcons[i]] = placed.icon[i]

(* The flag and the place follow the orders at once, the marker later.     *)
CheckpointPlaced ==
    /\ checkpoint.on <=> placed.checkpoint # Nowhere \/ placed.dragged
    /\ placed.checkpoint # Nowhere =>
          /\ checkpoint.pos = placed.checkpoint
          /\ checkpoint.marker # NoMark => radar[checkpoint.marker] = placed.checkpoint
    /\ framed => (checkpoint.marker # NoMark <=> checkpoint.on)

(* There is one gate at most, and none that no marker will take away.      *)
RacePlaced ==
    /\ race.on <=> placed.race # Nowhere
    /\ placed.race # Nowhere =>
          /\ race.pos = placed.race /\ race.gate \in DOMAIN gates /\ gates[race.gate] = placed.race
          /\ race.marker # NoMark => radar[race.marker] = placed.race
    /\ framed => (race.marker # NoMark <=> race.on)
    /\ DOMAIN gates \subseteq {race.gate}
    /\ placed.race = Nowhere /\ race.marker = NoMark /\ ~placed.early => DOMAIN gates = {}

MarksInv == MarksTypeOK /\ HandlesApart /\ IconsPlaced /\ CheckpointPlaced /\ RacePlaced

LEMMA MarksHold == MarksInv => MarksAsPlaced
  BY DEF MarksInv, HandlesApart, Handles, IconsPlaced, CheckpointPlaced, RacePlaced, MarksAsPlaced

(* What is there in a table after a change.                                *)
LEMMA TableOps ==
    ASSUME NEW f, NEW h, NEW p
    PROVE  /\ DOMAIN Gone(f, h) = DOMAIN f \ {h}
           /\ \A g \in DOMAIN f \ {h} : Gone(f, h)[g] = f[g]
           /\ DOMAIN Added(f, h, p) = DOMAIN f \cup {h}
           /\ Added(f, h, p)[h] = p
           /\ \A g \in DOMAIN f \ {h} : Added(f, h, p)[g] = f[g]
  BY DEF Gone, Added

LEMMA MarksStart == WorldMarksInit => MarksInv
<1> SUFFICES ASSUME WorldMarksInit PROVE MarksInv  OBVIOUS
<1> USE WorldMarksAssumption
<1>1. DOMAIN radar = {} /\ DOMAIN gates = {}  BY DEF WorldMarksInit
<1>2. MarksTypeOK
  <2>1. checkpoint \in [on : BOOLEAN, marker : Markers \cup {NoMark}, pos : Places \cup {Nowhere}]
    BY DEF WorldMarksInit, NoCheckpoint
  <2>2. race \in [on : BOOLEAN, marker : Markers \cup {NoMark}, pos : Places \cup {Nowhere},
                  gate : Gates \cup {NoMark}]
    BY DEF WorldMarksInit, NoRace
  <2>3. QED  BY <1>1, <2>1, <2>2 DEF WorldMarksInit, MarksTypeOK
<1>3. HandlesApart
  <2>1. Handles \ {NoMark} = {}  BY DEF WorldMarksInit, Handles, NoCheckpoint, NoRace
  <2>2. QED  BY <1>1, <2>1 DEF WorldMarksInit, HandlesApart, NoCheckpoint, NoRace
<1>4. IconsPlaced  BY DEF WorldMarksInit, IconsPlaced
<1>5. CheckpointPlaced  BY DEF WorldMarksInit, CheckpointPlaced, NoCheckpoint
<1>6. RacePlaced  BY <1>1 DEF WorldMarksInit, RacePlaced, NoRace
<1>7. QED  BY <1>2, <1>3, <1>4, <1>5, <1>6 DEF MarksInv

LEMMA SetIconKeeps ==
    ASSUME MarksInv, NEW i \in IconIds, NEW m \in Markers, NEW p \in Places, SetMapIcon(i, m, p)
    PROVE  MarksInv'
<1> USE WorldMarksAssumption
<1> DEFINE old == m_dwMapIcons[i]
<1>1. UNCHANGED <<checkpoint, race, gates, framed>>  BY DEF SetMapIcon
<1>2. \A j \in IconIds : /\ m_dwMapIcons'[j] = IF j = i THEN m ELSE m_dwMapIcons[j]
                        /\ placed'.icon[j] = IF j = i THEN p ELSE placed.icon[j]
  BY DEF SetMapIcon, MarksInv, MarksTypeOK
<1>3. /\ placed'.checkpoint = placed.checkpoint /\ placed'.race = placed.race
      /\ placed'.dragged = placed.dragged /\ placed'.early = placed.early
  BY DEF SetMapIcon, MarksInv, MarksTypeOK
<1>4. old = NoMark => old \notin DOMAIN radar  BY DEF MarksInv, MarksTypeOK
<1>5. /\ m \notin DOMAIN radar \ {old}
      /\ DOMAIN radar' = (DOMAIN radar \ {old}) \cup {m} /\ radar'[m] = p
      /\ \A h \in DOMAIN radar \ {old} : h # m => radar'[h] = radar[h]
  <2>1. PICK before : before = IF old # NoMark THEN Gone(radar, old) ELSE radar  OBVIOUS
  <2>2. m \notin DOMAIN before /\ radar' = Added(before, m, p)  BY <2>1 DEF SetMapIcon
  <2>3. DOMAIN before = DOMAIN radar \ {old} /\ \A h \in DOMAIN before : before[h] = radar[h]
    BY <1>4, <2>1 DEF Gone
  <2>4. QED  BY <2>2, <2>3 DEF Added
<1>6. MarksTypeOK'
  <2>1. m_dwMapIcons' \in [IconIds -> Markers \cup {NoMark}] /\ DOMAIN radar' \subseteq Markers
    BY <1>5 DEF SetMapIcon, MarksInv, MarksTypeOK
  <2>2. placed' \in [icon : [IconIds -> Places \cup {Nowhere}], checkpoint : Places \cup {Nowhere},
                   race : Places \cup {Nowhere}, dragged : BOOLEAN, early : BOOLEAN]
    BY DEF SetMapIcon, MarksInv, MarksTypeOK
  <2>3. QED  BY <1>1, <2>1, <2>2 DEF MarksInv, MarksTypeOK
<1>7. HandlesApart'
  <2>1. \A j \in IconIds : m_dwMapIcons[j] # NoMark => m_dwMapIcons[j] \in DOMAIN radar
    BY DEF MarksInv, HandlesApart, Handles
  <2>2. \A h \in {checkpoint.marker, race.marker} : h # NoMark => h \in DOMAIN radar /\ h # old
    BY DEF MarksInv, HandlesApart, Handles
  <2>3. \A j \in IconIds \ {i} : m_dwMapIcons[j] # NoMark => m_dwMapIcons[j] # old
    BY DEF MarksInv, HandlesApart
  <2>4. Handles' \ {NoMark} = ((Handles \ {NoMark}) \ {old}) \cup {m}
    <3>1. Handles' = {m_dwMapIcons[j] : j \in IconIds \ {i}} \cup {m} \cup {checkpoint.marker, race.marker}
      BY <1>1, <1>2 DEF Handles
    <3>2. Handles = {m_dwMapIcons[j] : j \in IconIds \ {i}} \cup {old} \cup {checkpoint.marker, race.marker}
      BY DEF Handles
    <3>3. QED  BY <2>2, <2>3, <3>1, <3>2
  <2>5. DOMAIN radar' = Handles' \ {NoMark}  BY <1>5, <2>4 DEF MarksInv, HandlesApart
  <2>6. \A j, k \in IconIds : m_dwMapIcons'[j] # NoMark /\ m_dwMapIcons'[j] = m_dwMapIcons'[k] => j = k
    BY <1>2, <1>5, <2>1, <2>3 DEF MarksInv, HandlesApart
  <2>7. \A j \in IconIds : m_dwMapIcons'[j] # NoMark => m_dwMapIcons'[j] \notin {checkpoint.marker, race.marker}
    BY <1>2, <1>5, <2>2 DEF MarksInv, HandlesApart
  <2>8. QED  BY <1>1, <2>5, <2>6, <2>7 DEF MarksInv, HandlesApart
<1> HIDE DEF old
<1>8. IconsPlaced'
  <2>1. \A j \in IconIds \ {i} : m_dwMapIcons[j] # NoMark =>
          m_dwMapIcons[j] \in DOMAIN radar \ {old} /\ m_dwMapIcons[j] # m
    BY <1>5 DEF old, MarksInv, HandlesApart, Handles
  <2>2. \A j \in IconIds \ {i} : m_dwMapIcons[j] # NoMark => radar'[m_dwMapIcons[j]] = placed.icon[j]
    BY <1>5, <2>1 DEF MarksInv, IconsPlaced
  <2>3. QED  BY <1>2, <1>5, <2>2 DEF MarksInv, IconsPlaced
<1>9. \A h \in {checkpoint.marker, race.marker} : h # NoMark => radar'[h] = radar[h]
  BY <1>5 DEF old, MarksInv, HandlesApart, Handles
<1>10. CheckpointPlaced' /\ RacePlaced'
  BY <1>1, <1>3, <1>9 DEF MarksInv, CheckpointPlaced, RacePlaced
<1>11. QED  BY <1>6, <1>7, <1>8, <1>10 DEF MarksInv

(* What the next steps need to know of the handles: those that are held    *)
(* are on the radar, and an icon's is no checkpoint's.                     *)
LEMMA HandlesHeld ==
    ASSUME MarksInv
    PROVE  /\ \A i \in IconIds : m_dwMapIcons[i] # NoMark =>
                 m_dwMapIcons[i] \in DOMAIN radar \ {checkpoint.marker, race.marker}
           /\ checkpoint.marker # NoMark => checkpoint.marker \in DOMAIN radar \ {race.marker}
           /\ race.marker # NoMark => race.marker \in DOMAIN radar \ {checkpoint.marker}
           /\ NoMark \notin DOMAIN radar \cup DOMAIN gates
  BY WorldMarksAssumption DEF MarksInv, MarksTypeOK, HandlesApart, Handles

(* The icons do not notice what happens to other markers. *)
LEMMA IconsAlone ==
    ASSUME MarksInv, UNCHANGED m_dwMapIcons, placed'.icon = placed.icon,
           \A h \in DOMAIN radar \ {checkpoint.marker, race.marker} : radar'[h] = radar[h]
    PROVE  IconsPlaced'
  BY HandlesHeld DEF MarksInv, IconsPlaced

LEMMA DisableIconKeeps == ASSUME MarksInv, NEW i \in IconIds, DisableMapIcon(i) PROVE MarksInv'
<1> USE WorldMarksAssumption
<1> DEFINE old == m_dwMapIcons[i]
<1>1. UNCHANGED <<checkpoint, race, gates, framed>>  BY DEF DisableMapIcon
<1>2. \A j \in IconIds : /\ m_dwMapIcons'[j] = IF j = i THEN NoMark ELSE m_dwMapIcons[j]
                        /\ placed'.icon[j] = IF j = i THEN Nowhere ELSE placed.icon[j]
  BY DEF DisableMapIcon, MarksInv, MarksTypeOK
<1>3. /\ placed'.checkpoint = placed.checkpoint /\ placed'.race = placed.race
      /\ placed'.dragged = placed.dragged /\ placed'.early = placed.early
  BY DEF DisableMapIcon, MarksInv, MarksTypeOK
<1>4. DOMAIN radar' = DOMAIN radar \ {old} /\ \A h \in DOMAIN radar \ {old} : radar'[h] = radar[h]
  BY DEF DisableMapIcon, Gone
<1>5. MarksTypeOK'
  <2>1. m_dwMapIcons' \in [IconIds -> Markers \cup {NoMark}] /\ DOMAIN radar' \subseteq Markers
    BY <1>4 DEF DisableMapIcon, MarksInv, MarksTypeOK
  <2>2. placed' \in [icon : [IconIds -> Places \cup {Nowhere}], checkpoint : Places \cup {Nowhere},
                   race : Places \cup {Nowhere}, dragged : BOOLEAN, early : BOOLEAN]
    BY DEF DisableMapIcon, MarksInv, MarksTypeOK
  <2>3. QED  BY <1>1, <2>1, <2>2 DEF MarksInv, MarksTypeOK
<1>6. /\ \A j \in IconIds \ {i} : m_dwMapIcons[j] # NoMark => m_dwMapIcons[j] # old
      /\ \A h \in {checkpoint.marker, race.marker} : h # NoMark => h # old
  BY HandlesHeld DEF MarksInv, HandlesApart
<1>7. HandlesApart'
  <2>1. Handles' = {m_dwMapIcons[j] : j \in IconIds \ {i}} \cup {NoMark} \cup {checkpoint.marker, race.marker}
    BY <1>1, <1>2 DEF Handles
  <2>2. Handles = {m_dwMapIcons[j] : j \in IconIds \ {i}} \cup {old} \cup {checkpoint.marker, race.marker}
    BY DEF Handles
  <2>3. Handles' \ {NoMark} = (Handles \ {NoMark}) \ {old}  BY <1>6, <2>1, <2>2
  <2>4. DOMAIN radar' = Handles' \ {NoMark}  BY <1>4, <2>3 DEF MarksInv, HandlesApart
  <2>5. QED  BY <1>1, <1>2, <2>4 DEF MarksInv, HandlesApart
<1>8. IconsPlaced'
  <2>1. \A j \in IconIds \ {i} : m_dwMapIcons[j] # NoMark => m_dwMapIcons[j] \in DOMAIN radar \ {old}
    BY <1>6, HandlesHeld
  <2> HIDE DEF old
  <2>2. QED  BY <1>2, <1>4, <2>1 DEF MarksInv, IconsPlaced
<1>9. \A h \in {checkpoint.marker, race.marker} : h # NoMark => radar'[h] = radar[h]
  BY <1>4, <1>6, HandlesHeld
<1>10. CheckpointPlaced' /\ RacePlaced'
  BY <1>1, <1>3, <1>9 DEF MarksInv, CheckpointPlaced, RacePlaced
<1>11. QED  BY <1>5, <1>7, <1>8, <1>10 DEF MarksInv

LEMMA SetCheckpointKeeps ==
    ASSUME MarksInv, NEW m \in Markers, NEW p \in Places, SetCheckpoint(m, p)
    PROVE  MarksInv'
<1> USE WorldMarksAssumption
<1> DEFINE old == checkpoint.marker
<1>1. UNCHANGED <<m_dwMapIcons, race, gates>> /\ framed' = FALSE  BY DEF SetCheckpoint
<1>2. /\ placed'.icon = placed.icon /\ placed'.checkpoint = p /\ placed'.race = placed.race
      /\ placed'.dragged = placed.dragged /\ placed'.early = placed.early
  BY DEF SetCheckpoint, MarksInv, MarksTypeOK
<1>3. /\ checkpoint'.on = TRUE /\ checkpoint'.pos = p
      /\ checkpoint' \in [on : BOOLEAN, marker : Markers \cup {NoMark}, pos : Places \cup {Nowhere}]
  <2>1. CASE old # NoMark
    <3>1. checkpoint' = [on |-> TRUE, marker |-> m, pos |-> p]  BY <2>1 DEF SetCheckpoint
    <3>2. QED  BY <3>1
  <2>2. CASE old = NoMark  BY <2>2 DEF SetCheckpoint, MarksInv, MarksTypeOK
  <2>3. QED  BY <2>1, <2>2
<1>4. /\ old # NoMark => /\ m \notin DOMAIN radar \ {old} /\ checkpoint'.marker = m
                         /\ DOMAIN radar' = (DOMAIN radar \ {old}) \cup {m} /\ radar'[m] = p
      /\ old = NoMark => checkpoint'.marker = NoMark /\ radar' = radar
      /\ \A h \in DOMAIN radar \ {old} : radar'[h] = radar[h]
  <2>1. CASE old # NoMark
    <3>1. m \notin DOMAIN Gone(radar, old) /\ radar' = Added(Gone(radar, old), m, p)
      BY <2>1 DEF SetCheckpoint
    <3>2. checkpoint'.marker = m  BY <2>1 DEF SetCheckpoint
    <3>3. /\ DOMAIN Gone(radar, old) = DOMAIN radar \ {old}
          /\ \A h \in DOMAIN radar \ {old} : Gone(radar, old)[h] = radar[h]
      BY DEF Gone
    <3>4. QED  BY <2>1, <3>1, <3>2, <3>3 DEF Added
  <2>2. CASE old = NoMark  BY <2>2 DEF SetCheckpoint, MarksInv, MarksTypeOK
  <2>3. QED  BY <2>1, <2>2
<1>5. MarksTypeOK'
  <2>1. placed' \in [icon : [IconIds -> Places \cup {Nowhere}], checkpoint : Places \cup {Nowhere},
                   race : Places \cup {Nowhere}, dragged : BOOLEAN, early : BOOLEAN]
    BY DEF SetCheckpoint, MarksInv, MarksTypeOK
  <2>2. DOMAIN radar' \subseteq Markers  BY <1>4 DEF MarksInv, MarksTypeOK
  <2>3. QED  BY <1>1, <1>3, <2>1, <2>2 DEF MarksInv, MarksTypeOK
<1>6. HandlesApart'
  <2>1. CASE old = NoMark
    BY <1>1, <1>4, <2>1 DEF MarksInv, HandlesApart, Handles
  <2>2. CASE old # NoMark
    <3>1. Handles' = {m_dwMapIcons[j] : j \in IconIds} \cup {m, race.marker}  BY <1>1, <1>4, <2>2 DEF Handles
    <3>2. Handles' \ {NoMark} = ((Handles \ {NoMark}) \ {old}) \cup {m}
      BY <2>2, <3>1, HandlesHeld DEF Handles
    <3>3. DOMAIN radar' = Handles' \ {NoMark}  BY <1>4, <2>2, <3>2 DEF MarksInv, HandlesApart
    <3>4. \A j \in IconIds : m_dwMapIcons[j] # m  BY <1>4, <2>2, HandlesHeld
    <3>5. m # race.marker  BY <1>4, <2>2, HandlesHeld
    <3>6. QED  BY <1>1, <1>4, <2>2, <3>3, <3>4, <3>5 DEF MarksInv, HandlesApart
  <2>3. QED  BY <2>1, <2>2
<1>7. IconsPlaced'  BY <1>1, <1>2, <1>4, IconsAlone
<1>8. CheckpointPlaced'  BY <1>1, <1>2, <1>3, <1>4 DEF CheckpointPlaced
<1>9. race.marker # NoMark => radar'[race.marker] = radar[race.marker]  BY <1>4, HandlesHeld
<1>10. RacePlaced'  BY <1>1, <1>2, <1>9 DEF MarksInv, RacePlaced
<1>11. QED  BY <1>5, <1>6, <1>7, <1>8, <1>10 DEF MarksInv

LEMMA DisableCheckpointKeeps == ASSUME MarksInv, DisableCheckpoint PROVE MarksInv'
<1> USE WorldMarksAssumption
<1>1. UNCHANGED <<m_dwMapIcons, race, radar, gates>> /\ framed' = FALSE  BY DEF DisableCheckpoint
<1>2. /\ placed'.icon = placed.icon /\ placed'.checkpoint = Nowhere /\ placed'.race = placed.race
      /\ placed'.dragged = FALSE /\ placed'.early = placed.early
  BY DEF DisableCheckpoint, MarksInv, MarksTypeOK
<1>3. checkpoint'.on = FALSE /\ checkpoint'.pos = checkpoint.pos /\ checkpoint'.marker = checkpoint.marker
  BY DEF DisableCheckpoint, MarksInv, MarksTypeOK
<1>4. MarksTypeOK'
  <2>1. checkpoint' \in [on : BOOLEAN, marker : Markers \cup {NoMark}, pos : Places \cup {Nowhere}]
    BY DEF DisableCheckpoint, MarksInv, MarksTypeOK
  <2>2. placed' \in [icon : [IconIds -> Places \cup {Nowhere}], checkpoint : Places \cup {Nowhere},
                   race : Places \cup {Nowhere}, dragged : BOOLEAN, early : BOOLEAN]
    BY DEF DisableCheckpoint, MarksInv, MarksTypeOK
  <2>3. QED  BY <1>1, <2>1, <2>2 DEF MarksInv, MarksTypeOK
<1>5. HandlesApart'  BY <1>1, <1>3 DEF MarksInv, HandlesApart, Handles
<1>6. IconsPlaced'  BY <1>1, <1>2, IconsAlone
<1>7. CheckpointPlaced'  BY <1>1, <1>2, <1>3 DEF CheckpointPlaced
<1>8. RacePlaced'  BY <1>1, <1>2 DEF MarksInv, RacePlaced
<1>9. QED  BY <1>4, <1>5, <1>6, <1>7, <1>8 DEF MarksInv

LEMMA DisableRaceKeeps == ASSUME MarksInv, DisableRaceCheckpoint PROVE MarksInv'
<1> USE WorldMarksAssumption
<1>1. UNCHANGED <<m_dwMapIcons, checkpoint, radar, gates>> /\ framed' = FALSE  BY DEF DisableRaceCheckpoint
<1>2. /\ placed'.icon = placed.icon /\ placed'.checkpoint = placed.checkpoint /\ placed'.race = Nowhere
      /\ placed'.dragged = placed.dragged
      /\ placed'.early <=> placed.early \/ (race.on /\ race.marker = NoMark)
  BY DEF DisableRaceCheckpoint, MarksInv, MarksTypeOK
<1>3. /\ race'.on = FALSE /\ race'.pos = race.pos /\ race'.marker = race.marker
      /\ race'.gate = race.gate
  BY DEF DisableRaceCheckpoint, MarksInv, MarksTypeOK
<1>4. MarksTypeOK'
  <2>1. race' \in [on : BOOLEAN, marker : Markers \cup {NoMark}, pos : Places \cup {Nowhere},
                   gate : Gates \cup {NoMark}]
    BY DEF DisableRaceCheckpoint, MarksInv, MarksTypeOK
  <2>2. placed' \in [icon : [IconIds -> Places \cup {Nowhere}], checkpoint : Places \cup {Nowhere},
                   race : Places \cup {Nowhere}, dragged : BOOLEAN, early : BOOLEAN]
    BY DEF DisableRaceCheckpoint, MarksInv, MarksTypeOK
  <2>3. QED  BY <1>1, <2>1, <2>2 DEF MarksInv, MarksTypeOK
<1>5. HandlesApart'  BY <1>1, <1>3 DEF MarksInv, HandlesApart, Handles
<1>6. IconsPlaced'  BY <1>1, <1>2, IconsAlone
<1>7. CheckpointPlaced'  BY <1>1, <1>2 DEF MarksInv, CheckpointPlaced
<1>8. RacePlaced'  BY <1>1, <1>2, <1>3 DEF MarksInv, RacePlaced
<1>9. QED  BY <1>4, <1>5, <1>6, <1>7, <1>8 DEF MarksInv

(* New markers of the checkpoints, each where there was none or theirs.    *)
LEMMA NewHandles ==
    ASSUME MarksInv, UNCHANGED m_dwMapIcons,
           {checkpoint'.marker, race'.marker} \cap (DOMAIN radar \ {checkpoint.marker, race.marker}) = {},
           checkpoint'.marker # NoMark => checkpoint'.marker # race'.marker,
           DOMAIN radar' = (DOMAIN radar \ {checkpoint.marker, race.marker})
                              \cup ({checkpoint'.marker, race'.marker} \ {NoMark})
    PROVE  HandlesApart'
<1> DEFINE Icons == {m_dwMapIcons[i] : i \in IconIds}
<1>1. Handles' = Icons \cup {checkpoint'.marker, race'.marker}  BY DEF Handles
<1>2. DOMAIN radar \ {checkpoint.marker, race.marker} = Icons \ {NoMark}
  <2>1. \A x \in Icons : x # NoMark => x \notin {checkpoint.marker, race.marker}
    BY DEF MarksInv, HandlesApart
  <2>2. DOMAIN radar = (Icons \cup {checkpoint.marker, race.marker}) \ {NoMark}
    BY DEF MarksInv, HandlesApart, Handles
  <2> HIDE DEF Icons
  <2>3. QED  BY <2>1, <2>2
<1>3. DOMAIN radar' = Handles' \ {NoMark}
  <2> HIDE DEF Icons
  <2>1. QED  BY <1>1, <1>2
<1>4. \A i \in IconIds : m_dwMapIcons[i] # NoMark => m_dwMapIcons[i] \notin {checkpoint'.marker, race'.marker}
  BY HandlesHeld
<1>5. QED  BY <1>3, <1>4 DEF MarksInv, HandlesApart

LEMMA SetRaceKeeps ==
    ASSUME MarksInv, NEW m \in Markers, NEW g \in Gates, NEW p \in Places, SetRaceCheckpoint(m, g, p)
    PROVE  MarksInv'
<1> USE WorldMarksAssumption
<1> DEFINE old == race.marker
<1>1. UNCHANGED m_dwMapIcons /\ framed' = FALSE  BY DEF SetRaceCheckpoint
<1>2. /\ placed'.icon = placed.icon /\ placed'.checkpoint = placed.checkpoint /\ placed'.race = p
      /\ placed'.dragged <=> placed.dragged \/ placed.checkpoint = Nowhere
  BY DEF SetRaceCheckpoint, MarksInv, MarksTypeOK
<1>3. /\ race'.on = TRUE /\ race'.pos = p /\ race'.gate = g
      /\ race'.marker = IF old # NoMark THEN m ELSE NoMark
  BY DEF SetRaceCheckpoint
<1>4. /\ checkpoint'.on = TRUE /\ checkpoint'.pos = checkpoint.pos
      /\ checkpoint'.marker = checkpoint.marker
  BY DEF SetRaceCheckpoint, MarksInv, MarksTypeOK
<1>5. /\ old # NoMark => /\ m \notin DOMAIN radar \ {old}
                         /\ DOMAIN radar' = (DOMAIN radar \ {old}) \cup {m} /\ radar'[m] = p
      /\ old = NoMark => radar' = radar
      /\ \A h \in DOMAIN radar \ {old} : radar'[h] = radar[h]
  <2>1. CASE old # NoMark
    <3>1. m \notin DOMAIN Gone(radar, old) /\ radar' = Added(Gone(radar, old), m, p)
      BY <2>1 DEF SetRaceCheckpoint
    <3>2. /\ DOMAIN Gone(radar, old) = DOMAIN radar \ {old}
          /\ \A h \in DOMAIN radar \ {old} : Gone(radar, old)[h] = radar[h]
      BY DEF Gone
    <3>3. QED  BY <2>1, <3>1, <3>2 DEF Added
  <2>2. CASE old = NoMark  BY <2>2 DEF SetRaceCheckpoint
  <2>3. QED  BY <2>1, <2>2
<1>6. DOMAIN gates' = {g} /\ gates'[g] = p
  <2>1. gates' = Added(Gone(gates, race.gate), g, p)  BY DEF SetRaceCheckpoint
  <2>2. DOMAIN Gone(gates, race.gate) = {}  BY DEF Gone, MarksInv, RacePlaced
  <2>3. QED  BY <2>1, <2>2 DEF Added
<1>7. MarksTypeOK'
  <2>1. checkpoint' \in [on : BOOLEAN, marker : Markers \cup {NoMark}, pos : Places \cup {Nowhere}]
    BY DEF SetRaceCheckpoint, MarksInv, MarksTypeOK
  <2>2. race' \in [on : BOOLEAN, marker : Markers \cup {NoMark}, pos : Places \cup {Nowhere},
                   gate : Gates \cup {NoMark}]
    BY DEF SetRaceCheckpoint
  <2>3. placed' \in [icon : [IconIds -> Places \cup {Nowhere}], checkpoint : Places \cup {Nowhere},
                   race : Places \cup {Nowhere}, dragged : BOOLEAN, early : BOOLEAN]
    BY DEF SetRaceCheckpoint, MarksInv, MarksTypeOK
  <2>4. DOMAIN radar' \subseteq Markers  BY <1>5 DEF MarksInv, MarksTypeOK
  <2>5. QED  BY <1>1, <1>6, <2>1, <2>2, <2>3, <2>4 DEF MarksInv, MarksTypeOK
<1>8. HandlesApart'
  <2>1. CASE old = NoMark
    <3>1. Handles' = Handles  BY <1>1, <1>3, <1>4, <2>1 DEF Handles
    <3>2. radar' = radar  BY <1>5, <2>1
    <3>3. QED  BY <1>1, <1>3, <1>4, <2>1, <3>1, <3>2 DEF MarksInv, HandlesApart
  <2>2. CASE old # NoMark
    <3>1. race'.marker = m /\ m # NoMark  BY <1>3, <2>2
    <3>2. checkpoint.marker # NoMark => checkpoint.marker \in DOMAIN radar \ {old}  BY HandlesHeld
    <3>3. NoMark \notin DOMAIN radar  BY HandlesHeld
    <3>4. QED  BY <1>1, <1>4, <1>5, <2>2, <3>1, <3>2, <3>3, NewHandles
  <2>3. QED  BY <2>1, <2>2
<1>9. IconsPlaced'  BY <1>1, <1>2, <1>5, IconsAlone
<1>10. checkpoint.marker # NoMark => radar'[checkpoint.marker] = radar[checkpoint.marker]
  BY <1>5, HandlesHeld
<1>11. CheckpointPlaced'  BY <1>1, <1>2, <1>4, <1>10 DEF MarksInv, CheckpointPlaced
<1>12. RacePlaced'  BY <1>1, <1>2, <1>3, <1>5, <1>6 DEF RacePlaced
<1>13. QED  BY <1>7, <1>8, <1>9, <1>11, <1>12 DEF MarksInv

(* A frame: what is on has a marker, what is off has none. *)
LEMMA UpdateKeeps ==
    ASSUME MarksInv, NEW m \in Markers, NEW n \in Markers, UpdateCheckpoints(m, n)
    PROVE  MarksInv'
<1> USE WorldMarksAssumption
<1> DEFINE makes == checkpoint.on /\ checkpoint.marker = NoMark
           first == CASE makes -> Added(radar, m, checkpoint.pos)
                      [] ~checkpoint.on -> Gone(radar, checkpoint.marker)
                      [] OTHER -> radar
           makesRace == race.on /\ race.marker = NoMark
           cm == IF makes THEN m ELSE IF ~checkpoint.on THEN NoMark ELSE checkpoint.marker
           rm == IF makesRace THEN n ELSE IF ~race.on THEN NoMark ELSE race.marker
<1>1. UNCHANGED <<m_dwMapIcons, placed>> /\ framed' = TRUE  BY DEF UpdateCheckpoints
<1>2. /\ checkpoint'.on = checkpoint.on /\ checkpoint'.pos = checkpoint.pos /\ checkpoint'.marker = cm
      /\ checkpoint' \in [on : BOOLEAN, marker : Markers \cup {NoMark}, pos : Places \cup {Nowhere}]
  <2>1. checkpoint' = [checkpoint EXCEPT !.marker = cm]
    <3>1. checkpoint' = [checkpoint EXCEPT !.marker =
             CASE makes -> m [] ~checkpoint.on -> NoMark [] OTHER -> checkpoint.marker]
      BY DEF UpdateCheckpoints, MarksInv, MarksTypeOK
    <3>2. (CASE makes -> m [] ~checkpoint.on -> NoMark [] OTHER -> checkpoint.marker) = cm  OBVIOUS
    <3>3. QED  BY <3>1, <3>2
  <2>2. cm \in Markers \cup {NoMark}  BY DEF MarksInv, MarksTypeOK
  <2> HIDE DEF cm
  <2>3. QED  BY <2>1, <2>2 DEF MarksInv, MarksTypeOK
<1>3. /\ race'.on = race.on /\ race'.pos = race.pos /\ race'.marker = rm
      /\ IF ~race.on /\ race.marker # NoMark
         THEN DOMAIN gates' = {} /\ race'.gate = NoMark
         ELSE gates' = gates /\ race'.gate = race.gate
      /\ race' \in [on : BOOLEAN, marker : Markers \cup {NoMark}, pos : Places \cup {Nowhere},
                    gate : Gates \cup {NoMark}]
  <2>1. CASE ~race.on /\ race.marker # NoMark
    <3>1. gates' = Gone(gates, race.gate) /\ race' = [NoRace EXCEPT !.pos = race.pos]
      BY <2>1 DEF UpdateCheckpoints
    <3>2. DOMAIN gates' = {}  BY <3>1 DEF Gone, MarksInv, RacePlaced
    <3>3. race.pos \in Places \cup {Nowhere} /\ race.on = FALSE  BY <2>1 DEF MarksInv, MarksTypeOK
    <3>4. QED  BY <2>1, <3>1, <3>2, <3>3 DEF NoRace
  <2>2. CASE ~(~race.on /\ race.marker # NoMark)
    <3>1. gates' = gates /\ race' = [race EXCEPT !.marker = IF makesRace THEN n ELSE race.marker]
      BY <2>2 DEF UpdateCheckpoints, MarksInv, MarksTypeOK
    <3>2. (IF makesRace THEN n ELSE race.marker) = rm  BY <2>2
    <3>3. rm \in Markers \cup {NoMark}  BY DEF MarksInv, MarksTypeOK
    <3> HIDE DEF rm, makesRace
    <3>4. QED  BY <2>2, <3>1, <3>2, <3>3 DEF MarksInv, MarksTypeOK
  <2>3. QED  BY <2>1, <2>2
<1>4. /\ DOMAIN first = (DOMAIN radar \ {checkpoint.marker}) \cup ({cm} \ {NoMark})
      /\ cm \notin DOMAIN radar \ {checkpoint.marker}
      /\ \A h \in DOMAIN radar \ {checkpoint.marker} : first[h] = radar[h]
      /\ checkpoint.on => IF makes THEN first[cm] = checkpoint.pos ELSE first[cm] = radar[cm]
  <2>1. /\ checkpoint.marker # NoMark => checkpoint.marker \in DOMAIN radar
        /\ NoMark \notin DOMAIN radar
    BY HandlesHeld
  <2>2. CASE makes
    <3>1. first = Added(radar, m, checkpoint.pos) /\ cm = m  BY <2>2
    <3>2. m \notin DOMAIN radar  BY <2>2 DEF UpdateCheckpoints
    <3>3. QED  BY <2>1, <2>2, <3>1, <3>2 DEF Added
  <2>3. CASE ~checkpoint.on
    <3>1. first = Gone(radar, checkpoint.marker) /\ cm = NoMark  BY <2>3
    <3>2. QED  BY <2>1, <2>3, <3>1 DEF Gone
  <2>4. CASE checkpoint.on /\ ~makes
    <3>1. first = radar /\ cm = checkpoint.marker /\ cm # NoMark  BY <2>4
    <3>2. QED  BY <2>1, <2>4, <3>1
  <2>5. QED  BY <2>2, <2>3, <2>4
<1>5. /\ radar' = CASE makesRace -> Added(first, n, race.pos)
                    [] ~race.on -> Gone(first, race.marker)
                    [] OTHER -> first
      /\ makesRace => n \notin DOMAIN first
  BY DEF UpdateCheckpoints
<1>6. race.marker # NoMark => race.marker \in DOMAIN first /\ race.marker # cm
  BY <1>4, HandlesHeld
<1>7. NoMark \notin DOMAIN first  BY <1>4, HandlesHeld
<1> HIDE DEF first
<1>8. /\ DOMAIN radar' = (DOMAIN first \ {race.marker}) \cup ({rm} \ {NoMark})
      /\ rm \notin DOMAIN first \ {race.marker}
      /\ \A h \in DOMAIN first \ {race.marker} : radar'[h] = first[h]
      /\ race.on => IF makesRace THEN radar'[rm] = race.pos ELSE radar'[rm] = first[rm]
  <2>1. CASE makesRace
    <3>1. radar' = Added(first, n, race.pos) /\ rm = n /\ n \notin DOMAIN first  BY <1>5, <2>1
    <3>2. QED  BY <1>7, <2>1, <3>1 DEF Added
  <2>2. CASE ~race.on
    <3>1. radar' = Gone(first, race.marker) /\ rm = NoMark  BY <1>5, <2>2
    <3>2. QED  BY <1>7, <2>2, <3>1 DEF Gone
  <2>3. CASE race.on /\ ~makesRace
    <3>1. radar' = first /\ rm = race.marker /\ rm # NoMark  BY <1>5, <2>3
    <3>2. QED  BY <1>6, <2>3, <3>1
  <2>4. QED  BY <2>1, <2>2, <2>3
<1>9. (cm # NoMark <=> checkpoint.on) /\ (rm # NoMark <=> race.on)  OBVIOUS
<1>10. /\ ~makes /\ checkpoint.on => cm = checkpoint.marker
       /\ ~makesRace /\ race.on => rm = race.marker
  OBVIOUS
<1>11. cm # NoMark => cm # race.marker /\ cm # rm
  BY <1>4, <1>6, <1>8
<1> HIDE DEF cm, rm, makes, makesRace
<1>12. HandlesApart'
  <2>1. {cm, rm} \cap (DOMAIN radar \ {checkpoint.marker, race.marker}) = {}
    BY <1>4, <1>8
  <2>2. DOMAIN radar' = (DOMAIN radar \ {checkpoint.marker, race.marker}) \cup ({cm, rm} \ {NoMark})
    BY <1>4, <1>8, <1>11
  <2>3. QED  BY <1>1, <1>2, <1>3, <1>11, <2>1, <2>2, NewHandles
<1>13. MarksTypeOK'
  <2>1. DOMAIN radar' \subseteq Markers
    <3>1. {cm, rm} \ {NoMark} \subseteq Markers  BY <1>2, <1>3
    <3>2. QED  BY <1>4, <1>8, <3>1 DEF MarksInv, MarksTypeOK
  <2>2. DOMAIN gates' \subseteq Gates  BY <1>3 DEF MarksInv, MarksTypeOK
  <2>3. QED  BY <1>1, <1>2, <1>3, <2>1, <2>2 DEF MarksInv, MarksTypeOK
<1>14. IconsPlaced'
  <2>1. \A h \in DOMAIN radar \ {checkpoint.marker, race.marker} : radar'[h] = radar[h]  BY <1>4, <1>8
  <2>2. QED  BY <1>1, <2>1, IconsAlone
<1>15. CheckpointPlaced'
  <2>1. checkpoint.on => cm \in DOMAIN first \ {race.marker} /\ radar'[cm] = first[cm]
    BY <1>4, <1>8, <1>9, <1>11
  <2>2. checkpoint.on => radar'[cm] = IF makes THEN checkpoint.pos ELSE radar[cm]  BY <1>4, <2>1
  <2>3. placed.checkpoint # Nowhere => radar'[cm] = placed.checkpoint
    BY <1>9, <1>10, <2>2 DEF MarksInv, CheckpointPlaced
  <2>4. QED  BY <1>1, <1>2, <1>9, <2>3 DEF MarksInv, CheckpointPlaced
<1>16. RacePlaced'
  <2>1. race.on /\ ~makesRace => radar'[rm] = radar[rm]
    BY <1>4, <1>6, <1>8, <1>9, <1>10, HandlesHeld
  <2>2. placed.race # Nowhere => radar'[rm] = placed.race
    BY <1>8, <1>9, <1>10, <2>1 DEF MarksInv, RacePlaced
  <2>3. QED  BY <1>1, <1>3, <1>9, <2>2 DEF MarksInv, RacePlaced
<1>17. QED  BY <1>12, <1>13, <1>14, <1>15, <1>16 DEF MarksInv

LEMMA MarksStep == MarksInv /\ (MarksNext \/ UNCHANGED markVars) => MarksInv'
<1> SUFFICES ASSUME MarksInv, MarksNext \/ UNCHANGED markVars PROVE MarksInv'  OBVIOUS
<1>1. CASE MarksNext
  BY <1>1, SetIconKeeps, DisableIconKeeps, SetCheckpointKeeps, DisableCheckpointKeeps, SetRaceKeeps,
     DisableRaceKeeps, UpdateKeeps DEF MarksNext
<1>2. CASE UNCHANGED markVars
  BY <1>2 DEF markVars, MarksInv, MarksTypeOK, HandlesApart, Handles, IconsPlaced, CheckpointPlaced,
              RacePlaced
<1>3. QED  BY <1>1, <1>2

-----------------------------------------------------------------------------
(* Removed buildings *)

RemovalsInv ==
    /\ DOMAIN building = Buildings
    /\ removals \in Seq([model : {b.model : b \in Buildings} \cup {AnyModel}, at : Places])
    /\ RemovedStayAway

LEMMA RemovalsStart == WorldMarksInit => RemovalsInv
  BY DEF WorldMarksInit, RemovalsInv, RemovedStayAway

LEMMA RemovalsStep == RemovalsInv /\ (BuildingsNext \/ UNCHANGED removalVars) => RemovalsInv'
<1> SUFFICES ASSUME RemovalsInv, BuildingsNext \/ UNCHANGED removalVars PROVE RemovalsInv'  OBVIOUS
<1> DEFINE RemovalOrders == [model : {b.model : b \in Buildings} \cup {AnyModel}, at : Places]
<1>1. ASSUME NEW b \in Buildings, LoadObjectInstance(b) PROVE RemovalsInv'
  BY <1>1 DEF LoadObjectInstance, TakenAway, RemovalsInv, RemovedStayAway
<1>2. ASSUME NEW b \in Buildings, Unload(b) PROVE RemovalsInv'
  BY <1>2 DEF Unload, RemovalsInv, RemovedStayAway
<1>3. ASSUME NEW r \in RemovalOrders, RemoveBuilding(r) PROVE RemovalsInv'
  <2>1. removals' = Append(removals, r) /\ removals \in Seq(RemovalOrders)  BY <1>3 DEF RemoveBuilding, RemovalsInv
  <2> HIDE DEF RemovalOrders
  <2>2. /\ removals' \in Seq(RemovalOrders) /\ Len(removals') = Len(removals) + 1 /\ Len(removals) \in Nat
        /\ removals'[Len(removals) + 1] = r
        /\ \A i \in 1 .. Len(removals) : removals'[i] = removals[i]
    BY <2>1
  <2>3. \A b \in Buildings : building'[b] = IF Sinks(b, r) THEN "sunk" ELSE building[b]
    BY <1>3 DEF RemoveBuilding
  <2>4. ASSUME NEW b \in Buildings, building'[b] = "standing", NEW i \in 1 .. Len(removals'),
               removals'[i].model = b.model, removals'[i].at = b.at
        PROVE  FALSE
    <3>1. building[b] = "standing" /\ ~Sinks(b, r)  BY <2>3, <2>4
    <3>2. CASE i \in 1 .. Len(removals)  BY <2>2, <2>4, <3>1, <3>2 DEF RemovalsInv, RemovedStayAway
    <3>3. CASE i = Len(removals) + 1  BY <2>2, <2>4, <3>1, <3>3 DEF Sinks
    <3>4. QED  BY <2>2, <2>4, <3>2, <3>3
  <2>5. DOMAIN building' = Buildings  BY <1>3 DEF RemoveBuilding
  <2>6. QED  BY <2>2, <2>4, <2>5 DEF RemovalsInv, RemovedStayAway, RemovalOrders
<1>4. CASE ForgetRemovals  BY <1>4 DEF ForgetRemovals, RemovalsInv, RemovedStayAway
<1>5. CASE UNCHANGED removalVars  BY <1>5 DEF removalVars, RemovalsInv, RemovedStayAway
<1>6. QED  BY <1>1, <1>2, <1>3, <1>4, <1>5 DEF BuildingsNext

-----------------------------------------------------------------------------
(* Objects *)

Texture == Skins \cup {Bare}
ObjectType ==
    [entity : Props \cup {NoProp}, model : Shapes \cup {Bare}, tex : [Surfaces -> Texture],
     ride : RideIds \cup {Aside}]
ObjectsTypeOK ==
    /\ m_pObjects \in [ObjectIds -> ObjectType]
    /\ skinRefs \in [Skins -> Int] /\ orphans \in [Skins -> Int]
    /\ attachedTo \in [Props -> Rides \cup {Aside, Wearer}]
    /\ rideAt \in [RideIds -> Rides \cup {Aside}]
    /\ processed \in BOOLEAN

(* Who has an entity of the game has a shape, and nobody else has it. *)
EntitiesApart ==
    /\ \A i \in ObjectIds : m_pObjects[i].entity # NoProp => m_pObjects[i].model \in Shapes
    /\ \A i, j \in ObjectIds : m_pObjects[i].entity # NoProp /\ m_pObjects[i].entity = m_pObjects[j].entity
                                 => i = j

(* A vehicle has one id. *)
RidesApart == \A v, w \in RideIds : rideAt[v] # Aside /\ rideAt[v] = rideAt[w] => v = w

(* What was lent is written down once, with what belongs there; all other  *)
(* materials show their own.                                               *)
LentOnce ==
    /\ DOMAIN resetEntries \subseteq Nat
    /\ \A k \in DOMAIN resetEntries :
          resetEntries[k].texture = Own(resetEntries[k].model, resetEntries[k].at)
    /\ \A j, k \in DOMAIN resetEntries :
          resetEntries[j].model = resetEntries[k].model /\ resetEntries[j].at = resetEntries[k].at => j = k
    /\ \A shape \in Shapes, s \in Surfaces :
          Entries(shape, s) = {} => paint[shape][s] = Own(shape, s)

RefsBalanced == \A t \in Skins : skinRefs[t] = Held(t) + orphans[t]
ShownAsLent ==
    /\ rendering = NoProp => paint = Plain /\ resetEntries = <<>>
    /\ \A i \in Found(rendering) : rendering # NoProp =>
          LET o == m_pObjects[i] IN
          paint = [Plain EXCEPT ![o.model] =
                      [s \in Surfaces |-> IF o.tex[s] = Bare THEN @[s] ELSE o.tex[s]]]
DrawingSound == LentOnce /\ ShownAsLent

ObjectsInv ==
    /\ ObjectsTypeOK /\ EntitiesApart /\ RidesApart
    /\ RefsBalanced /\ DrawingSound /\ ObjectsFollow

(* The objects' entities are in the game's world, the vehicles not aside.  *)
LEMMA EntityType == \A o \in ObjectType : o.entity # NoProp => o.entity \in Props
  BY DEF ObjectType

-----------------------------------------------------------------------------
(* Who shows a texture *)

Showing(objects, t) == {p \in ObjectIds \X Surfaces : objects[p[1]].tex[p[2]] = t}

LEMMA ShowingFinite == ASSUME NEW f, NEW t PROVE IsFiniteSet(Showing(f, t)) /\ Cardinality(Showing(f, t)) \in Nat
<1>1. IsFiniteSet(ObjectIds \X Surfaces)  BY FS_Product, ObjectsAssumption
<1>2. Showing(f, t) \in SUBSET (ObjectIds \X Surfaces)  BY DEF Showing
<1>3. QED  BY <1>1, <1>2, FS_Subset, FS_CardinalityType

(* One object shows a texture on as many pairs as it has materials of it.  *)
LEMMA ShownByOne ==
    ASSUME NEW f, NEW t, NEW i \in ObjectIds
    PROVE  LET S == {p \in Showing(f, t) : p[1] = i}
           IN  IsFiniteSet(S) /\ Cardinality(S) = InUse(f[i].tex, t) /\ InUse(f[i].tex, t) \in Nat
<1> DEFINE S == {p \in Showing(f, t) : p[1] = i}
           T == {s \in Surfaces : f[i].tex[s] = t}
           g == [s \in T |-> <<i, s>>]
<1>1. IsFiniteSet(T)  BY ObjectsAssumption, FS_Subset
<1>2. g \in [T -> S]  BY DEF Showing
<1>3. \A r, s \in T : g[r] = g[s] => r = s  OBVIOUS
<1>4. \A p \in S : \E s \in T : g[s] = p
  <2> SUFFICES ASSUME NEW p \in S PROVE \E s \in T : g[s] = p  OBVIOUS
  <2>1. p \in ObjectIds \X Surfaces /\ p[1] = i /\ f[p[1]].tex[p[2]] = t  BY DEF Showing
  <2>2. p = <<i, p[2]>> /\ p[2] \in T  BY <2>1
  <2>3. QED  BY <2>2
<1>5. ExistsBijection(T, S)
  BY <1>2, <1>3, <1>4 DEF ExistsBijection, Bijection, Injection, Surjection, IsInjective
<1>6. IsFiniteSet(S) /\ Cardinality(S) = Cardinality(T) /\ Cardinality(T) \in Nat
  BY <1>1, <1>5, FS_Bijection, FS_CardinalityType
<1>7. QED  BY <1>6 DEF InUse

(* Another object in place of one changes the count by what the two show.  *)
LEMMA ShownInstead ==
    ASSUME NEW f, NEW g, NEW i \in ObjectIds, NEW t,
           \A j \in ObjectIds \ {i} : g[j].tex = f[j].tex
    PROVE  Cardinality(Showing(g, t)) = Cardinality(Showing(f, t)) - InUse(f[i].tex, t) + InUse(g[i].tex, t)
<1> DEFINE Of(h) == {p \in Showing(h, t) : p[1] = i}
           Others == Showing(f, t) \ Of(f)
<1>1. Showing(g, t) \ Of(g) = Others  BY DEF Showing
<1>2. ASSUME NEW h PROVE
        /\ Cardinality(Showing(h, t) \ Of(h)) = Cardinality(Showing(h, t)) - InUse(h[i].tex, t)
        /\ Cardinality(Showing(h, t)) \in Nat /\ InUse(h[i].tex, t) \in Nat
  <2>1. IsFiniteSet(Showing(h, t)) /\ Cardinality(Showing(h, t)) \in Nat  BY ShowingFinite
  <2>2. Cardinality(Of(h)) = InUse(h[i].tex, t) /\ InUse(h[i].tex, t) \in Nat  BY ShownByOne
  <2>3. Showing(h, t) \cap Of(h) = Of(h)  OBVIOUS
  <2>4. Cardinality(Showing(h, t) \ Of(h)) = Cardinality(Showing(h, t)) - Cardinality(Showing(h, t) \cap Of(h))
    BY <2>1, FS_Difference
  <2>5. QED  BY <2>1, <2>2, <2>3, <2>4
<1> HIDE DEF Of
<1>3. QED
  <2>1. Cardinality(Showing(f, t) \ Of(f)) = Cardinality(Showing(g, t) \ Of(g))  BY <1>1
  <2>2. /\ Cardinality(Showing(f, t) \ Of(f)) = Cardinality(Showing(f, t)) - InUse(f[i].tex, t)
        /\ Cardinality(Showing(f, t)) \in Nat /\ InUse(f[i].tex, t) \in Nat
    BY <1>2
  <2>3. /\ Cardinality(Showing(g, t) \ Of(g)) = Cardinality(Showing(g, t)) - InUse(g[i].tex, t)
        /\ Cardinality(Showing(g, t)) \in Nat /\ InUse(g[i].tex, t) \in Nat
    BY <1>2
  <2>4. PICK a : a = Cardinality(Showing(f, t) \ Of(f))  OBVIOUS
  <2>5. PICK b, c : b = Cardinality(Showing(f, t)) /\ c = Cardinality(Showing(g, t))  OBVIOUS
  <2>6. PICK x, y : x = InUse(f[i].tex, t) /\ y = InUse(g[i].tex, t)  OBVIOUS
  <2>7. a = b - x /\ b \in Nat /\ x \in Nat  BY <2>2, <2>4, <2>5, <2>6
  <2>8. a = c - y /\ c \in Nat /\ y \in Nat  BY <2>1, <2>3, <2>4, <2>5, <2>6
  <2>9. c = b - x + y  BY <2>7, <2>8
  <2>10. QED  BY <2>5, <2>6, <2>9

LEMMA HeldIsShowing == \A t : Held(t) = Cardinality(Showing(m_pObjects, t))
  BY DEF Held, Showing

(* No material shows a texture that the object does not have. *)
LEMMA BareShowsNone == \A t \in Skins : InUse(NoObject.tex, t) = 0
<1> TAKE t \in Skins
<1>1. {s \in Surfaces : NoObject.tex[s] = t} = {}  BY ObjectsAssumption DEF NoObject
<1>2. QED  BY <1>1, FS_EmptySet DEF InUse

-----------------------------------------------------------------------------
(* The counts of references *)

(* Someone else under an id: what was held before is given back. *)
LEMMA ReplacedBalanced ==
    ASSUME ObjectsTypeOK, RefsBalanced, NEW i \in ObjectIds, NEW o \in ObjectType,
           m_pObjects' = [m_pObjects EXCEPT ![i] = o], orphans' = orphans,
           skinRefs' = [t \in Skins |-> GivenBack(m_pObjects[i].tex)[t] + InUse(o.tex, t)]
    PROVE  RefsBalanced' /\ skinRefs' \in [Skins -> Int]
<1> SUFFICES ASSUME NEW t \in Skins
             PROVE  skinRefs'[t] = Held(t)' + orphans'[t] /\ skinRefs'[t] \in Int
  BY DEF RefsBalanced
<1>1. PICK f : f = m_pObjects  OBVIOUS
<1>2. PICK g : g = m_pObjects'  OBVIOUS
<1>3. \A j \in ObjectIds \ {i} : g[j].tex = f[j].tex  BY <1>1, <1>2 DEF ObjectsTypeOK
<1>4. g[i].tex = o.tex  BY <1>2 DEF ObjectsTypeOK
<1>5. Cardinality(Showing(g, t)) = Cardinality(Showing(f, t)) - InUse(f[i].tex, t) + InUse(o.tex, t)
  <2>1. Cardinality(Showing(g, t)) = Cardinality(Showing(f, t)) - InUse(f[i].tex, t) + InUse(g[i].tex, t)
    BY <1>3, ShownInstead
  <2>2. QED  BY <2>1, <1>4
<1>6. Held(t) = Cardinality(Showing(f, t))  BY <1>1, HeldIsShowing
<1>7. Held(t)' = Cardinality(Showing(g, t))  BY <1>2 DEF Held, Showing
<1>8. /\ Cardinality(Showing(f, t)) \in Nat /\ Cardinality(Showing(g, t)) \in Nat  BY ShowingFinite
<1>9. InUse(f[i].tex, t) \in Nat /\ InUse(g[i].tex, t) \in Nat  BY ShownByOne
<1>10. skinRefs'[t] = skinRefs[t] - InUse(f[i].tex, t) + InUse(o.tex, t)  BY <1>1 DEF GivenBack
<1>11. skinRefs[t] = Held(t) + orphans[t] /\ orphans[t] \in Int  BY DEF RefsBalanced, ObjectsTypeOK
<1>12. QED  BY <1>4, <1>5, <1>6, <1>7, <1>8, <1>9, <1>10, <1>11

(* A material painted over: its texture is held and no longer shown. *)
LEMMA PaintedBalanced ==
    ASSUME ObjectsTypeOK, RefsBalanced, NEW i \in ObjectIds, NEW s \in Surfaces, NEW t \in Texture,
           ScrSetPlayerObjectMaterial(i, s, t)
    PROVE  RefsBalanced' /\ skinRefs' \in [Skins -> Int]
<1> SUFFICES ASSUME NEW u \in Skins
             PROVE  skinRefs'[u] = Held(u)' + orphans'[u] /\ skinRefs'[u] \in Int
  <2>1. DOMAIN skinRefs' = Skins /\ skinRefs' = [u \in Skins |-> skinRefs'[u]]
    BY DEF ScrSetPlayerObjectMaterial
  <2>2. QED  BY <2>1 DEF RefsBalanced
<1> DEFINE before == m_pObjects[i].tex[s]
           S == Showing(m_pObjects, u)
           x == <<i, s>>
<1>1. \A j \in ObjectIds, r \in Surfaces :
         m_pObjects'[j].tex[r] = IF j = i /\ r = s THEN t ELSE m_pObjects[j].tex[r]
  BY DEF ScrSetPlayerObjectMaterial, ObjectsTypeOK, ObjectType
<1>2. Held(u)' = Cardinality({p \in ObjectIds \X Surfaces : m_pObjects'[p[1]].tex[p[2]] = u})
  BY DEF Held
<1>3. {p \in ObjectIds \X Surfaces : m_pObjects'[p[1]].tex[p[2]] = u}
         = IF t = u THEN S \cup {x} ELSE S \ {x}
  <2>1. \A p \in ObjectIds \X Surfaces :
           m_pObjects'[p[1]].tex[p[2]] = IF p = x THEN t ELSE m_pObjects[p[1]].tex[p[2]]
    BY <1>1
  <2>2. QED  BY <2>1 DEF Showing
<1>4. x \in S <=> before = u  BY DEF Showing
<1>5. PICK f : f = m_pObjects  OBVIOUS
<1>6. IsFiniteSet(S) /\ Cardinality(S) \in Nat  BY <1>5, ShowingFinite
<1>7. PICK Q : Q = S  OBVIOUS
<1>8. /\ Cardinality(Q \cup {x}) = IF x \in Q THEN Cardinality(Q) ELSE Cardinality(Q) + 1
      /\ Cardinality(Q \ {x}) = IF x \in Q THEN Cardinality(Q) - 1 ELSE Cardinality(Q)
  BY <1>6, <1>7, FS_AddElement, FS_RemoveElement
<1>9. Held(u) = Cardinality(Q)  BY <1>7, HeldIsShowing
<1>10. skinRefs'[u] = IF u = t THEN skinRefs[u] + 1 ELSE skinRefs[u]
  BY DEF ScrSetPlayerObjectMaterial
<1>11. orphans'[u] = IF u = before THEN orphans[u] + 1 ELSE orphans[u]
  BY DEF ScrSetPlayerObjectMaterial
<1>12. skinRefs[u] = Held(u) + orphans[u] /\ orphans[u] \in Int  BY DEF RefsBalanced, ObjectsTypeOK
<1>13. Held(u)' = IF t = u THEN Cardinality(Q \cup {x}) ELSE Cardinality(Q \ {x})
  BY <1>2, <1>3, <1>7
<1> HIDE DEF before, S, x
<1>14. PICK a, b, c : /\ a = Cardinality(Q) /\ b = Cardinality(Q \cup {x}) /\ c = Cardinality(Q \ {x})
  OBVIOUS
<1>15. x \in Q <=> before = u  BY <1>4, <1>7
<1>16. a \in Nat /\ b = (IF before = u THEN a ELSE a + 1) /\ c = (IF before = u THEN a - 1 ELSE a)
  BY <1>6, <1>7, <1>8, <1>14, <1>15
<1>17. Held(u) = a /\ Held(u)' = IF t = u THEN b ELSE c  BY <1>9, <1>13, <1>14
<1>18. QED  BY <1>10, <1>11, <1>12, <1>16, <1>17

-----------------------------------------------------------------------------
(* Drawing *)

LEMMA SequenceOfSet ==
    ASSUME NEW S, IsFiniteSet(S)
    PROVE  /\ Cardinality(S) \in Nat
           /\ SetToSeq(S) \in [1 .. Cardinality(S) -> S]
           /\ \A j, k \in 1 .. Cardinality(S) : SetToSeq(S)[j] = SetToSeq(S)[k] => j = k
           /\ \A x \in S : \E k \in 1 .. Cardinality(S) : SetToSeq(S)[k] = x
<1> DEFINE n == Cardinality(S)
<1>1. n \in Nat /\ ExistsBijection(1 .. n, S)  BY FS_CardinalityType
<1>2. \E f \in [1 .. n -> S] : IsInjective(f)  BY <1>1 DEF ExistsBijection, Bijection, Injection
<1>3. PICK f : f = SetToSeq(S)  OBVIOUS
<1>4. f \in [1 .. n -> S] /\ IsInjective(f)  BY <1>2, <1>3 DEF SetToSeq
<1>5. f \in Injection(1 .. n, S)  BY <1>4 DEF Injection
<1>6. Cardinality(1 .. n) = n  BY <1>1, FS_Interval
<1>7. f \in Surjection(1 .. n, S)  BY <1>5, <1>6, FS_Injection
<1>8. QED  BY <1>1, <1>3, <1>4, <1>7 DEF IsInjective, Surjection

(* Nothing is drawn: what the objects do does not show. *)
LEMMA IdleDrawing ==
    ASSUME DrawingSound, rendering = NoProp, UNCHANGED <<paint, resetEntries, rendering>>
    PROVE  DrawingSound'
  BY DEF DrawingSound, LentOnce, ShownAsLent, Entries

LEMMA MaxOfOne == \A k \in Nat : Max({k}) = k
  BY DEF Max
LEMMA MinOfOne == \A k \in Nat : Min({k}) = k
  BY DEF Min

LEMMA EndRestores == ASSUME DrawingSound, RenderEnds PROVE DrawingSound'
<1>1. paint' = Plain
  <2>1. ASSUME NEW shape \in Shapes, NEW s \in Surfaces, Entries(shape, s) # {}
        PROVE  resetEntries[Max(Entries(shape, s))].texture = Own(shape, s)
    <3>1. PICK k \in DOMAIN resetEntries : k \in Entries(shape, s)  BY <2>1 DEF Entries
    <3>2. k \in Nat  BY <3>1 DEF DrawingSound, LentOnce
    <3>3. Entries(shape, s) = {k}  BY <3>1 DEF Entries, DrawingSound, LentOnce
    <3>4. Max(Entries(shape, s)) = k  BY <3>2, <3>3, MaxOfOne
    <3>5. QED  BY <3>1, <3>4 DEF Entries, DrawingSound, LentOnce
  <2>2. ASSUME NEW shape \in Shapes, NEW s \in Surfaces, Entries(shape, s) = {}
        PROVE  paint[shape][s] = Own(shape, s)
    BY <2>2 DEF DrawingSound, LentOnce
  <2> DEFINE To(shape, s) == IF Entries(shape, s) = {} THEN paint[shape][s]
                             ELSE resetEntries[Max(Entries(shape, s))].texture
  <2>3. paint' = [shape \in Shapes |-> [s \in Surfaces |-> To(shape, s)]]  BY DEF RenderEnds
  <2>4. \A shape \in Shapes, s \in Surfaces : To(shape, s) = Own(shape, s)  BY <2>1, <2>2
  <2> HIDE DEF To
  <2>5. QED  BY <2>3, <2>4 DEF Plain
<1>2. resetEntries' = <<>> /\ rendering' = NoProp  BY DEF RenderEnds
<1>3. LentOnce'  BY <1>1, <1>2 DEF LentOnce, Entries, Plain
<1>4. QED  BY <1>1, <1>2, <1>3 DEF DrawingSound, ShownAsLent

LEMMA BeginLends ==
    ASSUME ObjectsTypeOK, EntitiesApart, DrawingSound, rendering = NoProp,
           NEW e \in Props, RenderBegins(e)
    PROVE  DrawingSound'
<1> USE ObjectsAssumption
<1>1. paint = Plain /\ resetEntries = <<>>  BY DEF DrawingSound, ShownAsLent
<1>2. rendering' = e /\ e # NoProp /\ Found(rendering)' = Found(e)  BY DEF RenderBegins, Found
<1>3. CASE Found(e) = {}
  <2>1. UNCHANGED <<paint, resetEntries>>  BY <1>3 DEF RenderBegins
  <2>2. QED  BY <1>2, <1>3, <2>1 DEF DrawingSound, LentOnce, ShownAsLent, Entries
<1>4. CASE Found(e) # {}
  <2>1. PICK i \in ObjectIds : i \in Found(e)  BY <1>4 DEF Found
  <2>2. Found(e) = {i} /\ i \in Nat  BY <1>2, <2>1 DEF Found, EntitiesApart
  <2>3. Min(Found(e)) = i  BY <2>2, MinOfOne
  <2> DEFINE itself == m_pObjects[i]
             lent == {s \in Surfaces : itself.tex[s] # Bare}
             n == Cardinality(lent)
             q == SetToSeq(lent)
             F == [k \in 1 .. n |-> [model |-> itself.model, at |-> q[k], texture |-> paint[itself.model][q[k]]]]
  <2>4. itself.model \in Shapes  BY <1>2, <2>1 DEF Found, EntitiesApart
  <2>5. /\ n \in Nat /\ q \in [1 .. n -> lent]
        /\ \A j, k \in 1 .. n : q[j] = q[k] => j = k
        /\ \A s \in lent : \E k \in 1 .. n : q[k] = s
    <3>1. IsFiniteSet(lent)  BY FS_Subset
    <3>2. QED  BY <3>1, SequenceOfSet
  <2>6. resetEntries' = F
    <3>1. resetEntries' = <<>> \o F  BY <1>1, <1>4, <2>3 DEF RenderBegins
    <3>2. F \in Seq({F[k] : k \in 1 .. n})
      <4> DEFINE R == {F[k] : k \in 1 .. n}
      <4>1. F \in [1 .. n -> R]  OBVIOUS
      <4> HIDE DEF F, R, n
      <4>2. QED  BY <4>1, <2>5
    <3>3. QED  BY <3>1, <3>2, ConcatEmptySeq
  <2>7. paint' = [paint EXCEPT ![itself.model] = [s \in Surfaces |-> IF s \in lent THEN itself.tex[s] ELSE @[s]]]
    BY <1>4, <2>3 DEF RenderBegins
  <2>8. ShownAsLent'
    <3>1. paint' = [Plain EXCEPT ![itself.model] =
                       [s \in Surfaces |-> IF itself.tex[s] = Bare THEN @[s] ELSE itself.tex[s]]]
      BY <1>1, <2>4, <2>7
    <3>2. m_pObjects' = m_pObjects  BY DEF RenderBegins
    <3>3. QED  BY <1>2, <2>2, <3>1, <3>2 DEF ShownAsLent
  <2>9. LentOnce'
    <3>1. DOMAIN resetEntries' \subseteq Nat /\ DOMAIN resetEntries' = 1 .. n  BY <2>5, <2>6
    <3>2. \A k \in 1 .. n : /\ resetEntries'[k].model = itself.model /\ resetEntries'[k].at = q[k]
                             /\ resetEntries'[k].texture = Own(itself.model, q[k])
                             /\ q[k] \in Surfaces
      BY <1>1, <2>4, <2>5, <2>6 DEF Plain
    <3>3. ASSUME NEW shape \in Shapes, NEW s \in Surfaces, Entries(shape, s)' = {}
          PROVE  paint'[shape][s] = Own(shape, s)
      <4>1. shape # itself.model \/ s \notin lent
        <5> SUFFICES ASSUME shape = itself.model, s \in lent PROVE FALSE  OBVIOUS
        <5>1. PICK k \in 1 .. n : q[k] = s  BY <2>5
        <5>2. k \in Entries(shape, s)'  BY <3>1, <3>2, <5>1 DEF Entries
        <5>3. QED  BY <3>3, <5>2
      <4>2. QED  BY <1>1, <2>4, <2>7, <4>1 DEF Plain
    <3> HIDE DEF n, q, itself
    <3>4. QED  BY <2>5, <3>1, <3>2, <3>3 DEF LentOnce
  <2>10. QED  BY <2>8, <2>9 DEF DrawingSound
<1>5. QED  BY <1>3, <1>4

-----------------------------------------------------------------------------
(* The operations *)

AfterCreate(i, o) ==
    /\ m_pObjects' = [m_pObjects EXCEPT ![i] = o]
    /\ attachedTo' = [e \in Props |-> IF e = m_pObjects[i].entity THEN Aside ELSE attachedTo[e]]

(* Another object under an id, or none: the entity it had is let go. *)
LEMMA ReplacedKeeps ==
    ASSUME ObjectsTypeOK, EntitiesApart, ObjectsFollow, NEW i \in ObjectIds, NEW o \in ObjectType,
           AfterCreate(i, o), rideAt' = rideAt,
           o.entity # NoProp => o.model \in Shapes,
           o.entity \notin {m_pObjects[j].entity : j \in ObjectIds \ {i}} \ {NoProp},
           o = NoObject \/ ~processed', processed' => processed
    PROVE  /\ m_pObjects' \in [ObjectIds -> ObjectType]
           /\ attachedTo' \in [Props -> Rides \cup {Aside, Wearer}]
           /\ EntitiesApart' /\ ObjectsFollow'
<1> USE ObjectsAssumption
<1>1. m_pObjects' \in [ObjectIds -> ObjectType]  BY DEF AfterCreate, ObjectsTypeOK
<1>2. attachedTo' \in [Props -> Rides \cup {Aside, Wearer}]  BY DEF AfterCreate, ObjectsTypeOK
<1>3. \A j \in ObjectIds : m_pObjects'[j] = IF j = i THEN o ELSE m_pObjects[j]
  BY DEF AfterCreate, ObjectsTypeOK
<1>4. \A e \in Props : attachedTo'[e] = IF e = m_pObjects[i].entity THEN Aside ELSE attachedTo[e]
  BY DEF AfterCreate
<1>5. EntitiesApart'
  <2>1. \A j \in ObjectIds \ {i} : o.entity # NoProp => m_pObjects[j].entity # o.entity  OBVIOUS
  <2>2. QED  BY <1>3, <2>1 DEF EntitiesApart
<1>6. ASSUME NEW e \in Props, attachedTo'[e] \in Rides
      PROVE  \E j \in ObjectIds : /\ m_pObjects'[j].entity = e /\ m_pObjects'[j].ride # Aside
                                  /\ rideAt[m_pObjects'[j].ride] = attachedTo'[e]
  <2>1. e # m_pObjects[i].entity /\ attachedTo'[e] = attachedTo[e]  BY <1>4, <1>6
  <2>2. PICK j \in ObjectIds : /\ m_pObjects[j].entity = e /\ m_pObjects[j].ride # Aside
                              /\ rideAt[m_pObjects[j].ride] = attachedTo[e]
    BY <1>6, <2>1 DEF ObjectsFollow
  <2>3. QED  BY <1>3, <2>1, <2>2
<1>7. ASSUME processed', NEW j \in ObjectIds, m_pObjects'[j].entity # NoProp,
             m_pObjects'[j].ride # Aside, rideAt[m_pObjects'[j].ride] # Aside
      PROVE  attachedTo'[m_pObjects'[j].entity] \in {rideAt[m_pObjects'[j].ride], Wearer}
  <2>1. j # i  BY <1>3, <1>7 DEF NoObject
  <2>4. processed  BY <1>7
  <2>2. m_pObjects[j].entity # m_pObjects[i].entity /\ m_pObjects[j].entity \in Props
    BY <1>3, <1>7, <2>1, EntityType DEF EntitiesApart, ObjectsTypeOK
  <2>3. QED  BY <1>3, <1>4, <1>7, <2>1, <2>2, <2>4 DEF ObjectsFollow
<1>8. QED  BY <1>1, <1>2, <1>5, <1>6, <1>7 DEF ObjectsFollow

LEMMA NoObjectType == NoObject \in ObjectType
  BY DEF NoObject, ObjectType, Texture

LEMMA CreateKeeps ==
    ASSUME ObjectsInv, rendering = NoProp, NEW i \in ObjectIds, NEW e \in Props \cup {NoProp},
           NEW shape \in Shapes, NEW tex \in [Surfaces -> Texture], NEW ride \in RideIds \cup {Aside},
           ScrCreateObject(i, e, shape, tex, ride)
    PROVE  ObjectsInv'
<1> DEFINE o == [entity |-> e, model |-> shape, tex |-> tex, ride |-> ride]
<1>1. o \in ObjectType  BY DEF ObjectType
<1>2. AfterCreate(i, o)  BY DEF AfterCreate, ScrCreateObject
<1>3. /\ m_pObjects' \in [ObjectIds -> ObjectType]
      /\ attachedTo' \in [Props -> Rides \cup {Aside, Wearer}]
      /\ EntitiesApart' /\ ObjectsFollow'
  <2>1. o.entity = e /\ o.model = shape  OBVIOUS
  <2>2. /\ e \notin {m_pObjects[j].entity : j \in ObjectIds \ {i}} \ {NoProp}
        /\ rideAt' = rideAt /\ processed' = FALSE
    BY DEF ScrCreateObject
  <2> HIDE DEF o
  <2>3. QED  BY <1>1, <1>2, <2>1, <2>2, ReplacedKeeps DEF ObjectsInv
<1>4. RefsBalanced' /\ skinRefs' \in [Skins -> Int]
  <2>1. o.tex = tex  OBVIOUS
  <2>2. /\ m_pObjects' = [m_pObjects EXCEPT ![i] = o] /\ orphans' = orphans
        /\ skinRefs' = [t \in Skins |-> GivenBack(m_pObjects[i].tex)[t] + InUse(o.tex, t)]
    BY <2>1 DEF ScrCreateObject
  <2> HIDE DEF o
  <2>3. QED  BY <1>1, <2>2, ReplacedBalanced DEF ObjectsInv
<1>5. DrawingSound'  BY IdleDrawing DEF ObjectsInv, ScrCreateObject
<1>6. QED
  BY <1>3, <1>4, <1>5 DEF ScrCreateObject, ObjectsInv, ObjectsTypeOK, RidesApart

LEMMA DestroyKeeps ==
    ASSUME ObjectsInv, rendering = NoProp, NEW i \in ObjectIds, ScrDestroyObject(i)
    PROVE  ObjectsInv'
<1>1. AfterCreate(i, NoObject)  BY DEF AfterCreate, ScrDestroyObject, Destroyed
<1>2. /\ m_pObjects' \in [ObjectIds -> ObjectType]
      /\ attachedTo' \in [Props -> Rides \cup {Aside, Wearer}]
      /\ EntitiesApart' /\ ObjectsFollow'
  <2>1. NoObject.entity = NoProp  BY DEF NoObject
  <2>2. rideAt' = rideAt /\ processed' = processed  BY DEF ScrDestroyObject
  <2>3. QED  BY <1>1, <2>1, <2>2, NoObjectType, ReplacedKeeps DEF ObjectsInv
<1>3. RefsBalanced' /\ skinRefs' \in [Skins -> Int]
  <2>1. /\ m_pObjects' = [m_pObjects EXCEPT ![i] = NoObject] /\ orphans' = orphans
        /\ skinRefs' = GivenBack(m_pObjects[i].tex)
    BY DEF ScrDestroyObject, Destroyed
  <2>2. \A t \in Skins : GivenBack(m_pObjects[i].tex)[t] \in Int
    <3> TAKE t \in Skins
    <3>1. PICK f : f = m_pObjects  OBVIOUS
    <3>2. InUse(f[i].tex, t) \in Nat  BY ShownByOne
    <3>3. QED  BY <3>1, <3>2 DEF GivenBack, ObjectsInv, ObjectsTypeOK
  <2>3. skinRefs' = [t \in Skins |-> GivenBack(m_pObjects[i].tex)[t] + InUse(NoObject.tex, t)]
    <3>1. \A t \in Skins : GivenBack(m_pObjects[i].tex)[t] + InUse(NoObject.tex, t)
                              = GivenBack(m_pObjects[i].tex)[t]
      BY <2>2, BareShowsNone
    <3>2. skinRefs' = [t \in Skins |-> GivenBack(m_pObjects[i].tex)[t]]  BY <2>1 DEF GivenBack
    <3>3. QED  BY <3>1, <3>2
  <2>4. QED  BY <2>1, <2>3, NoObjectType, ReplacedBalanced DEF ObjectsInv
<1>4. DrawingSound'  BY IdleDrawing DEF ObjectsInv, ScrDestroyObject
<1>5. QED
  BY <1>2, <1>3, <1>4 DEF ScrDestroyObject, ObjectsInv, ObjectsTypeOK, RidesApart

LEMMA NobodyShows ==
    /\ NoObject.entity = NoProp
    /\ \A t \in Skins, s \in Surfaces : NoObject.tex[s] # t
  BY ObjectsAssumption DEF NoObject

(* A new game: nobody shows anything. *)
LEMMA ResetKeeps == ASSUME ObjectsInv, rendering = NoProp, ResetObjectPool PROVE ObjectsInv'
<1> USE ObjectsAssumption
<1>1. \A i \in ObjectIds : m_pObjects'[i] = NoObject  BY DEF ResetObjectPool
<1>2. \A e \in Props : attachedTo'[e] = Aside  BY DEF ResetObjectPool
<1>3. EntitiesApart'  BY <1>1 DEF EntitiesApart, NoObject
<1>4. ObjectsFollow'
  <2>1. Aside \notin Rides  OBVIOUS
  <2>2. QED  BY <1>1, <1>2, <2>1, NobodyShows DEF ObjectsFollow
<1>5. RefsBalanced' /\ skinRefs' \in [Skins -> Int]
  <2> SUFFICES ASSUME NEW t \in Skins
               PROVE  skinRefs'[t] = Held(t)' + orphans'[t] /\ skinRefs'[t] \in Int
    <3>1. skinRefs' = [t \in Skins |-> skinRefs[t] - Held(t)]  BY DEF ResetObjectPool
    <3>2. QED  BY <3>1 DEF RefsBalanced
  <2>1. {p \in ObjectIds \X Surfaces : m_pObjects'[p[1]].tex[p[2]] = t} = {}
    BY <1>1, NobodyShows
  <2>2. Held(t)' = 0  BY <2>1, FS_EmptySet DEF Held
  <2>3. PICK f : f = m_pObjects  OBVIOUS
  <2>4. Held(t) \in Nat  BY <2>3, HeldIsShowing, ShowingFinite
  <2>5. skinRefs[t] = Held(t) + orphans[t] /\ orphans[t] \in Int
    BY DEF ObjectsInv, RefsBalanced, ObjectsTypeOK
  <2>6. skinRefs'[t] = skinRefs[t] - Held(t) /\ orphans'[t] = orphans[t]  BY DEF ResetObjectPool
  <2>7. QED  BY <2>2, <2>4, <2>5, <2>6
<1>6. DrawingSound'  BY IdleDrawing DEF ObjectsInv, ResetObjectPool
<1>7. ObjectsTypeOK'
  <2>1. m_pObjects' \in [ObjectIds -> ObjectType]  BY NoObjectType DEF ResetObjectPool
  <2>2. attachedTo' \in [Props -> Rides \cup {Aside, Wearer}]  BY DEF ResetObjectPool
  <2>3. QED  BY <1>5, <2>1, <2>2 DEF ResetObjectPool, ObjectsInv, ObjectsTypeOK
<1>8. QED  BY <1>3, <1>4, <1>5, <1>6, <1>7 DEF ResetObjectPool, ObjectsInv, RidesApart

LEMMA PaintKeeps ==
    ASSUME ObjectsInv, rendering = NoProp, NEW i \in ObjectIds, NEW s \in Surfaces, NEW t \in Texture,
           ScrSetPlayerObjectMaterial(i, s, t)
    PROVE  ObjectsInv'
<1>1. RefsBalanced' /\ skinRefs' \in [Skins -> Int]  BY PaintedBalanced DEF ObjectsInv
<1>2. \A j \in ObjectIds : /\ m_pObjects'[j] \in ObjectType
                            /\ m_pObjects'[j].entity = m_pObjects[j].entity
                            /\ m_pObjects'[j].model = m_pObjects[j].model
                            /\ m_pObjects'[j].ride = m_pObjects[j].ride
  BY DEF ScrSetPlayerObjectMaterial, ObjectsInv, ObjectsTypeOK, ObjectType
<1>3. EntitiesApart'  BY <1>2 DEF ObjectsInv, EntitiesApart
<1>4. ObjectsFollow'
  <2>1. attachedTo' = attachedTo /\ rideAt' = rideAt /\ processed' = processed
    BY DEF ScrSetPlayerObjectMaterial
  <2>2. QED  BY <1>2, <2>1 DEF ObjectsInv, ObjectsFollow
<1>5. DrawingSound'  BY IdleDrawing DEF ObjectsInv, ScrSetPlayerObjectMaterial
<1>6. ObjectsTypeOK'
  <2>1. m_pObjects' \in [ObjectIds -> ObjectType]
    BY <1>2 DEF ScrSetPlayerObjectMaterial, ObjectsInv, ObjectsTypeOK
  <2>2. orphans' \in [Skins -> Int]  BY DEF ScrSetPlayerObjectMaterial, ObjectsInv, ObjectsTypeOK
  <2>3. QED  BY <1>1, <2>1, <2>2 DEF ScrSetPlayerObjectMaterial, ObjectsInv, ObjectsTypeOK
<1>7. QED
  BY <1>1, <1>3, <1>4, <1>5, <1>6 DEF ScrSetPlayerObjectMaterial, ObjectsInv, RidesApart

(* What only attaches leaves the textures alone. *)
LEMMA TexturesAlone ==
    ASSUME ObjectsInv, rendering = NoProp,
           UNCHANGED <<m_pObjects, skinRefs, orphans, paint, resetEntries, rendering>>
    PROVE  EntitiesApart' /\ RefsBalanced' /\ DrawingSound'
  BY IdleDrawing DEF ObjectsInv, EntitiesApart, RefsBalanced, Held

LEMMA AttachKeeps ==
    ASSUME ObjectsInv, rendering = NoProp, NEW i \in ObjectIds, ScrAttachObjectToPlayer(i)
    PROVE  ObjectsInv'
<1> USE ObjectsAssumption
<1> DEFINE e == m_pObjects[i].entity
<1>1. e \in Props  BY DEF ScrAttachObjectToPlayer, ObjectsInv, ObjectsTypeOK, ObjectType
<1>2. \A f \in Props : attachedTo'[f] = IF f = e THEN Wearer ELSE attachedTo[f]
  BY DEF ScrAttachObjectToPlayer, ObjectsInv, ObjectsTypeOK
<1>3. UNCHANGED <<m_pObjects, skinRefs, orphans, paint, resetEntries, rendering, rideAt, processed>>
  BY DEF ScrAttachObjectToPlayer
<1>4. EntitiesApart' /\ RefsBalanced' /\ DrawingSound'  BY <1>3, TexturesAlone
<1>5. ObjectsTypeOK'  BY <1>1, <1>3 DEF ScrAttachObjectToPlayer, ObjectsInv, ObjectsTypeOK
<1> HIDE DEF e
<1>6. Wearer \notin Rides  OBVIOUS
<1>7. ObjectsFollow'
  <2>1. \A j \in ObjectIds : m_pObjects[j].entity # NoProp => m_pObjects[j].entity \in Props
    BY EntityType DEF ObjectsInv, ObjectsTypeOK
  <2>2. QED  BY <1>2, <1>3, <1>6, <2>1 DEF ObjectsInv, ObjectsFollow
<1>8. QED  BY <1>3, <1>4, <1>5, <1>7 DEF ObjectsInv, RidesApart

LEMMA FollowKeeps == ASSUME ObjectsInv, rendering = NoProp, ProcessObjects PROVE ObjectsInv'
<1> USE ObjectsAssumption
<1>1. UNCHANGED <<m_pObjects, skinRefs, orphans, paint, resetEntries, rendering, rideAt>> /\ processed'
  BY DEF ProcessObjects
<1>2. EntitiesApart' /\ RefsBalanced' /\ DrawingSound'  BY <1>1, TexturesAlone
<1>3. ASSUME NEW e \in Props, NEW i \in Follows(e)
      PROVE  /\ i \in ObjectIds /\ m_pObjects[i].entity = e /\ e # NoProp
             /\ m_pObjects[i].ride \in RideIds /\ rideAt[m_pObjects[i].ride] \in Rides
             /\ attachedTo'[e] = rideAt[m_pObjects[i].ride]
  <2>1. /\ i \in ObjectIds /\ m_pObjects[i].entity = e /\ e # NoProp /\ m_pObjects[i].ride # Aside
        /\ rideAt[m_pObjects[i].ride] # Aside
    BY <1>3 DEF Follows
  <2>2. m_pObjects[i].ride \in RideIds  BY <2>1 DEF ObjectsInv, ObjectsTypeOK, ObjectType
  <2>3. Follows(e) = {i}  BY <1>3, <2>1 DEF Follows, ObjectsInv, EntitiesApart
  <2>4. attachedTo'[e] = rideAt[m_pObjects[CHOOSE j \in Follows(e) : TRUE].ride]
    BY <2>3 DEF ProcessObjects
  <2>5. (CHOOSE j \in Follows(e) : TRUE) = i  BY <2>3
  <2>6. QED  BY <2>1, <2>2, <2>4, <2>5 DEF ObjectsInv, ObjectsTypeOK
<1>4. \A e \in Props : Follows(e) = {} => attachedTo'[e] = attachedTo[e]  BY DEF ProcessObjects
<1>5. ObjectsTypeOK'
  <2>1. \A e \in Props : attachedTo'[e] \in Rides \cup {Aside, Wearer}
    BY <1>3, <1>4 DEF ObjectsInv, ObjectsTypeOK
  <2>2. attachedTo' = [e \in Props |-> attachedTo'[e]]  BY DEF ProcessObjects
  <2>3. attachedTo' \in [Props -> Rides \cup {Aside, Wearer}]  BY <2>1, <2>2
  <2>4. QED  BY <1>1, <2>3 DEF ObjectsInv, ObjectsTypeOK
<1>6. ASSUME NEW e \in Props, attachedTo'[e] \in Rides
      PROVE  \E i \in ObjectIds : /\ m_pObjects[i].entity = e /\ m_pObjects[i].ride # Aside
                                  /\ rideAt[m_pObjects[i].ride] = attachedTo'[e]
  <2>1. CASE Follows(e) = {}  BY <1>4, <1>6, <2>1 DEF ObjectsInv, ObjectsFollow
  <2>2. CASE Follows(e) # {}
    <3>1. PICK i : i \in Follows(e)  BY <2>2
    <3>2. m_pObjects[i].ride # Aside  BY <3>1 DEF Follows
    <3>3. QED  BY <1>3, <3>1, <3>2
  <2>3. QED  BY <2>1, <2>2
<1>7. ASSUME NEW i \in ObjectIds, m_pObjects[i].entity # NoProp, m_pObjects[i].ride # Aside,
             rideAt[m_pObjects[i].ride] # Aside
      PROVE  attachedTo'[m_pObjects[i].entity] \in {rideAt[m_pObjects[i].ride], Wearer}
  <2>1. PICK e \in Props : e = m_pObjects[i].entity
    BY <1>7, EntityType DEF ObjectsInv, ObjectsTypeOK
  <2>2. CASE attachedTo[e] = Aside
    <3>1. i \in Follows(e)  BY <1>7, <2>1, <2>2 DEF Follows
    <3>2. QED  BY <1>3, <2>1, <3>1
  <2>3. CASE attachedTo[e] # Aside
    <3>1. Follows(e) = {}  BY <2>3 DEF Follows
    <3>2. attachedTo'[e] = attachedTo[e]  BY <1>4, <3>1
    <3>3. CASE attachedTo[e] \in Rides
      <4>1. PICK j \in ObjectIds : m_pObjects[j].entity = e /\ rideAt[m_pObjects[j].ride] = attachedTo[e]
        BY <3>3 DEF ObjectsInv, ObjectsFollow
      <4>2. j = i  BY <1>7, <2>1, <4>1 DEF ObjectsInv, EntitiesApart
      <4>3. QED  BY <2>1, <3>2, <4>1, <4>2
    <3>4. QED  BY <2>1, <2>3, <3>2, <3>3 DEF ObjectsInv, ObjectsTypeOK
  <2>4. QED  BY <2>2, <2>3
<1>8. ObjectsFollow'  BY <1>1, <1>6, <1>7 DEF ObjectsFollow
<1>9. QED  BY <1>1, <1>2, <1>5, <1>8 DEF ObjectsInv, RidesApart

LEMMA RideKeeps ==
    ASSUME ObjectsInv, rendering = NoProp, NEW v \in RideIds, NEW r \in Rides \cup {Aside}, RideChanges(v, r)
    PROVE  ObjectsInv'
<1> USE ObjectsAssumption
<1>1. UNCHANGED <<m_pObjects, skinRefs, orphans, paint, resetEntries, rendering>> /\ ~processed'
  BY DEF RideChanges
<1>2. EntitiesApart' /\ RefsBalanced' /\ DrawingSound'  BY <1>1, TexturesAlone
<1>3. \A w \in RideIds : rideAt'[w] = IF w = v THEN r ELSE rideAt[w]
  BY DEF RideChanges, ObjectsInv, ObjectsTypeOK
<1>4. \A e \in Props : attachedTo'[e] = IF attachedTo[e] = rideAt[v] THEN Aside ELSE attachedTo[e]
  BY DEF RideChanges, LetGo
<1>5. ObjectsTypeOK'
  <2>1. rideAt' \in [RideIds -> Rides \cup {Aside}]  BY DEF RideChanges, ObjectsInv, ObjectsTypeOK
  <2>2. attachedTo' \in [Props -> Rides \cup {Aside, Wearer}]
    BY DEF RideChanges, LetGo, ObjectsInv, ObjectsTypeOK
  <2>3. QED  BY <1>1, <2>1, <2>2 DEF RideChanges, ObjectsInv, ObjectsTypeOK
<1>6. RidesApart'  BY <1>3 DEF RideChanges, ObjectsInv, RidesApart
<1>7. ObjectsFollow'
  <2>1. ASSUME NEW e \in Props, attachedTo'[e] \in Rides
        PROVE  \E i \in ObjectIds : /\ m_pObjects[i].entity = e /\ m_pObjects[i].ride # Aside
                                    /\ rideAt'[m_pObjects[i].ride] = attachedTo'[e]
    <3>1. attachedTo'[e] = attachedTo[e] /\ attachedTo[e] # rideAt[v]  BY <1>4, <2>1
    <3>2. PICK i \in ObjectIds : /\ m_pObjects[i].entity = e /\ m_pObjects[i].ride # Aside
                                /\ rideAt[m_pObjects[i].ride] = attachedTo[e]
      BY <2>1, <3>1 DEF ObjectsInv, ObjectsFollow
    <3>3. m_pObjects[i].ride \in RideIds /\ m_pObjects[i].ride # v
      BY <3>1, <3>2 DEF ObjectsInv, ObjectsTypeOK, ObjectType
    <3>4. QED  BY <1>3, <3>1, <3>2, <3>3
  <2>2. QED  BY <1>1, <2>1 DEF ObjectsFollow
<1>8. QED  BY <1>2, <1>5, <1>6, <1>7 DEF ObjectsInv

LEMMA WearerKeeps == ASSUME ObjectsInv, rendering = NoProp, WearerGoes PROVE ObjectsInv'
<1> USE ObjectsAssumption
<1>1. UNCHANGED <<m_pObjects, skinRefs, orphans, paint, resetEntries, rendering, rideAt>> /\ ~processed'
  BY DEF WearerGoes
<1>2. EntitiesApart' /\ RefsBalanced' /\ DrawingSound'  BY <1>1, TexturesAlone
<1>3. \A e \in Props : attachedTo'[e] \in {attachedTo[e], Aside}  BY DEF WearerGoes, LetGo
<1>4. attachedTo' \in [Props -> Rides \cup {Aside, Wearer}]
  BY DEF WearerGoes, LetGo, ObjectsInv, ObjectsTypeOK
<1>5. ObjectsTypeOK'  BY <1>1, <1>4 DEF WearerGoes, ObjectsInv, ObjectsTypeOK
<1>6. ObjectsFollow'
  <2>1. \A e \in Props : attachedTo'[e] \in Rides => attachedTo'[e] = attachedTo[e]  BY <1>3
  <2>2. QED  BY <1>1, <2>1 DEF ObjectsInv, ObjectsFollow
<1>7. QED  BY <1>1, <1>2, <1>5, <1>6 DEF ObjectsInv, RidesApart

LEMMA DrawingKeeps ==
    ASSUME ObjectsInv, DrawingSound', UNCHANGED <<m_pObjects, skinRefs, orphans, attachedTo, rideAt, processed>>
    PROVE  ObjectsInv'
<1>1. ObjectsTypeOK' /\ EntitiesApart' /\ RidesApart'
  BY DEF ObjectsInv, ObjectsTypeOK, EntitiesApart, RidesApart
<1>2. RefsBalanced'  BY DEF ObjectsInv, RefsBalanced, Held
<1>3. ObjectsFollow'  BY DEF ObjectsInv, ObjectsFollow
<1>4. QED  BY <1>1, <1>2, <1>3 DEF ObjectsInv

LEMMA ObjectsStart == ObjectsInit => ObjectsInv
<1> SUFFICES ASSUME ObjectsInit PROVE ObjectsInv  OBVIOUS
<1> USE ObjectsAssumption
<1>1. \A i \in ObjectIds : m_pObjects[i] = NoObject  BY DEF ObjectsInit
<1>2. ObjectsTypeOK  BY NoObjectType DEF ObjectsInit, ObjectsTypeOK
<1>3. EntitiesApart /\ RidesApart  BY <1>1 DEF ObjectsInit, EntitiesApart, RidesApart, NoObject
<1>4. RefsBalanced
  <2> SUFFICES ASSUME NEW t \in Skins PROVE skinRefs[t] = Held(t) + orphans[t]  BY DEF RefsBalanced
  <2>1. {p \in ObjectIds \X Surfaces : m_pObjects[p[1]].tex[p[2]] = t} = {}  BY <1>1, NobodyShows
  <2>2. Held(t) = 0  BY <2>1, FS_EmptySet DEF Held
  <2>3. QED  BY <2>2 DEF ObjectsInit
<1>5. LentOnce  BY DEF ObjectsInit, LentOnce, Entries, Plain
<1>6. ShownAsLent  BY DEF ObjectsInit, ShownAsLent
<1>7. ObjectsFollow  BY <1>1 DEF ObjectsInit, ObjectsFollow, NoObject
<1>8. QED  BY <1>2, <1>3, <1>4, <1>5, <1>6, <1>7 DEF ObjectsInv, DrawingSound

LEMMA ObjectsStep == ObjectsInv /\ ObjectsNext => ObjectsInv'
<1> SUFFICES ASSUME ObjectsInv, ObjectsNext PROVE ObjectsInv'  OBVIOUS
<1>1. CASE rendering # NoProp /\ RenderEnds
  <2>1. DrawingSound'  BY <1>1, EndRestores DEF ObjectsInv
  <2>2. QED  BY <1>1, <2>1, DrawingKeeps DEF RenderEnds
<1>2. ASSUME rendering = NoProp, SkinsNext PROVE ObjectsInv'
  <2>1. ASSUME NEW i \in ObjectIds, NEW e \in Props \cup {NoProp}, NEW shape \in Shapes,
               NEW tex \in [Surfaces -> Skins \cup {Bare}], ScrCreateObject(i, e, shape, tex, Aside)
        PROVE  ObjectsInv'
    BY <1>2, <2>1, CreateKeeps DEF Texture
  <2>2. ASSUME NEW e \in Props, RenderBegins(e) PROVE ObjectsInv'
    <3>1. DrawingSound'  BY <1>2, <2>2, BeginLends DEF ObjectsInv
    <3>2. QED  BY <2>2, <3>1, DrawingKeeps DEF RenderBegins
  <2>3. QED  BY <1>2, <2>1, <2>2, PaintKeeps DEF SkinsNext, Texture
<1>3. ASSUME rendering = NoProp, RidesNext PROVE ObjectsInv'
  <2>1. NoObject.tex \in [Surfaces -> Texture]  BY DEF NoObject, Texture
  <2>2. QED  BY <1>3, <2>1, CreateKeeps, AttachKeeps, RideKeeps, FollowKeeps, WearerKeeps DEF RidesNext
<1>4. QED  BY <1>1, <1>2, <1>3, ResetKeeps, DestroyKeeps DEF ObjectsNext

LEMMA ObjectsHold == ObjectsInv => MaterialsReturned /\ ObjectsFollow
  BY DEF ObjectsInv, RefsBalanced, DrawingSound, ShownAsLent, MaterialsReturned

LEMMA ObjectsAlone == ObjectsInv /\ UNCHANGED objectVars => ObjectsInv'
<1> SUFFICES ASSUME ObjectsInv, UNCHANGED objectVars PROVE ObjectsInv'  OBVIOUS
<1>1. DrawingSound'  BY DEF objectVars, ObjectsInv, DrawingSound, LentOnce, ShownAsLent, Entries, Found
<1>2. QED  BY <1>1, DrawingKeeps DEF objectVars

(* The map and the world show what the server put there, through every     *)
(* order, frame, drawing, loading and restart; for any number of icons,    *)
(* objects, materials, textures, vehicles and buildings.                   *)
THEOREM WorldShown == ClientSpec => []WorldAsOrdered
<1>1. ClientInit => MarksInv /\ RemovalsInv /\ ObjectsInv
  BY MarksStart, RemovalsStart, ObjectsStart DEF ClientInit
<1>2. MarksInv /\ [ClientNext]_clientVars => MarksInv'
  <2>1. [ClientNext]_clientVars => MarksNext \/ UNCHANGED markVars
    BY DEF ClientNext, clientVars, worldMarksVars, WorldMarksNext
  <2>2. QED  BY <2>1, MarksStep
<1>3. RemovalsInv /\ [ClientNext]_clientVars => RemovalsInv'
  <2>1. [ClientNext]_clientVars => BuildingsNext \/ UNCHANGED removalVars
    BY DEF ClientNext, clientVars, worldMarksVars, WorldMarksNext, removalVars
  <2>2. QED  BY <2>1, RemovalsStep
<1>4. ObjectsInv /\ [ClientNext]_clientVars => ObjectsInv'
  <2>1. [ClientNext]_clientVars => ObjectsNext \/ UNCHANGED objectVars
    BY DEF ClientNext, clientVars
  <2>2. QED  BY <2>1, ObjectsStep, ObjectsAlone
<1>5. MarksInv /\ RemovalsInv /\ ObjectsInv => WorldAsOrdered
  BY MarksHold, ObjectsHold DEF RemovalsInv, WorldAsOrdered
<1>6. QED  BY <1>1, <1>2, <1>3, <1>4, <1>5, PTL DEF ClientSpec

-----------------------------------------------------------------------------
(* The pictures drawn off screen *)

NumberOn == {<<Kind.font, ThisOrder.number>>}
RegionOn == {<<"RU", ThisOrder.region>>}
Drawings == {"start", "idle", "plate", "region", "rasters", "texts", "drawn", "posed", "rendered", "crashed"}

(* What is held at each step of a plate's drawing. *)
TextsOfPlate ==
    /\ rasters = [number |-> rasters.number, region |-> rasters.region]
    /\ drawing \in {"start", "idle", "plate", "posed", "rendered"} => rasters = NoTexts
    /\ drawing \in {"region", "rasters", "texts", "drawn"} => ThisOrder.type \in DOMAIN KnownPlates
    /\ drawing \in {"region", "rasters"} => Kind.region /\ rasters.number \in {Void, NumberOn}
    /\ drawing = "region" => rasters.region = Void
    /\ drawing = "rasters" => rasters.region \in {Void, RegionOn}
    /\ drawing = "texts" => rasters.number = NumberOn /\ (Kind.region => rasters.region = RegionOn)

ShowsOrder(p) ==
    /\ p.sprite = Kind.sprite
    /\ p.texts = [t \in Kind.shown |-> IF t = "number" THEN NumberOn ELSE RegionOn]

ResultOfPlate ==
    /\ drawing # "drawn" => target = Void
    /\ drawing = "drawn" => IF m_bReady THEN ShowsOrder(target) \/ (failures > 0 /\ target = [blank |-> TRUE])
                            ELSE lit = 0
    /\ lit \in {0, 1} /\ (drawing \notin {"drawn", "rendered"} => lit = 0) /\ (drawing = "rendered" => lit = 1)

Alike(o, p) ==
    /\ p.model = o.model \/ p.model \in {537, 538, 18631}
    /\ p.paint \in {o.paint, NoPaint}
    /\ p.paint = NoPaint => o.paint = NoPaint \/ NoPaint \in {o.paint[1], o.paint[2]}

BorrowedForShot ==
    /\ drawing \notin {"posed", "rendered"} => borrowed \cap Taken = {}
    /\ drawing \in {"posed", "rendered"} => Alike(posed.asked, posed.shown)
    /\ failures = 0 => borrowed \subseteq Taken /\ pngFrom = "file"

PicturesInv ==
    /\ failures \in Nat /\ drawing \in Drawings
    /\ PlateAsOrdered /\ ShotAsAsked /\ LostToColour
    /\ TextsOfPlate /\ ResultOfPlate /\ BorrowedForShot

LEMMA PicturesHold == PicturesInv => PicturesTrue
<1> SUFFICES ASSUME PicturesInv PROVE PicturesTrue  OBVIOUS
<1>1. NothingLeft
  BY DEF PicturesInv, TextsOfPlate, ResultOfPlate, BorrowedForShot, NothingLeft
<1>2. QED  BY <1>1 DEF PicturesInv, PicturesTrue

LEMMA PicturesStart == OffscreenInit => PicturesInv
<1> SUFFICES ASSUME OffscreenInit PROVE PicturesInv  OBVIOUS
<1>1. failures \in Nat /\ drawing \in Drawings  BY DEF OffscreenInit, Drawings
<1>2. PlateAsOrdered /\ ShotAsAsked  BY DEF OffscreenInit, NoPlate, PlateAsOrdered, ShotAsAsked
<1>3. TextsOfPlate  BY DEF OffscreenInit, NoTexts, TextsOfPlate
<1>4. ResultOfPlate /\ BorrowedForShot /\ LostToColour
  BY DEF OffscreenInit, ResultOfPlate, BorrowedForShot, LostToColour
<1>5. QED  BY <1>1, <1>2, <1>3, <1>4 DEF PicturesInv

(* A call that fails is counted. *)
LEMMA WorksCounts ==
    ASSUME failures \in Nat, NEW ok \in BOOLEAN, Works(ok)
    PROVE  failures' \in Nat /\ failures' >= failures /\ (~ok => failures' > 0) /\ (ok => failures' = failures)
BY DEF Works

(* What was handed over stays true, however many calls fail. *)
LEMMA HandedStays ==
    ASSUME failures \in Nat, failures' \in Nat, failures' >= failures
    PROVE  /\ PlateAsOrdered /\ handed' = handed => PlateAsOrdered'
           /\ ShotAsAsked /\ shots' = shots => ShotAsAsked'
<1>1. failures > 0 => failures' > 0  OBVIOUS
<1>2. ASSUME PlateAsOrdered, handed' = handed PROVE PlateAsOrdered'  BY <1>1, <1>2 DEF PlateAsOrdered
<1>3. ASSUME ShotAsAsked, shots' = shots PROVE ShotAsAsked'  BY <1>1, <1>3 DEF ShotAsAsked
<1>4. QED  BY <1>2, <1>3

(* What does not touch the shots' things. *)
LEMMA ShotsApart ==
    ASSUME BorrowedForShot, failures \in Nat, failures' \in Nat, failures' >= failures, UNCHANGED shotVars,
           drawing \notin {"posed", "rendered"}, drawing' \notin {"posed", "rendered"},
           failures' = 0 => pngFrom' = pngFrom
    PROVE  BorrowedForShot'
<1>1. failures' = 0 => failures = 0  OBVIOUS
<1>2. QED  BY <1>1 DEF BorrowedForShot, shotVars

LEMMA PlatesKnown ==
    \A k \in DOMAIN KnownPlates :
        KnownPlates[k].shown \subseteq {"number", "region"} /\ ("region" \in KnownPlates[k].shown => KnownPlates[k].region)
<1> TAKE k \in DOMAIN KnownPlates
<1>1. k \in 1 .. 8  BY DEF KnownPlates
<1>2. QED
  BY <1>1 DEF KnownPlates, Plate, RuPlate, UaPlate, BuPlate, KzPlate, RuPolicePlate, TaxiPlate, RuGosPlate, NoPlatePlate

(* The plate that is done leaves the next one, or none. *)
LEMMA PlateDone ==
    ASSUME NextPlate, rasters' = NoTexts, target' = Void, lit' = 0
    PROVE  TextsOfPlate' /\ ResultOfPlate' /\ drawing' \in {"idle", "plate"}
<1>1. drawing' \in {"idle", "plate"}  BY DEF NextPlate
<1>2. TextsOfPlate'  BY <1>1 DEF TextsOfPlate, NoTexts
<1>3. ResultOfPlate'  BY <1>1 DEF ResultOfPlate
<1>4. QED  BY <1>1, <1>2, <1>3

LEMMA PlatesBegin ==
    ASSUME PicturesInv, Initialise \/ QueuePlate \/ ProcessPlates \/ Unknown
    PROVE  PicturesInv'
<1>1. /\ failures \in Nat /\ drawing \in Drawings /\ PlateAsOrdered /\ ShotAsAsked /\ LostToColour
      /\ TextsOfPlate /\ ResultOfPlate /\ BorrowedForShot
  BY DEF PicturesInv
<1>2. CASE Initialise
  <2>1. /\ drawing = "start" /\ drawing' = "idle" /\ UNCHANGED <<plateVars, shotVars, lit>>
        /\ failures' \in Nat /\ failures' >= failures
    <3>1. PICK made \in 0 .. SceneParts : Works(made = SceneParts)  BY <1>2 DEF Initialise, InitialiseScene
    <3>2. QED  BY <1>1, <1>2, <3>1, WorksCounts DEF Initialise
  <2>2. PlateAsOrdered' /\ ShotAsAsked'  BY <1>1, <2>1, HandedStays DEF plateVars, shotVars
  <2>3. TextsOfPlate'  BY <1>1, <2>1 DEF TextsOfPlate, plateVars, NoTexts
  <2>4. ResultOfPlate'  BY <1>1, <2>1 DEF ResultOfPlate, plateVars
  <2>5. BorrowedForShot'  BY <1>1, <2>1, ShotsApart DEF plateVars
  <2>6. QED  BY <2>1, <2>2, <2>3, <2>4, <2>5 DEF PicturesInv, Drawings, LostToColour
<1>3. CASE QueuePlate
  <2>1. /\ drawing = "idle" /\ UNCHANGED <<shotVars, rasters, target, pngFrom, handed, drawing, lit, failures>>
    BY <1>3 DEF QueuePlate
  <2>2. PlateAsOrdered' /\ ShotAsAsked'  BY <1>1, <2>1, HandedStays DEF shotVars
  <2>3. TextsOfPlate'  BY <1>1, <2>1 DEF TextsOfPlate, NoTexts
  <2>4. ResultOfPlate'  BY <1>1, <2>1 DEF ResultOfPlate
  <2>5. BorrowedForShot'  BY <1>1, <2>1, ShotsApart
  <2>6. QED  BY <1>1, <2>1, <2>2, <2>3, <2>4, <2>5 DEF PicturesInv, LostToColour
<1>4. CASE ProcessPlates
  <2>1. /\ drawing = "idle" /\ drawing' = "plate" /\ shots' = NoPlate
        /\ UNCHANGED <<rasters, target, pngFrom, handed, posed, borrowed, lit, failures>>
    BY <1>4 DEF ProcessPlates, plateVars
  <2>2. PlateAsOrdered'  BY <1>1, <2>1, HandedStays
  <2>3. ShotAsAsked'  BY <2>1 DEF ShotAsAsked, NoPlate
  <2>4. TextsOfPlate'  BY <1>1, <2>1 DEF TextsOfPlate, NoTexts
  <2>5. ResultOfPlate'  BY <1>1, <2>1 DEF ResultOfPlate
  <2>6. BorrowedForShot'  BY <1>1, <2>1 DEF BorrowedForShot
  <2>7. QED  BY <1>1, <2>1, <2>2, <2>3, <2>4, <2>5, <2>6 DEF PicturesInv, Drawings, LostToColour
<1>5. CASE Unknown
  <2>1. /\ drawing = "plate" /\ NextPlate /\ UNCHANGED <<shotVars, rasters, target, pngFrom, handed, lit, failures>>
    BY <1>5 DEF Unknown
  <2>2. PlateAsOrdered' /\ ShotAsAsked'  BY <1>1, <2>1, HandedStays DEF shotVars
  <2>3. rasters' = NoTexts /\ target' = Void /\ lit' = 0  BY <1>1, <2>1 DEF TextsOfPlate, ResultOfPlate
  <2>4. TextsOfPlate' /\ ResultOfPlate' /\ drawing' \in {"idle", "plate"}  BY <2>1, <2>3, PlateDone
  <2>5. BorrowedForShot'  BY <1>1, <2>1, <2>4, ShotsApart
  <2>6. QED  BY <1>1, <2>1, <2>2, <2>4, <2>5 DEF PicturesInv, Drawings, LostToColour
<1>6. QED  BY <1>2, <1>3, <1>4, <1>5

(* A text goes onto a clean bitmap, and its raster is that text or none.   *)
LEMMA RasterMade ==
    ASSUME failures \in Nat, NEW font, NEW words, NEW text \in {"number", "region"},
           RenderText(font, words), NEW outcome \in Outcomes, GetRWRasterFromBitmap(text, outcome),
           rasters = [number |-> rasters.number, region |-> rasters.region]
    PROVE  /\ failures' \in Nat /\ failures' >= failures
           /\ outcome # "made" => failures' > 0
           /\ failures' = 0 => pngFrom' \in {pngFrom, "file"}
           /\ rasters' = [number |-> rasters'.number, region |-> rasters'.region]
           /\ \A t \in {"number", "region"} : t # text => rasters'[t] = rasters[t]
           /\ rasters'[text] = IF outcome = "made" THEN {<<font, words>>} ELSE Void
<1>1. PICK ok \in BOOLEAN : ok = (outcome = "made")  OBVIOUS
<1>2. /\ failures' \in Nat /\ failures' >= failures /\ (outcome # "made" => failures' > 0)
  BY <1>1, WorksCounts DEF GetRWRasterFromBitmap
<1>3. failures' = 0 => pngFrom' \in {pngFrom, "file"}
  <2>1. CASE outcome = "made"  BY <2>1 DEF GetRWRasterFromBitmap
  <2>2. CASE outcome = "noPNG"  BY <2>2 DEF GetRWRasterFromBitmap
  <2>3. CASE outcome \in {"noImage", "noRaster"}
    <3>1. failures' > 0 /\ failures' \in Nat  BY <1>2, <2>3
    <3>2. QED  BY <3>1
  <2>4. QED  BY <2>1, <2>2, <2>3 DEF Outcomes
<1>4. PICK new : new = IF outcome = "made" THEN {<<font, words>>} ELSE Void  OBVIOUS
<1>5. rasters' = [rasters EXCEPT ![text] = new]
  BY <1>4 DEF GetRWRasterFromBitmap, RenderText
<1>6. QED  BY <1>2, <1>3, <1>4, <1>5

LEMMA TextsDrawn ==
    ASSUME PicturesInv, ProcessNumber \/ ProcessRegion \/ CheckRasters
    PROVE  PicturesInv'
<1>1. /\ failures \in Nat /\ drawing \in Drawings /\ PlateAsOrdered /\ ShotAsAsked /\ LostToColour
      /\ TextsOfPlate /\ ResultOfPlate /\ BorrowedForShot
      /\ rasters = [number |-> rasters.number, region |-> rasters.region]
  BY DEF PicturesInv, TextsOfPlate
<1>2. CASE ProcessNumber
  <2>1. /\ drawing = "plate" /\ ThisOrder.type \in DOMAIN KnownPlates
        /\ UNCHANGED <<targetVars, shotVars, target, handed, lit>>
        /\ RenderText(Kind.font, ThisOrder.number)
    BY <1>2 DEF ProcessNumber
  <2>2. PICK o \in Outcomes :
          /\ GetRWRasterFromBitmap("number", o)
          /\ IF TintsNothing(o) THEN drawing' = "crashed" /\ UNCHANGED plateOrders
             ELSE IF Kind.region THEN drawing' = "region" /\ UNCHANGED plateOrders
             ELSE IF o = "made" THEN drawing' = "texts" /\ UNCHANGED plateOrders
             ELSE NextPlate
    BY <1>2 DEF ProcessNumber
  <2>3. PICK font, words : font = Kind.font /\ words = ThisOrder.number  OBVIOUS
  <2>4. /\ failures' \in Nat /\ failures' >= failures
        /\ o # "made" => failures' > 0
        /\ failures' = 0 => pngFrom' \in {pngFrom, "file"}
        /\ rasters' = [number |-> rasters'.number, region |-> rasters'.region]
        /\ \A t \in {"number", "region"} : t # "number" => rasters'[t] = rasters[t]
        /\ rasters'["number"] = IF o = "made" THEN {<<font, words>>} ELSE Void
    BY <1>1, <2>1, <2>2, <2>3, RasterMade
  <2>5. rasters' = [number |-> IF o = "made" THEN NumberOn ELSE Void, region |-> Void]
    BY <1>1, <2>1, <2>3, <2>4 DEF TextsOfPlate, NoTexts, NumberOn
  <2>6. target' = Void /\ lit' = 0  BY <1>1, <2>1 DEF ResultOfPlate
  <2>7. PlateAsOrdered' /\ ShotAsAsked'  BY <1>1, <2>1, <2>4, HandedStays DEF shotVars
  <2>8. failures' = 0 => pngFrom' = pngFrom  BY <1>1, <2>4 DEF BorrowedForShot
  <2>9. CASE NextPlate /\ o # "made"
    <3>1. rasters' = NoTexts  BY <2>5, <2>9 DEF NoTexts
    <3>2. TextsOfPlate' /\ ResultOfPlate' /\ drawing' \in {"idle", "plate"}  BY <2>6, <2>9, <3>1, PlateDone
    <3>3. BorrowedForShot'  BY <1>1, <2>1, <2>4, <2>8, <3>2, ShotsApart
    <3>4. QED  BY <2>4, <2>7, <3>2, <3>3 DEF PicturesInv, Drawings, LostToColour
  <2>10. CASE drawing' \in {"region", "texts"} /\ UNCHANGED plateOrders /\ (drawing' = "region" <=> Kind.region)
              /\ (~Kind.region => o = "made")
    <3>1. /\ ThisOrder' = ThisOrder /\ Kind' = Kind /\ NumberOn' = NumberOn
      BY <2>10 DEF ThisOrder, Kind, NumberOn
    <3>2. TextsOfPlate'  BY <2>1, <2>5, <2>10, <3>1 DEF TextsOfPlate
    <3>3. ResultOfPlate'  BY <2>6, <2>10 DEF ResultOfPlate
    <3>4. BorrowedForShot'  BY <1>1, <2>1, <2>4, <2>8, <2>10, ShotsApart
    <3>5. QED  BY <2>4, <2>7, <2>10, <3>2, <3>3, <3>4 DEF PicturesInv, Drawings, LostToColour
  <2>11. CASE TintsNothing(o) /\ drawing' = "crashed" /\ UNCHANGED plateOrders
    <3>1. Kind.tinted /\ o # "made"  BY <2>11 DEF TintsNothing
    <3>2. failures' > 0 /\ Kind' = Kind
      <4>1. Kind' = Kind  BY <2>11 DEF ThisOrder, Kind
      <4>2. QED  BY <2>4, <3>1, <4>1
    <3>3. TextsOfPlate' /\ ResultOfPlate'  BY <2>4, <2>6, <2>11 DEF TextsOfPlate, ResultOfPlate
    <3>4. BorrowedForShot'  BY <1>1, <2>1, <2>4, <2>8, <2>11, ShotsApart
    <3>5. QED  BY <2>4, <2>7, <2>11, <3>1, <3>2, <3>3, <3>4 DEF PicturesInv, Drawings, LostToColour
  <2>12. QED  BY <2>2, <2>9, <2>10, <2>11
<1>3. CASE ProcessRegion
  <2>1. /\ drawing = "region" /\ UNCHANGED <<targetVars, shotVars, plateOrders, target, handed, lit>>
        /\ RenderText("RU", ThisOrder.region)
    BY <1>3 DEF ProcessRegion
  <2>2. PICK o \in Outcomes :
          /\ GetRWRasterFromBitmap("region", o)
          /\ drawing' = IF TintsNothing(o) THEN "crashed" ELSE "rasters"
    BY <1>3 DEF ProcessRegion
  <2>3. PICK words : words = ThisOrder.region  OBVIOUS
  <2>4. /\ failures' \in Nat /\ failures' >= failures
        /\ o # "made" => failures' > 0
        /\ failures' = 0 => pngFrom' \in {pngFrom, "file"}
        /\ rasters' = [number |-> rasters'.number, region |-> rasters'.region]
        /\ \A t \in {"number", "region"} : t # "region" => rasters'[t] = rasters[t]
        /\ rasters'["region"] = IF o = "made" THEN {<<"RU", words>>} ELSE Void
    BY <1>1, <2>1, <2>2, <2>3, RasterMade
  <2>5. ThisOrder' = ThisOrder /\ Kind' = Kind /\ NumberOn' = NumberOn /\ RegionOn' = RegionOn
    BY <2>1 DEF ThisOrder, Kind, NumberOn, RegionOn
  <2>6. rasters'.number = rasters.number /\ rasters'.region \in {Void, RegionOn}
    BY <2>3, <2>4 DEF RegionOn
  <2>7. PlateAsOrdered' /\ ShotAsAsked'  BY <1>1, <2>1, <2>4, HandedStays DEF shotVars
  <2>8. TextsOfPlate'  BY <1>1, <2>1, <2>2, <2>4, <2>5, <2>6 DEF TextsOfPlate
  <2>9. ResultOfPlate'  BY <1>1, <2>1, <2>2 DEF ResultOfPlate
  <2>10. failures' = 0 => pngFrom' = pngFrom  BY <1>1, <2>4 DEF BorrowedForShot
  <2>11. BorrowedForShot'  BY <1>1, <2>1, <2>2, <2>4, <2>10, ShotsApart
  <2>12. LostToColour'
    <3>1. CASE TintsNothing(o)
      <4>1. Kind.tinted /\ o # "made"  BY <3>1 DEF TintsNothing
      <4>2. QED  BY <2>4, <2>5, <4>1 DEF LostToColour
    <3>2. CASE ~TintsNothing(o)  BY <2>2, <3>2 DEF LostToColour
    <3>3. QED  BY <3>1, <3>2
  <2>13. QED  BY <2>2, <2>4, <2>7, <2>8, <2>9, <2>11, <2>12 DEF PicturesInv, Drawings
<1>4. CASE CheckRasters
  <2>1. /\ drawing = "rasters" /\ UNCHANGED <<targetVars, shotVars, bitmap, target, pngFrom, handed, lit, failures>>
    BY <1>4 DEF CheckRasters
  <2>2. PlateAsOrdered' /\ ShotAsAsked'  BY <1>1, <2>1, HandedStays DEF shotVars
  <2>3. target' = Void /\ lit' = 0  BY <1>1, <2>1 DEF ResultOfPlate
  <2>4. CASE Void \in {rasters.number, rasters.region}
    <3>1. rasters' = NoTexts /\ NextPlate  BY <1>4, <2>4 DEF CheckRasters
    <3>2. TextsOfPlate' /\ ResultOfPlate' /\ drawing' \in {"idle", "plate"}  BY <2>3, <3>1, PlateDone
    <3>3. BorrowedForShot'  BY <1>1, <2>1, <3>2, ShotsApart
    <3>4. QED  BY <1>1, <2>1, <2>2, <3>2, <3>3 DEF PicturesInv, Drawings, LostToColour
  <2>5. CASE Void \notin {rasters.number, rasters.region}
    <3>1. drawing' = "texts" /\ UNCHANGED <<rasters, plateOrders>>  BY <1>4, <2>5 DEF CheckRasters
    <3>2. ThisOrder' = ThisOrder /\ Kind' = Kind /\ NumberOn' = NumberOn /\ RegionOn' = RegionOn
      BY <3>1 DEF ThisOrder, Kind, NumberOn, RegionOn
    <3>3. TextsOfPlate'  BY <1>1, <2>1, <2>5, <3>1, <3>2 DEF TextsOfPlate
    <3>4. ResultOfPlate'  BY <2>3, <3>1 DEF ResultOfPlate
    <3>5. BorrowedForShot'  BY <1>1, <2>1, <3>1, ShotsApart
    <3>6. QED  BY <1>1, <2>1, <2>2, <3>1, <3>3, <3>4, <3>5 DEF PicturesInv, Drawings, LostToColour
  <2>6. QED  BY <2>4, <2>5
<1>5. QED  BY <1>2, <1>3, <1>4

LEMMA PlateDrawn ==
    ASSUME PicturesInv, Begin \/ End
    PROVE  PicturesInv'
<1>1. /\ failures \in Nat /\ drawing \in Drawings /\ PlateAsOrdered /\ ShotAsAsked /\ LostToColour
      /\ TextsOfPlate /\ ResultOfPlate /\ BorrowedForShot
  BY DEF PicturesInv
<1>2. CASE Begin
  <2>1. /\ drawing = "texts" /\ drawing' = "drawn"
        /\ UNCHANGED <<targetVars, shotVars, plateOrders, bitmap, rasters, pngFrom, handed>>
    BY <1>2 DEF Begin
  <2>2. ThisOrder' = ThisOrder /\ Kind' = Kind /\ NumberOn' = NumberOn /\ RegionOn' = RegionOn /\ m_bReady' = m_bReady
    BY <2>1 DEF ThisOrder, Kind, NumberOn, RegionOn, m_bReady, targetVars
  <2>3. ShowsOrder(Picture)
    <3>1. ThisOrder.type \in DOMAIN KnownPlates /\ rasters.number = NumberOn /\ (Kind.region => rasters.region = RegionOn)
      BY <1>1, <2>1 DEF TextsOfPlate
    <3>2. Kind.shown \subseteq {"number", "region"} /\ ("region" \in Kind.shown => Kind.region)
      BY <3>1, PlatesKnown DEF Kind
    <3>3. \A t \in Kind.shown : rasters[t] = IF t = "number" THEN NumberOn ELSE RegionOn
      BY <3>1, <3>2
    <3>4. QED  BY <3>3 DEF ShowsOrder, Picture
  <2>4. lit = 0  BY <1>1, <2>1 DEF ResultOfPlate
  <2>5. /\ failures' \in Nat /\ failures' >= failures /\ lit' \in {0, 1}
        /\ IF m_bReady THEN target' = Picture \/ (failures' > 0 /\ target' = [blank |-> TRUE]) ELSE lit' = 0
    <3>1. CASE m_bReady
      <4>1. PICK ok \in BOOLEAN : ProcessCamera(ok) /\ PreProcessCamera(IF ok THEN Picture ELSE [blank |-> TRUE])
        BY <1>2, <3>1 DEF Begin
      <4>2. /\ failures' \in Nat /\ failures' >= failures /\ (~ok => failures' > 0)
            /\ lit' = IF ok THEN lit + 1 ELSE lit
        BY <1>1, <4>1, WorksCounts DEF ProcessCamera
      <4>3. target' = IF ok THEN Picture ELSE [blank |-> TRUE]  BY <4>1 DEF PreProcessCamera
      <4>4. QED  BY <2>4, <3>1, <4>2, <4>3
    <3>2. CASE ~m_bReady
      <4>1. UNCHANGED <<target, lit, failures>>  BY <1>2, <3>2 DEF Begin
      <4>2. QED  BY <1>1, <2>4, <3>2, <4>1
    <3>3. QED  BY <3>1, <3>2
  <2>6. PlateAsOrdered' /\ ShotAsAsked'  BY <1>1, <2>1, <2>5, HandedStays DEF shotVars
  <2>7. TextsOfPlate'  BY <1>1, <2>1, <2>2 DEF TextsOfPlate
  <2>8. ResultOfPlate'
    <3>1. m_bReady /\ target' = Picture => ShowsOrder(target)'  BY <2>2, <2>3 DEF ShowsOrder
    <3>2. QED  BY <2>1, <2>2, <2>5, <3>1 DEF ResultOfPlate
  <2>9. BorrowedForShot'  BY <1>1, <2>1, <2>5, ShotsApart
  <2>10. QED  BY <2>1, <2>5, <2>6, <2>7, <2>8, <2>9 DEF PicturesInv, Drawings, LostToColour
<1>3. CASE End
  <2>1. /\ drawing = "drawn" /\ NextPlate /\ target' = Void /\ rasters' = NoTexts
        /\ handed' = IF m_bReady THEN [order |-> ThisOrder, picture |-> target] ELSE handed
        /\ IF m_bReady THEN lit' = (IF lit = 0 THEN 0 ELSE lit - 1) ELSE lit' = lit
        /\ UNCHANGED <<targetVars, shotVars, bitmap, pngFrom, failures>>
    BY <1>3 DEF End, PostProcessCamera
  <2>2. lit' = 0  BY <1>1, <2>1 DEF ResultOfPlate
  <2>3. TextsOfPlate' /\ ResultOfPlate' /\ drawing' \in {"idle", "plate"}  BY <2>1, <2>2, PlateDone
  <2>4. ShotAsAsked'  BY <1>1, <2>1, HandedStays DEF shotVars
  <2>5. PlateAsOrdered'
    <3>1. CASE m_bReady
      <4>1. handed' = [order |-> ThisOrder, picture |-> target]  BY <2>1, <3>1
      <4>2. ShowsOrder(target) \/ (failures > 0 /\ target = [blank |-> TRUE])  BY <1>1, <2>1, <3>1 DEF ResultOfPlate
      <4>3. handed'.order = ThisOrder /\ handed'.picture = target  BY <4>1
      <4>4. QED  BY <2>1, <4>2, <4>3 DEF ShowsOrder, PlateAsOrdered, Kind, NumberOn, RegionOn
    <3>2. CASE ~m_bReady  BY <1>1, <2>1, <3>2, HandedStays
    <3>3. QED  BY <3>1, <3>2
  <2>6. BorrowedForShot'  BY <1>1, <2>1, <2>3, ShotsApart
  <2>7. QED  BY <1>1, <2>1, <2>3, <2>4, <2>5, <2>6 DEF PicturesInv, Drawings, LostToColour
<1>4. QED  BY <1>2, <1>3

-----------------------------------------------------------------------------
(* Pictures of models *)

(* What is lost is none of what is to be given back. *)
LEMMA LostIsNotTaken ==
    /\ \A b \in Taken : Lost[b] \notin Taken
    /\ Lost.ped \notin Taken /\ Lost.vehicle \notin Taken
BY DEF Taken, Lost

(* What each kind of picture takes, loses and poses. *)
LEMMA TakenForShot ==
    ASSUME failures \in Nat, borrowed \cap Taken = {},
           \E m \in ShotModels :
              \/ CreatePedSnapShot(m)
              \/ \E p1, p2 \in Paints \cup {NoPaint} : CreateVehicleSnapShot(m, p1, p2)
              \/ \E isLoaded \in BOOLEAN : CreateObjectSnapShot(m, isLoaded)
    PROVE  \E ok \in BOOLEAN :
              /\ Works(ok)
              /\ ok => drawing' = "posed" /\ Alike(posed'.asked, posed'.shown)
              /\ ok /\ borrowed \subseteq Taken => borrowed' \subseteq Taken
              /\ ~ok => drawing' = drawing /\ posed' = posed /\ borrowed' \cap Taken = {}
<1>1. PICK m \in ShotModels :
              \/ CreatePedSnapShot(m)
              \/ \E p1, p2 \in Paints \cup {NoPaint} : CreateVehicleSnapShot(m, p1, p2)
              \/ \E isLoaded \in BOOLEAN : CreateObjectSnapShot(m, isLoaded)
  OBVIOUS
<1>2. CASE CreatePedSnapShot(m)
  <2>1. PICK ok \in BOOLEAN :
          /\ Works(ok)
          /\ borrowed' = borrowed \cup {IF ok THEN "ped" ELSE Lost.ped}
          /\ IF ok THEN drawing' = "posed" /\ posed' =
                  [asked |-> [model |-> m, paint |-> NoPaint], shown |-> [model |-> m, paint |-> NoPaint]]
             ELSE UNCHANGED <<drawing, posed>>
    BY <1>2 DEF CreatePedSnapShot
  <2>2. ok => Alike(posed'.asked, posed'.shown)  BY <2>1 DEF Alike
  <2>3. ok /\ borrowed \subseteq Taken => borrowed' \subseteq Taken  BY <2>1 DEF Taken
  <2>4. ~ok => borrowed' \cap Taken = {}  BY <2>1, LostIsNotTaken
  <2>5. QED  BY <2>1, <2>2, <2>3, <2>4
<1>3. CASE \E p1, p2 \in Paints \cup {NoPaint} : CreateVehicleSnapShot(m, p1, p2)
  <2>1. PICK p1 \in Paints \cup {NoPaint}, p2 \in Paints \cup {NoPaint} : CreateVehicleSnapShot(m, p1, p2)
    BY <1>3
  <2>2. PICK o, p :
          /\ o = [model |-> m, paint |-> <<p1, p2>>]
          /\ p = [model |-> VehicleShown(m), paint |-> IF NoPaint \in {p1, p2} THEN NoPaint ELSE <<p1, p2>>]
    OBVIOUS
  <2>3. PICK ok \in BOOLEAN :
          /\ Works(ok)
          /\ borrowed' = borrowed \cup {IF ok THEN "vehicle" ELSE Lost.vehicle}
          /\ IF ok THEN drawing' = "posed" /\ posed' = [asked |-> o, shown |-> p]
             ELSE UNCHANGED <<drawing, posed>>
    BY <2>1, <2>2 DEF CreateVehicleSnapShot
  <2>4. Alike(o, p)
    <3>1. p.model = o.model \/ p.model \in {537, 538, 18631}  BY <2>2 DEF VehicleShown
    <3>2. o.paint[1] = p1 /\ o.paint[2] = p2  BY <2>2
    <3>3. QED  BY <2>2, <3>1, <3>2 DEF Alike
  <2>5. ok /\ borrowed \subseteq Taken => borrowed' \subseteq Taken  BY <2>3 DEF Taken
  <2>6. ~ok => borrowed' \cap Taken = {}  BY <2>3, LostIsNotTaken
  <2>7. QED  BY <2>3, <2>4, <2>5, <2>6
<1>4. CASE \E isLoaded \in BOOLEAN : CreateObjectSnapShot(m, isLoaded)
  <2>1. PICK isLoaded \in BOOLEAN : CreateObjectSnapShot(m, isLoaded)  BY <1>4
  <2>2. PICK o, p :
          o = [model |-> m, paint |-> NoPaint] /\ p = [model |-> ObjectShown(m), paint |-> NoPaint]
    OBVIOUS
  <2>3. PICK took \in SUBSET Taken : took = {"object"} \cup (IF isLoaded THEN {} ELSE {"model"})
    BY DEF Taken
  <2>4. PICK ok \in BOOLEAN :
          /\ Works(ok)
          /\ borrowed' = borrowed \cup (IF ok THEN took ELSE {Lost[b] : b \in took})
          /\ IF ok THEN drawing' = "posed" /\ posed' = [asked |-> o, shown |-> p]
             ELSE UNCHANGED <<drawing, posed>>
    BY <2>1, <2>2, <2>3 DEF CreateObjectSnapShot
  <2>5. Alike(o, p)  BY <2>2 DEF Alike, ObjectShown
  <2>6. ok /\ borrowed \subseteq Taken => borrowed' \subseteq Taken  BY <2>3, <2>4
  <2>7. ~ok => borrowed' \cap Taken = {}  BY <2>3, <2>4, LostIsNotTaken
  <2>8. QED  BY <2>4, <2>5, <2>6, <2>7
<1>5. QED  BY <1>1, <1>2, <1>3, <1>4

LEMMA ShotTaken ==
    ASSUME PicturesInv, Snapshot \/ Photograph \/ PutAway
    PROVE  PicturesInv'
<1>1. /\ failures \in Nat /\ drawing \in Drawings /\ PlateAsOrdered /\ ShotAsAsked /\ LostToColour
      /\ TextsOfPlate /\ ResultOfPlate /\ BorrowedForShot
  BY DEF PicturesInv
<1>2. CASE Snapshot
  <2>1. /\ drawing = "idle" /\ UNCHANGED <<targetVars, plateOrders, bitmap, rasters, target, pngFrom, lit>>
        /\ handed' = NoPlate /\ shots' = NoPlate
    BY <1>2 DEF Snapshot, Resting
  <2>2. borrowed \cap Taken = {} /\ rasters = NoTexts /\ lit = 0 /\ target = Void
    BY <1>1, <2>1 DEF BorrowedForShot, TextsOfPlate, ResultOfPlate
  <2>3. PICK ok \in BOOLEAN :
              /\ Works(ok)
              /\ ok => drawing' = "posed" /\ Alike(posed'.asked, posed'.shown)
              /\ ok /\ borrowed \subseteq Taken => borrowed' \subseteq Taken
              /\ ~ok => drawing' = drawing /\ posed' = posed /\ borrowed' \cap Taken = {}
    BY <1>1, <1>2, <2>2, TakenForShot DEF Snapshot
  <2>4. failures' \in Nat /\ failures' >= failures /\ (~ok => failures' > 0) /\ (ok => failures' = failures)
    BY <1>1, <2>3, WorksCounts
  <2>5. PlateAsOrdered' /\ ShotAsAsked'  BY <2>1 DEF PlateAsOrdered, ShotAsAsked, NoPlate
  <2>6. drawing' \in {"idle", "posed"}  BY <2>1, <2>3
  <2>7. TextsOfPlate'  BY <2>1, <2>2, <2>6 DEF TextsOfPlate, NoTexts
  <2>8. ResultOfPlate'  BY <2>1, <2>2, <2>6 DEF ResultOfPlate
  <2>9. BorrowedForShot'
    <3>1. CASE ok  BY <1>1, <2>1, <2>3, <2>4, <3>1 DEF BorrowedForShot
    <3>2. CASE ~ok  BY <2>1, <2>3, <2>4, <3>2 DEF BorrowedForShot
    <3>3. QED  BY <3>1, <3>2
  <2>10. QED  BY <2>4, <2>5, <2>6, <2>7, <2>8, <2>9 DEF PicturesInv, Drawings, LostToColour
<1>3. CASE Photograph
  <2>1. /\ drawing = "posed" /\ drawing' = "rendered" /\ lit' = lit + 1
        /\ UNCHANGED <<targetVars, plateVars, posed, borrowed>>
    BY <1>3 DEF Photograph
  <2>2. PICK ok \in BOOLEAN :
          Works(ok) /\ shots' = [order |-> posed.asked, picture |-> IF ok THEN posed.shown ELSE Void]
    BY <1>3 DEF Photograph
  <2>3. failures' \in Nat /\ failures' >= failures /\ (~ok => failures' > 0) /\ (ok => failures' = failures)
    BY <1>1, <2>2, WorksCounts
  <2>4. PlateAsOrdered'  BY <1>1, <2>1, <2>3, HandedStays DEF plateVars
  <2>5. Alike(posed.asked, posed.shown)  BY <1>1, <2>1 DEF BorrowedForShot
  <2>6. ShotAsAsked'
    <3>1. shots'.order = posed.asked /\ shots'.picture = IF ok THEN posed.shown ELSE Void  BY <2>2
    <3>2. QED  BY <2>3, <2>5, <3>1 DEF Alike, ShotAsAsked
  <2>7. TextsOfPlate'  BY <1>1, <2>1 DEF TextsOfPlate, plateVars, NoTexts
  <2>8. ResultOfPlate'  BY <1>1, <2>1 DEF ResultOfPlate, plateVars
  <2>9. BorrowedForShot'
    <3>1. failures' = 0 => failures = 0  BY <1>1, <2>3
    <3>2. QED  BY <1>1, <2>1, <3>1 DEF BorrowedForShot, plateVars
  <2>10. QED  BY <2>1, <2>3, <2>4, <2>6, <2>7, <2>8, <2>9 DEF PicturesInv, Drawings, LostToColour
<1>4. CASE PutAway
  <2>1. /\ drawing = "rendered" /\ drawing' = "idle" /\ lit' = lit - 1 /\ borrowed' = borrowed \ Taken
        /\ UNCHANGED <<targetVars, plateVars, shots, failures>>
    BY <1>4 DEF PutAway
  <2>2. PlateAsOrdered' /\ ShotAsAsked'  BY <1>1, <2>1, HandedStays DEF plateVars
  <2>3. TextsOfPlate'  BY <1>1, <2>1 DEF TextsOfPlate, plateVars, NoTexts
  <2>4. ResultOfPlate'  BY <1>1, <2>1 DEF ResultOfPlate, plateVars
  <2>5. BorrowedForShot'  BY <1>1, <2>1 DEF BorrowedForShot, plateVars
  <2>6. QED  BY <1>1, <2>1, <2>2, <2>3, <2>4, <2>5 DEF PicturesInv, Drawings, LostToColour
<1>5. QED  BY <1>2, <1>3, <1>4

LEMMA PicturesStep == PicturesInv /\ [OffscreenNext]_offscreenVars => PicturesInv'
<1> SUFFICES ASSUME PicturesInv, [OffscreenNext]_offscreenVars PROVE PicturesInv'  OBVIOUS
<1>1. CASE UNCHANGED offscreenVars
  <2>1. UNCHANGED <<scene, plateOrders, rasters, target, pngFrom, handed>> /\ UNCHANGED <<posed, borrowed, shots>>
        /\ UNCHANGED <<drawing, lit, failures>>
    BY <1>1 DEF offscreenVars, targetVars, plateVars, shotVars
  <2>2. ThisOrder' = ThisOrder /\ Kind' = Kind /\ NumberOn' = NumberOn /\ RegionOn' = RegionOn /\ m_bReady' = m_bReady
    BY <2>1 DEF ThisOrder, Kind, NumberOn, RegionOn, m_bReady
  <2>3. PlateAsOrdered' /\ ShotAsAsked'  BY <2>1 DEF PicturesInv, PlateAsOrdered, ShotAsAsked
  <2>4. TextsOfPlate'  BY <2>1, <2>2 DEF PicturesInv, TextsOfPlate
  <2>5. ResultOfPlate'  BY <2>1, <2>2 DEF PicturesInv, ResultOfPlate, ShowsOrder
  <2>6. BorrowedForShot'  BY <2>1 DEF PicturesInv, BorrowedForShot
  <2>7. LostToColour'  BY <2>1, <2>2 DEF PicturesInv, LostToColour
  <2>8. QED  BY <2>1, <2>3, <2>4, <2>5, <2>6, <2>7 DEF PicturesInv
<1>2. CASE ClientGone  BY <1>1, <1>2 DEF ClientGone
<1>3. QED  BY <1>1, <1>2, PlatesBegin, TextsDrawn, PlateDrawn, ShotTaken DEF OffscreenNext

(* Whatever is written on plates and asked for in previews, and whichever  *)
(* calls fail: a picture shows its own order, and nothing is left of one   *)
(* when the next begins; and only an image in colour that could not be     *)
(* read has ended the client.                                              *)
THEOREM PicturesShowOrders == ClientSpec => []PicturesTrue
<1>1. ClientInit => PicturesInv  BY PicturesStart DEF ClientInit
<1>2. PicturesInv /\ [ClientNext]_clientVars => PicturesInv'
  <2> SUFFICES ASSUME PicturesInv, [ClientNext]_clientVars PROVE PicturesInv'
    OBVIOUS
  <2>1. [OffscreenNext]_offscreenVars  BY DEF ClientNext, clientVars
  <2>2. QED  BY <2>1, PicturesStep
<1>3. PicturesInv => PicturesTrue  BY PicturesHold
<1>4. QED  BY <1>1, <1>2, <1>3, PTL DEF ClientSpec

-----------------------------------------------------------------------------
(* Tuned vehicles *)

LinesType == [spring : TunedValues, size : TunedValues, own : BOOLEAN]
HandlingType == [speed : TunedValues, spring : TunedValues, own : BOOLEAN]
AlignmentType == [set : BOOLEAN, angle : TunedValues]
OffsetType == [set : BOOLEAN, new : TunedValues, processed : BOOLEAN, at : TunedValues]
CarType ==
    [isCar : BOOLEAN, there : BOOLEAN, handling : HandlingType, size : TunedValues, width : TunedValues,
     lines : LinesType, light : TunedValues, alignment : [Axles -> AlignmentType],
     offset : [Axles -> OffsetType], age : Nat, parts : [TunedParts -> SUBSET {"undamaged", "damaged"}]]
WantType ==
    [lines : LinesType, size : TunedValues, width : TunedValues, light : TunedValues,
     tilt : [Axles -> TuningOrders], offset : [Axles -> TunedValues],
     parts : [TunedParts -> {"shown", "hidden", "any"}]]
ModelType == [size : TunedValues, lines : LinesType, at : TunedIds \cup {"model"}]
RimsType ==
    [light : TuningOrders, width : TuningOrders, tilt : [Axles -> TuningOrders], offset : [Axles -> TuningOrders]]
HandlingOrder == [speed : TuningOrders, spring : TuningOrders, size : TuningOrders]

(* What is ordered of an axle is set; what is not is as in a new vehicle,  *)
(* but the angle.                                                          *)
TiltTrue(a, tilt) == IF tilt = Leave THEN ~a.set ELSE a.set /\ a.angle = tilt
OffsetTrue(o, offset) ==
    IF o.set THEN o.new = offset /\ (o.processed => o.at = offset)
    ELSE o.processed /\ o.at = Standard /\ offset = Standard
PartTrue(versions, piece) ==
    /\ piece = "shown" => versions = {"undamaged"}
    /\ piece = "hidden" => versions = {}

(* A vehicle is what was ordered of it. *)
CarTrue(car, want) ==
    /\ car \in CarType /\ want \in WantType
    /\ car.isCar => car.lines = want.lines
    /\ want.lines.own = TRUE
    /\ car.size = want.size /\ car.width = want.width /\ car.light = want.light
    /\ \A axle \in Axles : TiltTrue(car.alignment[axle], want.tilt[axle])
    /\ \A axle \in Axles : OffsetTrue(car.offset[axle], want.offset[axle])
    /\ \A p \in TunedParts : PartTrue(car.parts[p], want.parts[p])

(* An order is a value, or Leave, which no value is. *)
LEMMA OrdersTyped ==
    /\ Standard \in TunedValues /\ Leave \notin TunedValues /\ TunedValues \subseteq TuningOrders
    /\ \A x \in TuningOrders, y \in TunedValues : Or(x, y) \in TunedValues
    /\ \A x \in TuningOrders : x # Leave => x \in TunedValues
    /\ Axles = {"X", "Y"}
  BY VehicleTuningAssumption DEF Standard, Leave, TunedValues, TuningOrders, Or, Axles

LEMMA PartsVisible ==
    ASSUME NEW car \in CarType, NEW components
    PROVE  LET k == SetComponentVisible(car, components) IN
           /\ k \in CarType
           /\ k.parts = [p \in TunedParts |-> IF p \in components THEN {"undamaged"} ELSE {}]
           /\ \A f \in {"isCar", "there", "handling", "size", "width", "lines", "light",
                        "alignment", "offset", "age"} : k[f] = car[f]
<1> DEFINE k == SetComponentVisible(car, components)
           parts == [p \in TunedParts |-> IF p \in components THEN {"undamaged"} ELSE {}]
<1>1. k = [car EXCEPT !.parts = parts]  BY DEF SetComponentVisible, SetComponentVisibleInternal
<1>2. parts \in [TunedParts -> SUBSET {"undamaged", "damaged"}]  OBVIOUS
<1> HIDE DEF parts
<1>3. [car EXCEPT !.parts = parts] \in CarType  BY <1>2 DEF CarType
<1>4. QED  BY <1>1, <1>3 DEF CarType, parts

LEMMA MadeType ==
    ASSUME NEW isCar \in BOOLEAN, NEW garbage \in [Axles -> TunedValues]
    PROVE  Made(isCar, garbage) \in CarType
<1> USE OrdersTyped, VehicleTuningAssumption
<1>1. NoHandling \in HandlingType /\ NoLines \in LinesType  BY DEF NoHandling, NoLines, HandlingType, LinesType
<1>2. [axle \in Axles |-> [set |-> FALSE, angle |-> garbage[axle]]] \in [Axles -> AlignmentType]
  BY DEF AlignmentType
<1>3. [axle \in Axles |-> [set |-> FALSE, new |-> Standard, processed |-> TRUE, at |-> Standard]]
        \in [Axles -> OffsetType]
  BY DEF OffsetType
<1>4. OffsetRest + 1 \in Nat  OBVIOUS
<1>5. [p \in TunedParts |-> {"undamaged"}] \in [TunedParts -> SUBSET {"undamaged", "damaged"}]  OBVIOUS
<1>6. QED  BY <1>1, <1>2, <1>3, <1>4, <1>5 DEF Made, CarType

(* A vehicle that is created rides on the lines of its model, and shows    *)
(* the parts of a new one.                                                 *)
LEMMA CreatedTrue ==
    ASSUME NEW isCar \in BOOLEAN, NEW garbage \in [Axles -> TunedValues], NEW car,
           car = IF isCar THEN [SetComponentVisible(Made(isCar, garbage), DefaultParts)
                                  EXCEPT !.lines = LinesFor(Standard, Standard)]
                 ELSE SetComponentVisible(Made(isCar, garbage), DefaultParts)
    PROVE  CarTrue(car, NothingWanted)
<1> USE OrdersTyped
<1>1. PICK made \in CarType : made = Made(isCar, garbage)  BY MadeType
<1>2. PICK k \in CarType : /\ k = SetComponentVisible(made, DefaultParts)
                           /\ k.parts = [p \in TunedParts |-> IF p \in DefaultParts THEN {"undamaged"} ELSE {}]
                           /\ k.isCar = isCar /\ k.size = Standard /\ k.width = Standard /\ k.light = Standard
                           /\ k.alignment = [axle \in Axles |-> [set |-> FALSE, angle |-> garbage[axle]]]
                           /\ k.offset = [axle \in Axles |-> [set |-> FALSE, new |-> Standard, processed |-> TRUE,
                                                              at |-> Standard]]
  <2>1. /\ made.isCar = isCar /\ made.size = Standard /\ made.width = Standard /\ made.light = Standard
        /\ made.alignment = [axle \in Axles |-> [set |-> FALSE, angle |-> garbage[axle]]]
        /\ made.offset = [axle \in Axles |-> [set |-> FALSE, new |-> Standard, processed |-> TRUE, at |-> Standard]]
    BY <1>1 DEF Made
  <2> DEFINE j == SetComponentVisible(made, DefaultParts)
  <2>2. /\ j \in CarType /\ j.parts = [p \in TunedParts |-> IF p \in DefaultParts THEN {"undamaged"} ELSE {}]
        /\ j.isCar = made.isCar /\ j.size = made.size /\ j.width = made.width /\ j.light = made.light
        /\ j.alignment = made.alignment /\ j.offset = made.offset
    BY PartsVisible
  <2> HIDE DEF j
  <2>3. QED  BY <2>1, <2>2 DEF j
<1>3. PICK lines \in LinesType : lines = LinesFor(Standard, Standard) /\ lines.own = TRUE
  <2>1. LinesFor(Standard, Standard) \in LinesType /\ LinesFor(Standard, Standard).own = TRUE
    BY DEF LinesFor, LinesType
  <2>2. QED  BY <2>1
<1>4. /\ car \in CarType /\ (isCar => car.lines = lines) /\ car.parts = k.parts
      /\ car.isCar = isCar /\ car.size = Standard /\ car.width = Standard /\ car.light = Standard
      /\ car.alignment = k.alignment /\ car.offset = k.offset
  <2>1. CASE isCar
    <3>1. car = [k EXCEPT !.lines = lines]  BY <1>1, <1>2, <1>3, <2>1
    <3>2. QED  BY <1>2, <2>1, <3>1 DEF CarType
  <2>2. CASE ~isCar  BY <1>1, <1>2, <2>2
  <2>3. QED  BY <2>1, <2>2
<1>5. /\ NothingWanted.lines = lines /\ NothingWanted.size = Standard /\ NothingWanted.width = Standard
      /\ NothingWanted.light = Standard /\ NothingWanted.tilt = [axle \in Axles |-> Leave]
      /\ NothingWanted.offset = [axle \in Axles |-> Standard]
      /\ NothingWanted.parts = [p \in TunedParts |-> IF p \in DefaultParts THEN "shown" ELSE "hidden"]
  BY <1>3 DEF NothingWanted
<1>6. NothingWanted \in WantType
  <2>1. [axle \in Axles |-> Leave] \in [Axles -> TuningOrders]  BY DEF TuningOrders
  <2>2. [axle \in Axles |-> Standard] \in [Axles -> TunedValues]  OBVIOUS
  <2>3. [p \in TunedParts |-> IF p \in DefaultParts THEN "shown" ELSE "hidden"]
          \in [TunedParts -> {"shown", "hidden", "any"}]
    OBVIOUS
  <2>4. QED  BY <1>3, <2>1, <2>2, <2>3 DEF NothingWanted, WantType
<1>7. \A axle \in Axles : TiltTrue(car.alignment[axle], NothingWanted.tilt[axle])
  BY <1>2, <1>4, <1>5 DEF TiltTrue
<1>8. \A axle \in Axles : OffsetTrue(car.offset[axle], NothingWanted.offset[axle])
  BY <1>2, <1>4, <1>5 DEF OffsetTrue
<1>9. \A p \in TunedParts : PartTrue(car.parts[p], NothingWanted.parts[p])
  BY <1>2, <1>4, <1>5 DEF PartTrue
<1>10. QED  BY <1>3, <1>4, <1>5, <1>6, <1>7, <1>8, <1>9 DEF CarTrue

(* Lines, handling and size may change together. *)
LEMMA RidesTrue ==
    ASSUME NEW car, NEW want, CarTrue(car, want), NEW handling \in HandlingType, NEW size \in TunedValues,
           NEW lines \in LinesType, NEW due \in LinesType, due.own = TRUE, car.isCar => lines = due,
           NEW k, k = [car EXCEPT !.handling = handling, !.size = size, !.lines = lines],
           NEW w, w = [want EXCEPT !.size = size, !.lines = due]
    PROVE  CarTrue(k, w)
<1>1. car \in CarType /\ want \in WantType  BY DEF CarTrue
<1>2. /\ k \in CarType /\ k.lines = lines /\ k.size = size
      /\ k.isCar = car.isCar /\ k.width = car.width /\ k.light = car.light
      /\ k.alignment = car.alignment /\ k.offset = car.offset /\ k.parts = car.parts
  BY <1>1 DEF CarType
<1>3. /\ w \in WantType /\ w.lines = due /\ w.size = size
      /\ w.width = want.width /\ w.light = want.light
      /\ w.tilt = want.tilt /\ w.offset = want.offset /\ w.parts = want.parts
  BY <1>1 DEF WantType
<1>4. QED  BY <1>2, <1>3 DEF CarTrue

LEMMA PartsTrue ==
    ASSUME NEW car, NEW want, CarTrue(car, want), NEW parts \in [TunedParts -> SUBSET {"undamaged", "damaged"}],
           NEW wish \in [TunedParts -> {"shown", "hidden", "any"}],
           \A p \in TunedParts : PartTrue(parts[p], wish[p])
    PROVE  CarTrue([car EXCEPT !.parts = parts], [want EXCEPT !.parts = wish])
<1> DEFINE k == [car EXCEPT !.parts = parts]
           w == [want EXCEPT !.parts = wish]
<1>1. car \in CarType /\ want \in WantType  BY DEF CarTrue
<1>2. /\ k \in CarType /\ k.lines = car.lines /\ k.size = car.size
      /\ k.isCar = car.isCar /\ k.width = car.width /\ k.light = car.light
      /\ k.alignment = car.alignment /\ k.offset = car.offset /\ k.parts = parts
  BY <1>1 DEF CarType
<1>3. /\ w \in WantType /\ w.lines = want.lines /\ w.size = want.size
      /\ w.width = want.width /\ w.light = want.light
      /\ w.tilt = want.tilt /\ w.offset = want.offset /\ w.parts = wish
  BY <1>1 DEF WantType
<1> HIDE DEF k, w
<1>4. CarTrue(k, w)  BY <1>2, <1>3 DEF CarTrue
<1>5. QED  BY <1>4 DEF k, w

(* An axle is tilted and moved if the vehicle is a car and it was ordered. *)
AxleTurned(car, axle, tilt) == IF tilt # Leave THEN SetWheelAlignment(car, axle, tilt) ELSE car
AxleShifted(car, axle, offset) == IF offset = Leave THEN car ELSE SetWheelOffset(car, axle, offset)
Aligned(tilt) == [set |-> TRUE, angle |-> tilt]
Shifted(offset, at) == [set |-> TRUE, new |-> offset, processed |-> FALSE, at |-> at]

LEMMA AxleTilted ==
    ASSUME NEW car \in CarType, NEW axle \in Axles, NEW tilt \in TuningOrders
    PROVE  LET k == AxleTurned(car, axle, tilt) IN
           /\ k \in CarType /\ k.lines = car.lines /\ k.size = car.size /\ k.isCar = car.isCar
           /\ k.width = car.width /\ k.light = car.light /\ k.offset = car.offset /\ k.parts = car.parts
           /\ \A a \in Axles : k.alignment[a] = IF a = axle /\ car.isCar /\ tilt # Leave THEN Aligned(tilt)
                                               ELSE car.alignment[a]
<1> DEFINE k == AxleTurned(car, axle, tilt)
<1>1. CASE car.isCar /\ tilt # Leave
  <2>1. PICK a : a = [car.alignment EXCEPT ![axle] = Aligned(tilt)]  OBVIOUS
  <2>2. Aligned(tilt) \in AlignmentType  BY <1>1, OrdersTyped DEF AlignmentType, Aligned
  <2>3. car.alignment \in [Axles -> AlignmentType]  BY DEF CarType
  <2>4. a \in [Axles -> AlignmentType] /\ \A x \in Axles : a[x] = IF x = axle THEN Aligned(tilt) ELSE car.alignment[x]
    BY <2>1, <2>2, <2>3
  <2>5. k = [car EXCEPT !.alignment = a]  BY <1>1, <2>1 DEF AxleTurned, SetWheelAlignment, CarType, Aligned
  <2> HIDE DEF k
  <2>6. /\ k \in CarType /\ k.lines = car.lines /\ k.size = car.size /\ k.isCar = car.isCar
        /\ k.width = car.width /\ k.light = car.light /\ k.offset = car.offset /\ k.parts = car.parts
        /\ k.alignment = a
    BY <2>4, <2>5 DEF CarType
  <2>7. QED  BY <1>1, <2>4, <2>6 DEF k
<1>2. CASE ~(car.isCar /\ tilt # Leave)
  <2>1. k = car  BY <1>2 DEF AxleTurned, SetWheelAlignment
  <2> HIDE DEF k
  <2>2. QED  BY <1>2, <2>1 DEF k
<1>3. QED  BY <1>1, <1>2

LEMMA AxleMoved ==
    ASSUME NEW car \in CarType, NEW axle \in Axles, NEW offset \in TuningOrders
    PROVE  LET k == AxleShifted(car, axle, offset) IN
           /\ k \in CarType /\ k.lines = car.lines /\ k.size = car.size /\ k.isCar = car.isCar
           /\ k.width = car.width /\ k.light = car.light /\ k.alignment = car.alignment /\ k.parts = car.parts
           /\ \A a \in Axles : k.offset[a] = IF a = axle /\ car.isCar /\ offset # Leave
                                           THEN Shifted(offset, car.offset[a].at) ELSE car.offset[a]
<1> DEFINE k == AxleShifted(car, axle, offset)
<1>1. CASE car.isCar /\ offset # Leave
  <2>1. PICK o : o = [car.offset EXCEPT ![axle] = Shifted(offset, car.offset[axle].at)]  OBVIOUS
  <2>2. car.offset \in [Axles -> OffsetType]  BY DEF CarType
  <2>3. Shifted(offset, car.offset[axle].at) \in OffsetType
    BY <1>1, <2>2, OrdersTyped DEF OffsetType, Shifted
  <2>4. /\ o \in [Axles -> OffsetType]
        /\ \A x \in Axles : o[x] = IF x = axle THEN Shifted(offset, car.offset[x].at) ELSE car.offset[x]
    BY <2>1, <2>2, <2>3
  <2>5. PICK j : j = [car EXCEPT !.offset = o]  OBVIOUS
  <2>6. k = [j EXCEPT !.age = 0]  BY <1>1, <2>1, <2>5 DEF AxleShifted, SetWheelOffset, CarType, Shifted
  <2>7. /\ j \in CarType /\ j.lines = car.lines /\ j.size = car.size /\ j.isCar = car.isCar
        /\ j.width = car.width /\ j.light = car.light /\ j.alignment = car.alignment /\ j.parts = car.parts
        /\ j.offset = o
    BY <2>4, <2>5 DEF CarType
  <2> HIDE DEF k
  <2>8. /\ k \in CarType /\ k.lines = j.lines /\ k.size = j.size /\ k.isCar = j.isCar
        /\ k.width = j.width /\ k.light = j.light /\ k.alignment = j.alignment /\ k.parts = j.parts
        /\ k.offset = o
    BY <2>6, <2>7 DEF CarType
  <2>9. QED  BY <1>1, <2>4, <2>7, <2>8 DEF k
<1>2. CASE ~(car.isCar /\ offset # Leave)
  <2>1. k = car  BY <1>2 DEF AxleShifted, SetWheelOffset
  <2> HIDE DEF k
  <2>2. QED  BY <1>2, <2>1 DEF k
<1>3. QED  BY <1>1, <1>2

LitAndWide(car, o) ==
    [(IF o.light = Leave THEN car ELSE SetHeadlightsColor(car, o.light)) EXCEPT !.width = Or(o.width, @)]
TurnedBoth(car, tilt) == AxleTurned(AxleTurned(car, "X", tilt["X"]), "Y", tilt["Y"])
ShiftedBoth(car, offset) == AxleShifted(AxleShifted(car, "X", offset["X"]), "Y", offset["Y"])

LEMMA LitAsOrdered ==
    ASSUME NEW car \in CarType, NEW o \in RimsType
    PROVE  LET k == LitAndWide(car, o) IN
           /\ k \in CarType /\ k.lines = car.lines /\ k.size = car.size /\ k.isCar = car.isCar
           /\ k.offset = car.offset /\ k.alignment = car.alignment /\ k.parts = car.parts
           /\ k.width = Or(o.width, car.width)
           /\ k.light = IF car.isCar THEN Or(o.light, car.light) ELSE car.light
<1> DEFINE lamp == IF o.light = Leave THEN car ELSE SetHeadlightsColor(car, o.light)
           k == LitAndWide(car, o)
<1>1. /\ lamp \in CarType /\ lamp.lines = car.lines /\ lamp.size = car.size /\ lamp.isCar = car.isCar
      /\ lamp.width = car.width /\ lamp.alignment = car.alignment /\ lamp.offset = car.offset /\ lamp.parts = car.parts
      /\ lamp.light = IF car.isCar THEN Or(o.light, car.light) ELSE car.light
  <2>1. CASE o.light # Leave /\ car.isCar
    <3>1. lamp = [car EXCEPT !.light = o.light]  BY <2>1 DEF SetHeadlightsColor
    <3>2. o.light \in TunedValues  BY <2>1, OrdersTyped DEF RimsType
    <3> HIDE DEF lamp
    <3>3. QED  BY <2>1, <3>1, <3>2 DEF CarType, Or
  <2>2. CASE ~(o.light # Leave /\ car.isCar)
    <3>1. lamp = car  BY <2>2 DEF SetHeadlightsColor
    <3> HIDE DEF lamp
    <3>2. QED  BY <2>2, <3>1 DEF Or
  <2>3. QED  BY <2>1, <2>2
<1>2. Or(o.width, lamp.width) \in TunedValues  BY <1>1, OrdersTyped DEF CarType, RimsType
<1>3. k = [lamp EXCEPT !.width = Or(o.width, lamp.width)]  BY <1>1 DEF CarType, LitAndWide
<1> HIDE DEF k, lamp
<1>4. /\ k \in CarType /\ k.lines = lamp.lines /\ k.size = lamp.size /\ k.isCar = lamp.isCar
      /\ k.offset = lamp.offset /\ k.alignment = lamp.alignment /\ k.parts = lamp.parts
      /\ k.width = Or(o.width, lamp.width) /\ k.light = lamp.light
  BY <1>1, <1>2, <1>3 DEF CarType
<1>5. QED  BY <1>1, <1>4 DEF k

LEMMA TurnedAsOrdered ==
    ASSUME NEW car \in CarType, NEW tilt \in [Axles -> TuningOrders]
    PROVE  LET k == TurnedBoth(car, tilt) IN
           /\ k \in CarType /\ k.lines = car.lines /\ k.size = car.size /\ k.isCar = car.isCar
           /\ k.width = car.width /\ k.light = car.light /\ k.offset = car.offset /\ k.parts = car.parts
           /\ \A a \in Axles : k.alignment[a] = IF car.isCar /\ tilt[a] # Leave THEN Aligned(tilt[a])
                                               ELSE car.alignment[a]
<1> DEFINE x == tilt["X"]  y == tilt["Y"]  j == AxleTurned(car, "X", x)  k == AxleTurned(j, "Y", y)
<1>1. "X" \in Axles /\ "Y" \in Axles /\ x \in TuningOrders /\ y \in TuningOrders  BY DEF Axles
<1>2. ASSUME NEW a \in Axles PROVE (a = "X" /\ tilt[a] = x) \/ (a = "Y" /\ tilt[a] = y)
  <2>1. a = "X" \/ a = "Y"  BY DEF Axles
  <2>2. CASE a = "X"  BY <2>2
  <2>3. CASE a = "Y"  BY <2>3
  <2>4. QED  BY <2>1, <2>2, <2>3
<1>3. TurnedBoth(car, tilt) = k  BY DEF TurnedBoth
<1> HIDE DEF x, y
<1>4. /\ j \in CarType /\ j.lines = car.lines /\ j.size = car.size /\ j.isCar = car.isCar
      /\ j.width = car.width /\ j.light = car.light /\ j.offset = car.offset /\ j.parts = car.parts
      /\ \A a \in Axles : j.alignment[a] = IF a = "X" /\ car.isCar /\ x # Leave THEN Aligned(x)
                                          ELSE car.alignment[a]
  BY <1>1, AxleTilted
<1> HIDE DEF j
<1>5. /\ k \in CarType /\ k.lines = j.lines /\ k.size = j.size /\ k.isCar = j.isCar
      /\ k.width = j.width /\ k.light = j.light /\ k.offset = j.offset /\ k.parts = j.parts
      /\ \A a \in Axles : k.alignment[a] = IF a = "Y" /\ j.isCar /\ y # Leave THEN Aligned(y)
                                          ELSE j.alignment[a]
  BY <1>1, <1>4, AxleTilted
<1> HIDE DEF k
<1>6. ASSUME NEW a \in Axles
      PROVE  k.alignment[a] = IF car.isCar /\ tilt[a] # Leave THEN Aligned(tilt[a]) ELSE car.alignment[a]
  <2>1. CASE a = "X" /\ tilt[a] = x  BY <1>4, <1>5, <2>1
  <2>2. CASE a = "Y" /\ tilt[a] = y  BY <1>4, <1>5, <2>2
  <2>3. QED  BY <1>2, <2>1, <2>2
<1>7. QED  BY <1>3, <1>4, <1>5, <1>6

LEMMA ShiftedAsOrdered ==
    ASSUME NEW car \in CarType, NEW offset \in [Axles -> TuningOrders]
    PROVE  LET k == ShiftedBoth(car, offset) IN
           /\ k \in CarType /\ k.lines = car.lines /\ k.size = car.size /\ k.isCar = car.isCar
           /\ k.width = car.width /\ k.light = car.light /\ k.alignment = car.alignment /\ k.parts = car.parts
           /\ \A a \in Axles : k.offset[a] = IF car.isCar /\ offset[a] # Leave
                                           THEN Shifted(offset[a], car.offset[a].at) ELSE car.offset[a]
<1> DEFINE x == offset["X"]  y == offset["Y"]  j == AxleShifted(car, "X", x)  k == AxleShifted(j, "Y", y)
<1>1. "X" \in Axles /\ "Y" \in Axles /\ x \in TuningOrders /\ y \in TuningOrders  BY DEF Axles
<1>2. ASSUME NEW a \in Axles PROVE (a = "X" /\ offset[a] = x) \/ (a = "Y" /\ offset[a] = y)
  <2>1. a = "X" \/ a = "Y"  BY DEF Axles
  <2>2. CASE a = "X"  BY <2>2
  <2>3. CASE a = "Y"  BY <2>3
  <2>4. QED  BY <2>1, <2>2, <2>3
<1>3. ShiftedBoth(car, offset) = k  BY DEF ShiftedBoth
<1> HIDE DEF x, y
<1>4. /\ j \in CarType /\ j.lines = car.lines /\ j.size = car.size /\ j.isCar = car.isCar
      /\ j.width = car.width /\ j.light = car.light /\ j.alignment = car.alignment /\ j.parts = car.parts
      /\ \A a \in Axles : j.offset[a] = IF a = "X" /\ car.isCar /\ x # Leave
                                      THEN Shifted(x, car.offset[a].at) ELSE car.offset[a]
  BY <1>1, AxleMoved
<1> HIDE DEF j
<1>5. /\ k \in CarType /\ k.lines = j.lines /\ k.size = j.size /\ k.isCar = j.isCar
      /\ k.width = j.width /\ k.light = j.light /\ k.alignment = j.alignment /\ k.parts = j.parts
      /\ \A a \in Axles : k.offset[a] = IF a = "Y" /\ j.isCar /\ y # Leave
                                      THEN Shifted(y, j.offset[a].at) ELSE j.offset[a]
  BY <1>1, <1>4, AxleMoved
<1> HIDE DEF k
<1>6. ASSUME NEW a \in Axles
      PROVE  k.offset[a] = IF car.isCar /\ offset[a] # Leave THEN Shifted(offset[a], car.offset[a].at)
                           ELSE car.offset[a]
  <2>1. CASE a = "X" /\ offset[a] = x  BY <1>4, <1>5, <2>1
  <2>2. CASE a = "Y" /\ offset[a] = y  BY <1>4, <1>5, <2>2
  <2>3. QED  BY <1>2, <2>1, <2>2
<1>7. QED  BY <1>3, <1>4, <1>5, <1>6

(* The wheels and the lights as ordered. *)
RimsWanted(want, isCar, o) ==
    [want EXCEPT
       !.width = Or(o.width, @),
       !.light = IF isCar THEN Or(o.light, @) ELSE @,
       !.tilt = [axle \in Axles |-> IF isCar THEN Or(o.tilt[axle], @[axle]) ELSE @[axle]],
       !.offset = [axle \in Axles |-> IF isCar THEN Or(o.offset[axle], @[axle]) ELSE @[axle]]]

LEMMA RimsTrue ==
    ASSUME NEW car, NEW want, CarTrue(car, want), NEW o \in RimsType
    PROVE  CarTrue(ShiftedBoth(TurnedBoth(LitAndWide(car, o), o.tilt), o.offset),
                   RimsWanted(want, car.isCar, o))
<1> DEFINE width == Or(o.width, want.width)
           light == IF car.isCar THEN Or(o.light, want.light) ELSE want.light
           tilt == [axle \in Axles |-> IF car.isCar THEN Or(o.tilt[axle], want.tilt[axle]) ELSE want.tilt[axle]]
           offset == [axle \in Axles |-> IF car.isCar THEN Or(o.offset[axle], want.offset[axle])
                                         ELSE want.offset[axle]]
           w == [want EXCEPT !.width = width, !.light = light, !.tilt = tilt, !.offset = offset]
           j == LitAndWide(car, o)
           i == TurnedBoth(j, o.tilt)
           k == ShiftedBoth(i, o.offset)
<1>1. /\ car \in CarType /\ want \in WantType /\ o.light \in TuningOrders /\ o.width \in TuningOrders
      /\ o.tilt \in [Axles -> TuningOrders] /\ o.offset \in [Axles -> TuningOrders]
  BY DEF CarTrue, RimsType
<1>2. width \in TunedValues /\ light \in TunedValues  BY <1>1, OrdersTyped DEF WantType
<1>3. tilt \in [Axles -> TuningOrders]  BY <1>1 DEF WantType, Or
<1>4. offset \in [Axles -> TunedValues]  BY <1>1, OrdersTyped DEF WantType
<1>5. \A a \in Axles :
        /\ tilt[a] = IF car.isCar /\ o.tilt[a] # Leave THEN o.tilt[a] ELSE want.tilt[a]
        /\ offset[a] = IF car.isCar /\ o.offset[a] # Leave THEN o.offset[a] ELSE want.offset[a]
  BY DEF Or
<1>6. light = IF car.isCar THEN Or(o.light, want.light) ELSE want.light  OBVIOUS
<1> HIDE DEF light, tilt, offset
<1>7. /\ w \in WantType /\ w.lines = want.lines /\ w.size = want.size /\ w.parts = want.parts
      /\ w.width = width /\ w.light = light /\ w.tilt = tilt /\ w.offset = offset
  BY <1>1, <1>2, <1>3, <1>4 DEF WantType
<1>8. /\ j \in CarType /\ j.lines = car.lines /\ j.size = car.size /\ j.isCar = car.isCar
      /\ j.offset = car.offset /\ j.alignment = car.alignment /\ j.parts = car.parts
      /\ j.width = Or(o.width, car.width) /\ j.light = IF car.isCar THEN Or(o.light, car.light) ELSE car.light
  BY <1>1, LitAsOrdered
<1> HIDE DEF w, j
<1>9. /\ i \in CarType /\ i.lines = j.lines /\ i.size = j.size /\ i.isCar = j.isCar
      /\ i.width = j.width /\ i.light = j.light /\ i.offset = j.offset /\ i.parts = j.parts
      /\ \A a \in Axles : i.alignment[a] = IF j.isCar /\ o.tilt[a] # Leave THEN Aligned(o.tilt[a]) ELSE j.alignment[a]
  BY <1>1, <1>8, TurnedAsOrdered
<1> HIDE DEF i
<1>10. /\ k \in CarType /\ k.lines = i.lines /\ k.size = i.size /\ k.isCar = i.isCar
       /\ k.width = i.width /\ k.light = i.light /\ k.alignment = i.alignment /\ k.parts = i.parts
       /\ \A a \in Axles : k.offset[a] = IF i.isCar /\ o.offset[a] # Leave
                                       THEN Shifted(o.offset[a], i.offset[a].at) ELSE i.offset[a]
  BY <1>1, <1>9, ShiftedAsOrdered
<1> HIDE DEF k
<1>11. ASSUME NEW a \in Axles PROVE TiltTrue(k.alignment[a], w.tilt[a])
  <2>1. TiltTrue(car.alignment[a], want.tilt[a])  BY DEF CarTrue
  <2>2. k.alignment[a] = IF car.isCar /\ o.tilt[a] # Leave THEN Aligned(o.tilt[a]) ELSE car.alignment[a]
    BY <1>8, <1>9, <1>10
  <2>3. w.tilt[a] = IF car.isCar /\ o.tilt[a] # Leave THEN o.tilt[a] ELSE want.tilt[a]  BY <1>5, <1>7
  <2>4. CASE car.isCar /\ o.tilt[a] # Leave  BY <2>2, <2>3, <2>4 DEF TiltTrue, Aligned
  <2>5. CASE ~(car.isCar /\ o.tilt[a] # Leave)  BY <2>1, <2>2, <2>3, <2>5
  <2>6. QED  BY <2>4, <2>5
<1>12. ASSUME NEW a \in Axles PROVE OffsetTrue(k.offset[a], w.offset[a])
  <2>1. OffsetTrue(car.offset[a], want.offset[a])  BY DEF CarTrue
  <2>2. k.offset[a] = IF car.isCar /\ o.offset[a] # Leave THEN Shifted(o.offset[a], car.offset[a].at)
                      ELSE car.offset[a]
    BY <1>8, <1>9, <1>10
  <2>3. w.offset[a] = IF car.isCar /\ o.offset[a] # Leave THEN o.offset[a] ELSE want.offset[a]  BY <1>5, <1>7
  <2>4. CASE car.isCar /\ o.offset[a] # Leave  BY <2>2, <2>3, <2>4 DEF OffsetTrue, Shifted
  <2>5. CASE ~(car.isCar /\ o.offset[a] # Leave)  BY <2>1, <2>2, <2>3, <2>5
  <2>6. QED  BY <2>4, <2>5
<1>13. k.width = w.width /\ k.light = w.light
  <2>1. car.width = want.width /\ car.light = want.light  BY DEF CarTrue
  <2>2. k.width = Or(o.width, car.width) /\ w.width = Or(o.width, want.width)  BY <1>7, <1>8, <1>9, <1>10
  <2>3. k.light = light  BY <2>1, <1>6, <1>8, <1>9, <1>10
  <2>4. QED  BY <2>1, <2>2, <2>3, <1>7
<1>14. CarTrue(k, w)
  <2>1. k.isCar => k.lines = w.lines  BY <1>7, <1>8, <1>9, <1>10 DEF CarTrue
  <2>2. k.size = w.size /\ w.lines.own = TRUE /\ k.parts = car.parts /\ w.parts = want.parts
    BY <1>7, <1>8, <1>9, <1>10 DEF CarTrue
  <2>3. QED  BY <1>7, <1>10, <1>11, <1>12, <1>13, <2>1, <2>2 DEF CarTrue
<1>15. w = RimsWanted(want, car.isCar, o)
  BY <1>1 DEF w, light, tilt, offset, WantType, RimsWanted
<1>16. QED  BY <1>14, <1>15 DEF k, i, j

(* The wheels' frames are moved once the order has rested. *)
LEMMA WheelsMoved ==
    ASSUME NEW car, NEW want, CarTrue(car, want), NEW k, k = ProcessWheelsOffset(car)
    PROVE  /\ CarTrue(k, want) /\ k.lines = car.lines /\ k.size = car.size /\ k.isCar = car.isCar /\ k.age = car.age
           /\ k.age > OffsetRest => \A axle \in Axles : k.offset[axle].at = want.offset[axle]
<1>1. car \in CarType /\ want \in WantType  BY DEF CarTrue
<1>2. CASE car.age <= OffsetRest
  <2>1. k = car  BY <1>2 DEF ProcessWheelsOffset
  <2>2. ~(k.age > OffsetRest)  BY <1>1, <1>2, <2>1, VehicleTuningAssumption DEF CarType
  <2>3. QED  BY <2>1, <2>2
<1>3. CASE ~(car.age <= OffsetRest)
  <2>1. PICK offset : offset = [axle \in Axles |-> IF car.offset[axle].processed THEN car.offset[axle]
                                                   ELSE ProcessWheelOffset(car.offset[axle])]
    OBVIOUS
  <2>2. k = [car EXCEPT !.offset = offset]  BY <1>1, <1>3, <2>1 DEF ProcessWheelsOffset, CarType
  <2>3. ASSUME NEW axle \in Axles
        PROVE  /\ offset[axle] \in OffsetType /\ OffsetTrue(offset[axle], want.offset[axle])
               /\ offset[axle].at = want.offset[axle]
    <3>1. PICK o \in OffsetType : o = car.offset[axle]  BY <1>1 DEF CarType
    <3>2. OffsetTrue(o, want.offset[axle]) /\ want.offset[axle] \in TunedValues
      BY <1>1, <3>1 DEF CarTrue, WantType
    <3>3. offset[axle] = IF o.processed THEN o ELSE ProcessWheelOffset(o)  BY <2>1, <3>1
    <3>4. CASE o.processed  BY <3>2, <3>3, <3>4 DEF OffsetTrue
    <3>5. CASE ~o.processed
      <4>1. o.set /\ o.new = want.offset[axle]  BY <3>2, <3>5 DEF OffsetTrue
      <4>2. offset[axle] = [o EXCEPT !.at = o.new, !.processed = TRUE]
        BY <3>3, <3>5, <4>1 DEF ProcessWheelOffset, OffsetType
      <4>3. QED  BY <3>2, <4>1, <4>2 DEF OffsetType, OffsetTrue
    <3>6. QED  BY <3>4, <3>5
  <2>4. offset \in [Axles -> OffsetType]  BY <2>1, <2>3
  <2>5. /\ k \in CarType /\ k.lines = car.lines /\ k.size = car.size /\ k.isCar = car.isCar /\ k.age = car.age
        /\ k.width = car.width /\ k.light = car.light /\ k.alignment = car.alignment /\ k.parts = car.parts
        /\ k.offset = offset
    BY <1>1, <2>2, <2>4 DEF CarType
  <2>6. QED  BY <2>3, <2>5 DEF CarTrue
<1>4. QED  BY <1>2, <1>3

(* What does not change what is ordered: the clock, the game's own pool.   *)
LEMMA StaysTrue ==
    ASSUME NEW car, NEW want, CarTrue(car, want), NEW there \in BOOLEAN, NEW age \in Nat
    PROVE  CarTrue([car EXCEPT !.there = there], want) /\ CarTrue([car EXCEPT !.age = age], want)
<1>1. car \in CarType  BY DEF CarTrue
<1>2. PICK k : k = [car EXCEPT !.there = there]  OBVIOUS
<1>3. /\ k \in CarType /\ k.lines = car.lines /\ k.size = car.size /\ k.isCar = car.isCar
      /\ k.width = car.width /\ k.light = car.light /\ k.alignment = car.alignment /\ k.parts = car.parts
      /\ k.offset = car.offset
  BY <1>1, <1>2 DEF CarType
<1>4. PICK j : j = [car EXCEPT !.age = age]  OBVIOUS
<1>5. /\ j \in CarType /\ j.lines = car.lines /\ j.size = car.size /\ j.isCar = car.isCar
      /\ j.width = car.width /\ j.light = car.light /\ j.alignment = car.alignment /\ j.parts = car.parts
      /\ j.offset = car.offset
  BY <1>1, <1>4 DEF CarType
<1>6. CarTrue(k, want)  BY <1>3 DEF CarTrue
<1>7. CarTrue(j, want)  BY <1>5 DEF CarTrue
<1>8. QED  BY <1>2, <1>4, <1>6, <1>7

-----------------------------------------------------------------------------
(* The vehicles and their model together.                                  *)

Both(cars, m) == [cars |-> cars, model |-> m]
Given(cars, c, car) == [cars EXCEPT ![c] = car]
RidingOn(car, lines) == [car EXCEPT !.lines = lines]
PointedTo(m, lines) == [m EXCEPT !.lines = lines]
WithHandling(car, handling) == [car EXCEPT !.handling = handling]
Sized(car, size) == [car EXCEPT !.size = size]

LEMMA BothParts ==
    ASSUME NEW cars, NEW m
    PROVE  Both(cars, m).cars = cars /\ Both(cars, m).model = m
  BY DEF Both

LEMMA PointedType ==
    ASSUME NEW m \in ModelType, NEW lines \in LinesType
    PROVE  /\ PointedTo(m, lines) \in ModelType /\ PointedTo(m, lines).lines = lines
           /\ PointedTo(m, lines).size = m.size /\ PointedTo(m, lines).at = m.at
  BY DEF PointedTo, ModelType

LEMMA SizedType ==
    ASSUME NEW m \in ModelType, NEW size \in TunedValues
    PROVE  /\ Sized(m, size) \in ModelType /\ Sized(m, size).size = size
           /\ Sized(m, size).lines = m.lines /\ Sized(m, size).at = m.at
  BY DEF Sized, ModelType

LEMMA HandledType ==
    ASSUME NEW car \in CarType, NEW handling \in HandlingType, NEW size \in TunedValues
    PROVE  LET k == Sized(WithHandling(car, handling), size) IN
           /\ WithHandling(car, handling) \in CarType /\ WithHandling(car, handling).handling = handling
           /\ WithHandling(car, handling).isCar = car.isCar
           /\ k \in CarType /\ k.handling = handling /\ k.size = size /\ k.isCar = car.isCar /\ k.lines = car.lines
<1> DEFINE j == WithHandling(car, handling)
<1>1. j \in CarType /\ j.handling = handling /\ j.isCar = car.isCar /\ j.lines = car.lines
  BY DEF WithHandling, CarType
<1> HIDE DEF j
<1> DEFINE k == Sized(j, size)
<1>2. k \in CarType /\ k.handling = j.handling /\ k.size = size /\ k.isCar = j.isCar /\ k.lines = j.lines
  BY <1>1 DEF Sized, CarType
<1> HIDE DEF k
<1>3. QED  BY <1>1, <1>2 DEF j, k

SetsUp(cars, m, c, car, lines) ==
    /\ m \in ModelType /\ m.at = "model" /\ c \in TunedIds /\ car \in CarType /\ lines \in LinesType
    /\ cars \in [TunedIds -> CarType \cup {NoVehicle}] /\ cars[c] = car /\ car.isCar = TRUE
    /\ lines = LinesFor(car.handling.spring, m.size)

LEMMA LinesSetUp ==
    ASSUME NEW cars, NEW m, NEW c, NEW car, NEW lines, SetsUp(cars, m, c, car, lines)
    PROVE  CopyGlobalSuspensionLinesToPrivate(SetupSuspensionLines(Both(cars, m), c), c)
             = Both(Given(cars, c, RidingOn(car, lines)), PointedTo(m, lines))
<1> DEFINE n == PointedTo(m, lines)
           s == Both(cars, n)
<1> USE DEF SetsUp
<1>1. n.at = "model" /\ n.lines = lines  BY PointedType
<1>2. SetupSuspensionLines(Both(cars, m), c) = [Both(cars, m) EXCEPT !.model.lines = lines]
  BY DEF SetupSuspensionLines, Both
<1>3. SetupSuspensionLines(Both(cars, m), c) = s
  BY <1>2 DEF Both, PointedTo
<1> HIDE DEF n
<1>4. s.cars = cars /\ s.model = n  BY BothParts
<1> HIDE DEF s
<1>5. LinesInPlace(s) = lines  BY <1>1, <1>4 DEF LinesInPlace
<1>6. CopyGlobalSuspensionLinesToPrivate(s, c) = [s EXCEPT !.cars[c].lines = lines]
  BY <1>4, <1>5 DEF CopyGlobalSuspensionLinesToPrivate
<1>7. [s EXCEPT !.cars[c].lines = lines] = Both(Given(cars, c, RidingOn(car, lines)), n)
  BY DEF s, Both, Given, RidingOn
<1>8. QED  BY <1>3, <1>6, <1>7 DEF n

(* A vehicle that is ordered about, between hooks. *)
RidesThere(cars, m, c, car) ==
    /\ m \in ModelType /\ m.at = "model" /\ m.size = Standard /\ c \in TunedIds /\ car \in CarType
    /\ cars \in [TunedIds -> CarType \cup {NoVehicle}] /\ cars[c] = car /\ car.isCar = TRUE

LEMMA HandlingSet ==
    ASSUME NEW cars, NEW m, NEW c, NEW car, RidesThere(cars, m, c, car),
           NEW o \in HandlingOrder
    PROVE  LET handling == [speed |-> Or(o.speed, Standard), spring |-> Or(o.spring, Standard), own |-> TRUE]
               size == Or(o.size, car.size)
               lines == IF o.spring = Leave /\ o.size = Leave THEN car.lines
                        ELSE LinesFor(Or(o.spring, Standard), size)
               r == SetHandlingData(Both(cars, m), c, o)
           IN /\ r.cars = Given(cars, c, RidingOn(Sized(WithHandling(car, handling), size), lines))
              /\ r.model \in ModelType /\ r.model.size = Standard /\ r.model.at = "model"
              /\ handling \in HandlingType /\ size \in TunedValues /\ lines \in LinesType
<1> DEFINE handling == [speed |-> Or(o.speed, Standard), spring |-> Or(o.spring, Standard), own |-> TRUE]
           size == Or(o.size, car.size)
           lines == IF o.spring = Leave /\ o.size = Leave THEN car.lines
                    ELSE LinesFor(Or(o.spring, Standard), size)
           r == SetHandlingData(Both(cars, m), c, o)
<1> USE DEF RidesThere
<1>1. /\ handling \in HandlingType /\ handling.spring = Or(o.spring, Standard)
      /\ handling.spring \in TunedValues
  BY OrdersTyped DEF HandlingType, HandlingOrder
<1>2. size \in TunedValues  BY OrdersTyped DEF HandlingOrder, CarType
<1>3. LinesFor(handling.spring, size) \in LinesType  BY <1>1, <1>2 DEF LinesFor, LinesType
<1>4. lines \in LinesType  BY <1>1, <1>3 DEF CarType
<1> HIDE DEF handling, size, lines, r
<1> DEFINE j == Sized(WithHandling(car, handling), size)
           n == Sized(m, size)
           js == Given(cars, c, j)
           w == Both(js, n)
           s == IF o.spring = Leave /\ o.size = Leave THEN w
                ELSE CopyGlobalSuspensionLinesToPrivate(SetupSuspensionLines(w, c), c)
<1>5. j \in CarType /\ j.handling = handling /\ j.size = size /\ j.isCar = TRUE /\ j.lines = car.lines
  BY <1>1, <1>2, HandledType
<1>6. n \in ModelType /\ n.size = size /\ n.at = "model"  BY <1>2, SizedType
<1>7. [car EXCEPT !.handling = handling, !.size = size] = j  BY DEF WithHandling, Sized
<1>8. SetHandlingData(Both(cars, m), c, o) = [s EXCEPT !.model.size = m.size]
  <2> DEFINE w0 == Both(cars, m)
             k == [w0.cars[c] EXCEPT !.handling = [speed |-> Or(o.speed, Standard), spring |-> Or(o.spring, Standard),
                                                   own |-> TRUE],
                                     !.size = Or(o.size, @)]
             v == [w0 EXCEPT !.cars[c] = k, !.model.size = IF k.size = Standard THEN @ ELSE k.size]
  <2>1. w0.cars = cars /\ w0.model = m /\ w0.cars[c] = car  BY BothParts
  <2>2. k = [car EXCEPT !.handling = handling, !.size = size]  BY <2>1 DEF CarType, handling, size
  <2>3. k = j  BY <1>7, <2>2
  <2> HIDE DEF k, j
  <2>4. k.size = size  BY <1>5, <2>3
  <2>5. v = [w0 EXCEPT !.cars = js, !.model = n]
    <3>1. (IF k.size = Standard THEN w0.model.size ELSE k.size) = size  BY <2>1, <2>4
    <3>2. v = [w0 EXCEPT !.cars[c] = j, !.model.size = size]  BY <2>3, <3>1 DEF Both
    <3>3. QED  BY <3>2 DEF Both, Given, Sized
  <2>6. v = w
    <3> HIDE DEF v, js, n
    <3>1. QED  BY <2>5 DEF Both
  <2>7. SetHandlingData(w0, c, o) =
          [(IF o.spring = Leave /\ o.size = Leave THEN v
            ELSE CopyGlobalSuspensionLinesToPrivate(SetupSuspensionLines(v, c), c)) EXCEPT !.model.size = w0.model.size]
    BY Zenon DEF SetHandlingData, k
  <2> HIDE DEF v, w
  <2>8. QED  BY <2>1, <2>6, <2>7
<1> HIDE DEF j, n
<1>9. js \in [TunedIds -> CarType \cup {NoVehicle}] /\ js[c] = j  BY <1>5 DEF Given
<1> DEFINE k == RidingOn(j, lines)
           ks == Given(cars, c, k)
<1>10. /\ s.cars = ks /\ s.model \in ModelType /\ s.model.at = "model"
       /\ s = Both(s.cars, s.model)
  <2>1. CASE o.spring = Leave /\ o.size = Leave
    <3>1. s = w /\ lines = car.lines  BY <2>1 DEF lines
    <3>2. k = j  BY <1>5, <3>1 DEF CarType, RidingOn
    <3>3. QED  BY <1>6, <3>1, <3>2, BothParts
  <2>2. CASE ~(o.spring = Leave /\ o.size = Leave)
    <3>1. lines = LinesFor(j.handling.spring, n.size)  BY <1>1, <1>5, <1>6, <2>2 DEF lines
    <3>2. s = CopyGlobalSuspensionLinesToPrivate(SetupSuspensionLines(w, c), c)  BY <2>2
    <3> HIDE DEF s
    <3>3. s = Both(Given(js, c, k), PointedTo(n, lines))
      <4> HIDE DEF js
      <4> HIDE DEF k
      <4>1. CopyGlobalSuspensionLinesToPrivate(SetupSuspensionLines(Both(js, n), c), c)
              = Both(Given(js, c, RidingOn(j, lines)), PointedTo(n, lines))
        <5>1. SetsUp(js, n, c, j, lines)  BY <1>4, <1>5, <1>6, <1>9, <3>1 DEF SetsUp
        <5>2. QED  BY <5>1, LinesSetUp
      <4>2. QED  BY <3>2, <4>1 DEF k
    <3>4. Given(js, c, k) = ks  BY DEF Given
    <3>5. PointedTo(n, lines) \in ModelType /\ PointedTo(n, lines).at = "model"  BY <1>4, <1>6, PointedType
    <3> HIDE DEF ks, js
    <3>6. QED  BY <3>3, <3>4, <3>5, BothParts
  <2>3. QED  BY <2>1, <2>2
<1> HIDE DEF s, ks
<1>11. r.cars = ks /\ r.model = Sized(s.model, Standard)
  <2>1. r = [s EXCEPT !.model.size = Standard]  BY <1>8 DEF r
  <2>2. PICK cs, mo : cs = s.cars /\ mo = s.model  OBVIOUS
  <2>3. r = [Both(cs, mo) EXCEPT !.model.size = Standard]  BY <1>10, <2>1, <2>2
  <2>4. r.cars = cs /\ r.model = Sized(mo, Standard)  BY <2>3 DEF Both, Sized
  <2>5. QED  BY <1>10, <2>2, <2>4
<1>12. r.model \in ModelType /\ r.model.size = Standard /\ r.model.at = "model"
  BY <1>10, <1>11, SizedType, OrdersTyped
<1>13. QED  BY <1>1, <1>2, <1>4, <1>11, <1>12 DEF ks, j, r, handling, size, lines

LEMMA HandlingReset ==
    ASSUME NEW cars, NEW m, NEW c, NEW car, RidesThere(cars, m, c, car),
           NEW r, r = ResetVehicleHandling(Both(cars, m), c)
    PROVE  LET handling == [NoHandling EXCEPT !.own = TRUE]
               lines == LinesFor(Standard, Standard)
           IN /\ r.cars = Given(cars, c, RidingOn(WithHandling(car, handling), lines))
              /\ r.model \in ModelType /\ r.model.size = Standard /\ r.model.at = "model"
              /\ handling \in HandlingType /\ lines \in LinesType /\ lines.own = TRUE
<1> DEFINE handling == [NoHandling EXCEPT !.own = TRUE]
           lines == LinesFor(Standard, Standard)
<1> USE DEF RidesThere
<1>1. handling \in HandlingType /\ handling.spring = Standard
  BY OrdersTyped DEF HandlingType, NoHandling
<1>2. lines \in LinesType /\ lines.own = TRUE  BY OrdersTyped DEF LinesFor, LinesType
<1> DEFINE j == WithHandling(car, handling)
           js == Given(cars, c, j)
           w == Both(js, m)
<1>3. ResetVehicleHandling(Both(cars, m), c)
        = CopyGlobalSuspensionLinesToPrivate(SetupSuspensionLines(w, c), c)
  <2>1. w = [Both(cars, m) EXCEPT !.cars[c].handling = handling]
    <3> HIDE DEF handling
    <3>1. QED  BY DEF Both, Given, WithHandling
  <2> HIDE DEF w
  <2>2. QED  BY <2>1 DEF ResetVehicleHandling
<1> HIDE DEF handling
<1>4. j \in CarType /\ j.handling = handling /\ j.isCar = TRUE
  BY <1>1, OrdersTyped, HandledType
<1> HIDE DEF j
<1>5. js \in [TunedIds -> CarType \cup {NoVehicle}] /\ js[c] = j  BY <1>4 DEF Given
<1>6. lines = LinesFor(j.handling.spring, m.size)  BY <1>1, <1>4
<1> HIDE DEF lines
<1>7. r = Both(Given(js, c, RidingOn(j, lines)), PointedTo(m, lines))
  <2> HIDE DEF js
  <2>1. SetsUp(js, m, c, j, lines)  BY <1>2, <1>4, <1>5, <1>6 DEF SetsUp
  <2>2. QED  BY <1>3, <2>1, LinesSetUp
<1>8. Given(js, c, RidingOn(j, lines)) = Given(cars, c, RidingOn(j, lines))  BY DEF Given
<1>9. PointedTo(m, lines) \in ModelType /\ PointedTo(m, lines).at = "model" /\ PointedTo(m, lines).size = Standard
  BY <1>2, PointedType
<1> HIDE DEF js
<1>10. QED  BY <1>1, <1>2, <1>7, <1>8, <1>9, BothParts DEF j, handling, lines

-----------------------------------------------------------------------------
(* The hooks, and what they leave behind.                                  *)

(* The model is the game's own, but in a hook. *)
RestTrue ==
    /\ hook = NotHooked /\ g_pLastProcessedVehicleMatrix = NoVehicle /\ sight = NothingSeen
    /\ model.size = Standard /\ model.at = "model"

CollisionTrue ==
    /\ hook.call = "collision" /\ g_pLastProcessedVehicleMatrix = NoVehicle /\ sight = NothingSeen
    /\ model.size = Standard
    /\ model.at = IF hook.of # Other /\ tuned[hook.of].lines.own = TRUE THEN hook.of ELSE "model"

(* A wheel as it is ordered of the vehicle that is drawn. *)
WheelSeen(seen, v) ==
    /\ v = Other => seen = [NothingSeen EXCEPT !.of = Other, !.axle = seen.axle]
    /\ v # Other =>
        /\ seen.of = v /\ seen.size = tunedTo[v].size /\ seen.width = tunedTo[v].width
        /\ IF tunedTo[v].tilt[seen.axle] # Leave THEN seen.tilt = tunedTo[v].tilt[seen.axle]
           ELSE (\A axle \in Axles : tunedTo[v].tilt[axle] = Leave) => seen.tilt = Standard

DrawingTrue ==
    /\ hook.call = "prerender" /\ model.at = "model"
    /\ g_pLastProcessedVehicleMatrix = IF hook.of = Other THEN NoVehicle ELSE hook.of
    /\ hook.of # Other /\ tuned[hook.of].age > OffsetRest =>
         \A axle \in Axles : tuned[hook.of].offset[axle].at = tunedTo[hook.of].offset[axle]
    /\ sight = NothingSeen \/ WheelSeen(sight, hook.of)

BeamTrue ==
    /\ hook.call = "beam" /\ g_pLastProcessedVehicleMatrix = NoVehicle
    /\ model.size = Standard /\ model.at = "model"
    /\ sight = [NothingSeen EXCEPT !.of = hook.of,
                                   !.light = IF hook.of = Other THEN Standard ELSE tunedTo[hook.of].light]

HookTrue ==
    \/ RestTrue
    \/ /\ hook.of \in TunedIds \cup {Other} /\ hook = [call |-> hook.call, of |-> hook.of]
       /\ CollisionTrue \/ DrawingTrue \/ BeamTrue

TunedInv ==
    /\ tuned \in [TunedIds -> CarType \cup {NoVehicle}]
    /\ tunedTo \in [TunedIds -> WantType \cup {NoVehicle}]
    /\ model \in ModelType
    /\ \A c \in TunedIds : tuned[c] # NoVehicle \/ hook.of = c => CarTrue(tuned[c], tunedTo[c])
    /\ HookTrue

LEMMA HooksApart ==
    /\ NotHooked.call = "none" /\ NotHooked.of = NoVehicle
    /\ NothingSeen.of = NoVehicle /\ NothingSeen.axle = "X"
    /\ \A c \in TunedIds : c # NoVehicle /\ c # Other /\ c # "model"
  BY VehicleTuningAssumption DEF NotHooked, NothingSeen

LEMMA DarkSeen ==
    [NothingSeen EXCEPT !.of = Other, !.light = Standard] = [NothingSeen EXCEPT !.of = Other, !.axle = "X"]
<1>1. PICK n : n = [NothingSeen EXCEPT !.of = Other]  OBVIOUS
<1>2. n \in [of : {Other}, axle : {"X"}, size : {Standard}, width : {Standard}, tilt : {Standard}, light : {Standard}]
  BY <1>1 DEF NothingSeen
<1>3. [n EXCEPT !.light = Standard] = n /\ [n EXCEPT !.axle = "X"] = n  BY <1>2
<1>4. /\ [NothingSeen EXCEPT !.of = Other, !.light = Standard] = [n EXCEPT !.light = Standard]
      /\ [NothingSeen EXCEPT !.of = Other, !.axle = "X"] = [n EXCEPT !.axle = "X"]
  BY <1>1
<1>5. QED  BY <1>3, <1>4

LEMMA TunedHolds == TunedInv => TunedAsOrdered
<1> SUFFICES ASSUME TunedInv PROVE TunedAsOrdered  OBVIOUS
<1> USE HooksApart
<1>1. OwnSuspension
  <2>1. Unhooked => model.size = Standard /\ model.at = "model"
    BY DEF TunedInv, HookTrue, Unhooked, RestTrue, CollisionTrue, DrawingTrue, BeamTrue
  <2>2. ASSUME NEW c \in TunedIds, tuned[c] # NoVehicle, tuned[c].isCar
        PROVE  /\ tuned[c].lines = tunedTo[c].lines
               /\ hook = [call |-> "collision", of |-> c] => LinesInPlace(ModelAndCars) = tunedTo[c].lines
    <3>1. tuned[c].lines = tunedTo[c].lines /\ tunedTo[c].lines.own = TRUE  BY <2>2 DEF TunedInv, CarTrue
    <3>2. ASSUME hook = [call |-> "collision", of |-> c] PROVE LinesInPlace(ModelAndCars) = tunedTo[c].lines
      <4>1. hook.call = "collision" /\ hook.of = c  BY <3>2
      <4>2. CollisionTrue  BY <4>1 DEF TunedInv, HookTrue, RestTrue, DrawingTrue, BeamTrue
      <4>3. model.at = c  BY <3>1, <4>1, <4>2 DEF CollisionTrue
      <4>4. ModelAndCars.model = model /\ ModelAndCars.cars = tuned  BY DEF ModelAndCars
      <4>5. LinesInPlace(ModelAndCars) = tuned[c].lines  BY <4>3, <4>4 DEF LinesInPlace
      <4>6. QED  BY <3>1, <4>5
    <3>3. QED  BY <3>1, <3>2
  <2>3. QED  BY <2>1, <2>2 DEF OwnSuspension
<1>2. OwnWheels
  <2>1. ASSUME sight.of = Other PROVE sight = [NothingSeen EXCEPT !.of = Other, !.axle = sight.axle]
    <3>1. CASE sight = NothingSeen
      <4>1. NoVehicle = Other  BY <2>1, <3>1
      <4>2. QED  BY <3>1, <4>1 DEF NothingSeen
    <3>2. CASE DrawingTrue /\ WheelSeen(sight, hook.of) /\ hook.of \in TunedIds \cup {Other}
      BY <2>1, <3>2 DEF WheelSeen
    <3>3. CASE BeamTrue /\ hook.of \in TunedIds \cup {Other}
      <4>1. sight.of = hook.of /\ sight.axle = "X"  BY <3>3 DEF BeamTrue, NothingSeen
      <4>2. hook.of = Other  BY <2>1, <4>1
      <4>3. sight = [NothingSeen EXCEPT !.of = Other, !.light = Standard]  BY <3>3, <4>2 DEF BeamTrue
      <4>4. [NothingSeen EXCEPT !.of = Other, !.light = Standard] = [NothingSeen EXCEPT !.of = Other, !.axle = "X"]
        BY DarkSeen
      <4>5. QED  BY <4>1, <4>3, <4>4
    <3>4. QED  BY <3>1, <3>2, <3>3 DEF TunedInv, HookTrue, RestTrue, CollisionTrue, DrawingTrue
  <2>2. ASSUME NEW c \in TunedIds, sight.of = c, Drawing(c)
        PROVE  /\ sight.size = tunedTo[c].size /\ sight.width = tunedTo[c].width
               /\ IF tunedTo[c].tilt[sight.axle] # Leave THEN sight.tilt = tunedTo[c].tilt[sight.axle]
                  ELSE (\A axle \in Axles : tunedTo[c].tilt[axle] = Leave) => sight.tilt = Standard
    <3>1. hook.call = "prerender" /\ hook.of = c  BY <2>2 DEF Drawing
    <3>2. DrawingTrue  BY <3>1 DEF TunedInv, HookTrue, RestTrue, CollisionTrue, BeamTrue
    <3>3. sight # NothingSeen  BY <2>2
    <3>4. WheelSeen(sight, c)  BY <3>1, <3>2, <3>3 DEF DrawingTrue
    <3>5. QED  BY <3>4 DEF WheelSeen
  <2>3. ASSUME NEW c \in TunedIds, sight.of = c, hook.call = "beam" PROVE sight.light = tunedTo[c].light
    <3>1. BeamTrue  BY <2>3 DEF TunedInv, HookTrue, RestTrue, CollisionTrue, DrawingTrue
    <3>2. /\ sight.of = hook.of
          /\ sight.light = IF hook.of = Other THEN Standard ELSE tunedTo[hook.of].light
      BY <3>1 DEF BeamTrue, NothingSeen
    <3>3. QED  BY <2>3, <3>2
  <2>4. ASSUME NEW c \in TunedIds, Drawing(c), tuned[c].age > OffsetRest
        PROVE  \A axle \in Axles : tuned[c].offset[axle].at = tunedTo[c].offset[axle]
    <3>1. hook.call = "prerender" /\ hook.of = c  BY <2>4 DEF Drawing
    <3>2. DrawingTrue  BY <3>1 DEF TunedInv, HookTrue, RestTrue, CollisionTrue, BeamTrue
    <3>3. QED  BY <2>4, <3>1, <3>2 DEF DrawingTrue
  <2>5. QED  BY <2>1, <2>2, <2>3, <2>4 DEF OwnWheels
<1>3. PartsAsOrdered
  <2> SUFFICES ASSUME NEW c \in TunedIds, tuned[c] # NoVehicle, NEW p \in TunedParts
               PROVE  /\ tunedTo[c].parts[p] = "shown" => tuned[c].parts[p] = {"undamaged"}
                      /\ tunedTo[c].parts[p] = "hidden" => tuned[c].parts[p] = {}
    BY DEF PartsAsOrdered
  <2>1. CarTrue(tuned[c], tunedTo[c])  BY DEF TunedInv
  <2>2. PartTrue(tuned[c].parts[p], tunedTo[c].parts[p])  BY <2>1 DEF CarTrue
  <2>3. QED  BY <2>2 DEF PartTrue
<1>4. QED  BY <1>1, <1>2, <1>3 DEF TunedAsOrdered

LEMMA TunedStart == TuningInit => TunedInv
<1> SUFFICES ASSUME TuningInit PROVE TunedInv  OBVIOUS
<1>1. model \in ModelType /\ model.size = Standard /\ model.at = "model"
  BY OrdersTyped DEF TuningInit, ModelType, LinesFor, LinesType
<1>2. RestTrue  BY <1>1 DEF TuningInit, RestTrue
<1>3. \A c \in TunedIds : tuned[c] = NoVehicle /\ hook.of # c
  BY HooksApart DEF TuningInit
<1>4. QED  BY <1>1, <1>2, <1>3 DEF TuningInit, TunedInv, HookTrue

(* Between the hooks, one vehicle changes as it is ordered. *)
LEMMA OrderKeeps ==
    ASSUME TunedInv, Unhooked, Undrawn, NEW c \in TunedIds, NEW car, NEW want,
           CarTrue(car, want) \/ (car = NoVehicle /\ want = NoVehicle),
           tuned' = [tuned EXCEPT ![c] = car], tunedTo' = [tunedTo EXCEPT ![c] = want],
           model' \in ModelType, model'.size = Standard, model'.at = "model"
    PROVE  TunedInv'
<1>1. RestTrue /\ hook' = hook /\ hook.of = NoVehicle
  BY HooksApart DEF TunedInv, HookTrue, RestTrue, CollisionTrue, DrawingTrue, BeamTrue, Unhooked, Undrawn
<1>2. RestTrue'  BY <1>1 DEF RestTrue, Undrawn
<1>3. car \in CarType \cup {NoVehicle} /\ want \in WantType \cup {NoVehicle}  BY DEF CarTrue
<1>4. tuned' \in [TunedIds -> CarType \cup {NoVehicle}] /\ tunedTo' \in [TunedIds -> WantType \cup {NoVehicle}]
  BY <1>3 DEF TunedInv
<1>5. ASSUME NEW d \in TunedIds, tuned'[d] # NoVehicle PROVE CarTrue(tuned'[d], tunedTo'[d])
  <2>1. CASE d = c
    <3>1. tuned'[d] = car /\ tunedTo'[d] = want  BY <2>1 DEF TunedInv
    <3>2. QED  BY <1>5, <3>1
  <2>2. CASE d # c
    <3>1. tuned'[d] = tuned[d] /\ tunedTo'[d] = tunedTo[d]  BY <2>2 DEF TunedInv
    <3>2. QED  BY <1>5, <3>1 DEF TunedInv
  <2>3. QED  BY <2>1, <2>2
<1>6. \A d \in TunedIds : hook'.of # d  BY <1>1, HooksApart
<1>7. QED  BY <1>2, <1>4, <1>5, <1>6 DEF TunedInv, HookTrue

LEMMA UnhookedModel ==
    ASSUME TunedInv, Unhooked PROVE model.size = Standard /\ model.at = "model" /\ model \in ModelType
  BY HooksApart DEF TunedInv, HookTrue, RestTrue, CollisionTrue, DrawingTrue, BeamTrue, Unhooked

LEMMA IdleCar ==
    ASSUME TunedInv, NEW c \in TunedIds, tuned[c] # NoVehicle
    PROVE  /\ CarTrue(tuned[c], tunedTo[c]) /\ tuned[c] \in CarType /\ tunedTo[c] \in WantType
           /\ tuned \in [TunedIds -> CarType \cup {NoVehicle}] /\ tunedTo \in [TunedIds -> WantType \cup {NoVehicle}]
  BY DEF TunedInv, CarTrue

LEMMA AddKeepsTuned ==
    ASSUME TunedInv, NEW c \in TunedIds, NEW isCar \in BOOLEAN, NEW garbage \in Garbage, AddVehicle(c, isCar, garbage)
    PROVE  TunedInv'
<1>1. garbage \in [Axles -> TunedValues]
  <2>1. (IF tuningPart = "rims" THEN TunedValues ELSE {Standard}) \subseteq TunedValues  BY OrdersTyped
  <2>2. QED  BY <2>1 DEF Garbage
<1>2. Unhooked /\ Undrawn /\ tunedTo' = [tunedTo EXCEPT ![c] = NothingWanted]  BY DEF AddVehicle
<1>3. model.size = Standard /\ model.at = "model" /\ model \in ModelType  BY <1>2, UnhookedModel
<1> DEFINE made == SetComponentVisible(Made(isCar, garbage), DefaultParts)
           cars == Given(tuned, c, made)
           lines == LinesFor(Standard, Standard)
<1>4. made \in CarType /\ made.isCar = isCar /\ made.handling.spring = Standard
  <2>1. PICK m \in CarType : m = Made(isCar, garbage)  BY <1>1, MadeType
  <2>2. m.isCar = isCar /\ m.handling.spring = Standard  BY <2>1 DEF Made, NoHandling
  <2> DEFINE j == SetComponentVisible(m, DefaultParts)
  <2>3. j \in CarType /\ j.isCar = m.isCar /\ j.handling = m.handling  BY PartsVisible
  <2>4. j = made  BY <2>1
  <2> HIDE DEF j, made
  <2>5. QED  BY <2>2, <2>3, <2>4
<1>5. ModelAndCars = Both(tuned, model)  BY DEF ModelAndCars, Both
<1>6. [ModelAndCars EXCEPT !.cars[c] = made] = Both(cars, model)
  <2> HIDE DEF made
  <2>1. QED  BY <1>5 DEF Both, Given
<1>7. SetModelAndCars(CopyGlobalSuspensionLinesToPrivate(
        IF isCar THEN SetupSuspensionLines(Both(cars, model), c) ELSE Both(cars, model), c))
  <2> HIDE DEF cars
  <2>1. QED  BY <1>6, Zenon DEF AddVehicle
<1> DEFINE car == IF isCar THEN RidingOn(made, lines) ELSE made
<1>8. CarTrue(car, NothingWanted)  BY <1>1, CreatedTrue DEF RidingOn
<1> HIDE DEF made
<1>9. cars \in [TunedIds -> CarType \cup {NoVehicle}] /\ cars[c] = made
  BY <1>4 DEF Given, TunedInv
<1>10. /\ tuned' = [tuned EXCEPT ![c] = car]
       /\ model' \in ModelType /\ model'.size = Standard /\ model'.at = "model"
  <2>1. CASE isCar
    <3>1. SetsUp(cars, model, c, made, lines)
      BY <1>3, <1>4, <1>9, <2>1, OrdersTyped DEF SetsUp, LinesFor, LinesType
    <3>2. SetModelAndCars(Both(Given(cars, c, RidingOn(made, lines)), PointedTo(model, lines)))
      <4> HIDE DEF cars, lines
      <4>1. QED  BY <1>7, <2>1, <3>1, LinesSetUp
    <3>3. tuned' = Given(cars, c, RidingOn(made, lines)) /\ model' = PointedTo(model, lines)
      BY <3>2, BothParts DEF SetModelAndCars
    <3>4. lines \in LinesType  BY <3>1 DEF SetsUp
    <3>5. tuned' = [tuned EXCEPT ![c] = RidingOn(made, lines)]  BY <3>3 DEF Given
    <3>6. car = RidingOn(made, lines)  BY <2>1
    <3> HIDE DEF car, lines
    <3>7. QED  BY <1>3, <3>3, <3>4, <3>5, <3>6, PointedType
  <2>2. CASE ~isCar
    <3>1. Both(cars, model).cars[c].isCar = FALSE  BY <1>4, <1>9, <2>2, BothParts
    <3>2. SetModelAndCars(Both(cars, model))
      <4> HIDE DEF cars
      <4>1. QED  BY <1>7, <2>2, <3>1 DEF CopyGlobalSuspensionLinesToPrivate
    <3>3. tuned' = cars /\ model' = model  BY <3>2, BothParts DEF SetModelAndCars
    <3>4. QED  BY <1>3, <2>2, <3>3 DEF Given
  <2>3. QED  BY <2>1, <2>2
<1> HIDE DEF car
<1>11. QED  BY <1>2, <1>8, <1>10, OrderKeeps

LEMMA RemoveKeepsTuned ==
    ASSUME TunedInv, NEW c \in TunedIds, RemoveVehicle(c) PROVE TunedInv'
<1>1. Unhooked /\ Undrawn /\ model' = model  BY DEF RemoveVehicle, Idle
<1>2. QED  BY <1>1, UnhookedModel, OrderKeeps DEF RemoveVehicle

LEMMA HandlingKeepsTuned ==
    ASSUME TunedInv, NEW c \in TunedIds, NEW o \in HandlingOrder, CustomHandling(c, o) PROVE TunedInv'
<1>1. Unhooked /\ Undrawn /\ tuned[c] # NoVehicle /\ tuned[c].isCar  BY DEF CustomHandling, Idle
<1>2. PICK car, want, cars, m : car = tuned[c] /\ want = tunedTo[c] /\ cars = tuned /\ m = model  OBVIOUS
<1>3. /\ CarTrue(car, want) /\ car \in CarType /\ want \in WantType /\ car.isCar = TRUE
      /\ tuned \in [TunedIds -> CarType \cup {NoVehicle}] /\ tunedTo \in [TunedIds -> WantType \cup {NoVehicle}]
  <2>1. CarTrue(car, want) /\ car \in CarType /\ want \in WantType /\ car.isCar  BY <1>1, <1>2, IdleCar
  <2>2. car.isCar \in BOOLEAN  BY <2>1 DEF CarType
  <2>3. QED  BY <1>1, <2>1, <2>2, IdleCar
<1>4. model.size = Standard /\ model.at = "model" /\ model \in ModelType  BY <1>1, UnhookedModel
<1> DEFINE handling == [speed |-> Or(o.speed, Standard), spring |-> Or(o.spring, Standard), own |-> TRUE]
           size == Or(o.size, car.size)
           lines == IF o.spring = Leave /\ o.size = Leave THEN car.lines
                    ELSE LinesFor(Or(o.spring, Standard), size)
           due == IF o.spring = Leave /\ o.size = Leave THEN want.lines
                      ELSE LinesFor(Or(o.spring, Standard), size)
           r == SetHandlingData(Both(cars, m), c, o)
           k == RidingOn(Sized(WithHandling(car, handling), size), lines)
           w == [want EXCEPT !.size = size, !.lines = due]
<1>5. /\ r.cars = Given(cars, c, k)
      /\ r.model \in ModelType /\ r.model.size = Standard /\ r.model.at = "model"
      /\ handling \in HandlingType /\ size \in TunedValues /\ lines \in LinesType
  <2>1. cars \in [TunedIds -> CarType \cup {NoVehicle}] /\ cars[c] = car  BY <1>2, <1>3
  <2>2. m \in ModelType /\ m.size = Standard /\ m.at = "model"  BY <1>2, <1>4
  <2>3. RidesThere(cars, m, c, car)  BY <1>3, <2>1, <2>2 DEF RidesThere
  <2>4. QED  BY <2>3, HandlingSet
<1>6. tuned' = r.cars /\ model' = r.model
  <2>1. ModelAndCars = Both(cars, m)  BY <1>2 DEF ModelAndCars, Both
  <2>2. QED  BY <2>1 DEF CustomHandling, SetModelAndCars
<1>7. tunedTo' = [tunedTo EXCEPT ![c] = w]
  <2>1. want.size = car.size  BY <1>3 DEF CarTrue
  <2>2. size = Or(o.size, tunedTo[c].size)  BY <1>2, <2>1
  <2>3. tunedTo' = [tunedTo EXCEPT ![c].size = size, ![c].lines = due]
    BY <1>2, <1>3, <2>2 DEF CustomHandling, WantType
  <2> HIDE DEF size, due
  <2>4. QED  BY <1>2, <1>3, <2>3
<1>8. due \in LinesType /\ due.own = TRUE /\ (car.isCar => lines = due)
  <2>1. car.lines = want.lines /\ want.lines.own = TRUE /\ want.lines \in LinesType
    BY <1>3 DEF CarTrue, WantType
  <2>2. Or(o.spring, Standard) \in TunedValues  BY OrdersTyped DEF HandlingOrder
  <2>3. LinesFor(Or(o.spring, Standard), size) \in LinesType /\ LinesFor(Or(o.spring, Standard), size).own = TRUE
    BY <1>5, <2>2 DEF LinesFor, LinesType
  <2>4. QED  BY <2>1, <2>3
<1> HIDE DEF handling, size, lines, due, r
<1>9. k = [car EXCEPT !.handling = handling, !.size = size, !.lines = lines]
  BY DEF RidingOn, Sized, WithHandling
<1>10. CarTrue(k, w)
  <2> HIDE DEF k
  <2>1. QED  BY <1>3, <1>5, <1>8, <1>9, RidesTrue
<1> HIDE DEF k, w
<1>11. tuned' = [tuned EXCEPT ![c] = k]  BY <1>2, <1>5, <1>6 DEF Given
<1>12. QED  BY <1>1, <1>5, <1>6, <1>7, <1>10, <1>11, OrderKeeps

LEMMA DefaultsKeepTuned ==
    ASSUME TunedInv, NEW c \in TunedIds, CustomHandlingDefaults(c) PROVE TunedInv'
<1>1. Unhooked /\ Undrawn /\ tuned[c] # NoVehicle /\ tuned[c].isCar  BY DEF CustomHandlingDefaults, Idle
<1>2. PICK car, want, cars, m : car = tuned[c] /\ want = tunedTo[c] /\ cars = tuned /\ m = model  OBVIOUS
<1>3. /\ CarTrue(car, want) /\ car \in CarType /\ want \in WantType /\ car.isCar = TRUE
      /\ tuned \in [TunedIds -> CarType \cup {NoVehicle}] /\ tunedTo \in [TunedIds -> WantType \cup {NoVehicle}]
  <2>1. CarTrue(car, want) /\ car \in CarType /\ want \in WantType /\ car.isCar  BY <1>1, <1>2, IdleCar
  <2>2. car.isCar \in BOOLEAN  BY <2>1 DEF CarType
  <2>3. QED  BY <1>1, <2>1, <2>2, IdleCar
<1>4. model.size = Standard /\ model.at = "model" /\ model \in ModelType  BY <1>1, UnhookedModel
<1> DEFINE handling == [NoHandling EXCEPT !.own = TRUE]
           lines == LinesFor(Standard, Standard)
           r == ResetVehicleHandling(Both(cars, m), c)
           k == RidingOn(WithHandling(car, handling), lines)
           w == [want EXCEPT !.lines = lines]
<1>5. /\ r.cars = Given(cars, c, k)
      /\ r.model \in ModelType /\ r.model.size = Standard /\ r.model.at = "model"
      /\ handling \in HandlingType /\ lines \in LinesType /\ lines.own = TRUE
  <2>1. cars \in [TunedIds -> CarType \cup {NoVehicle}] /\ cars[c] = car  BY <1>2, <1>3
  <2>2. m \in ModelType /\ m.size = Standard /\ m.at = "model"  BY <1>2, <1>4
  <2>3. RidesThere(cars, m, c, car)  BY <1>3, <2>1, <2>2 DEF RidesThere
  <2>4. QED  BY <2>3, HandlingReset
<1>6. tuned' = r.cars /\ model' = r.model
  <2>1. ModelAndCars = Both(cars, m)  BY <1>2 DEF ModelAndCars, Both
  <2>2. QED  BY <2>1 DEF CustomHandlingDefaults, SetModelAndCars
<1>7. tunedTo' = [tunedTo EXCEPT ![c] = w]  BY <1>2, <1>3 DEF CustomHandlingDefaults
<1> HIDE DEF handling, lines, r
<1>8. k = [car EXCEPT !.handling = handling, !.size = car.size, !.lines = lines]
  BY <1>3 DEF RidingOn, WithHandling, CarType
<1>9. w = [want EXCEPT !.size = car.size, !.lines = lines]
  <2>1. car.size = want.size  BY <1>3 DEF CarTrue
  <2>2. QED  BY <1>3, <2>1 DEF WantType
<1>10. CarTrue(k, w)
  <2> HIDE DEF k, w
  <2>1. car.size \in TunedValues  BY <1>3 DEF CarType
  <2>2. QED  BY <1>3, <1>5, <1>8, <1>9, <2>1, RidesTrue
<1> HIDE DEF k, w
<1>11. tuned' = [tuned EXCEPT ![c] = k]  BY <1>2, <1>5, <1>6 DEF Given
<1>12. QED  BY <1>1, <1>5, <1>6, <1>7, <1>10, <1>11, OrderKeeps

LEMMA OrdersAsTyped ==
    /\ RimOrders \subseteq RimsType /\ OffsetOrders \subseteq RimsType
    /\ [speed : TuningOrders, spring : TuningOrders, size : TuningOrders] = HandlingOrder
<1> USE OrdersTyped
<1>1. Tuned \cup {Leave} \subseteq TuningOrders  BY DEF TuningOrders, TunedValues
<1>2. NoOrder \in RimsType  BY DEF NoOrder, RimsType, TuningOrders
<1>3. ASSUME NEW v \in TuningOrders PROVE [NoOrder EXCEPT !.light = v] \in RimsType /\ [NoOrder EXCEPT !.width = v] \in RimsType
  BY <1>2 DEF RimsType
<1>4. ASSUME NEW t \in [Axles -> Tuned \cup {Leave}]
      PROVE  [NoOrder EXCEPT !.tilt = t] \in RimsType /\ [NoOrder EXCEPT !.offset = t] \in RimsType
  <2>1. t \in [Axles -> TuningOrders]  BY <1>1
  <2>2. QED  BY <1>2, <2>1 DEF RimsType
<1>5. Tuned \subseteq TuningOrders  BY <1>1
<1>6. RimOrders \subseteq RimsType  BY <1>3, <1>4, <1>5 DEF RimOrders
<1>7. OffsetOrders \subseteq RimsType  BY <1>4 DEF OffsetOrders
<1>8. QED  BY <1>6, <1>7 DEF HandlingOrder

LEMMA RimsKeepTuned ==
    ASSUME TunedInv, NEW c \in TunedIds, NEW o \in RimsType, CustomRims(c, o) PROVE TunedInv'
<1>1. Unhooked /\ Undrawn /\ tuned[c] # NoVehicle /\ model' = model  BY DEF CustomRims, Idle
<1>2. PICK car, want : car = tuned[c] /\ want = tunedTo[c]  OBVIOUS
<1>3. CarTrue(car, want) /\ tunedTo \in [TunedIds -> WantType \cup {NoVehicle}]  BY <1>1, <1>2, IdleCar
<1> DEFINE k == ShiftedBoth(TurnedBoth(LitAndWide(car, o), o.tilt), o.offset)
           w == RimsWanted(want, car.isCar, o)
<1>4. CarTrue(k, w)  BY <1>3, RimsTrue
<1>5. tuned' = [tuned EXCEPT ![c] = k]
  <2> DEFINE Lit == IF o.light = Leave THEN tuned[c] ELSE SetHeadlightsColor(tuned[c], o.light)
             Broad == [Lit EXCEPT !.width = Or(o.width, @)]
  <2>1. Broad = LitAndWide(car, o)  BY <1>2, Zenon DEF LitAndWide
  <2>2. "X" \in Axles /\ "Y" \in Axles  BY DEF Axles
  <2>3. tuned' = [tuned EXCEPT ![c] = ShiftedBoth(TurnedBoth(Broad, o.tilt), o.offset)]
    BY <2>2 DEF CustomRims, ShiftedBoth, TurnedBoth, AxleShifted, AxleTurned
  <2> HIDE DEF Broad
  <2>4. QED  BY <2>1, <2>3
<1>6. tunedTo' = [tunedTo EXCEPT ![c] = w]
  <2>1. tunedTo' = [tunedTo EXCEPT ![c] = [tunedTo[c] EXCEPT
         !.width = Or(o.width, @),
         !.light = IF tuned[c].isCar THEN Or(o.light, @) ELSE @,
         !.tilt = [axle \in Axles |-> IF tuned[c].isCar THEN Or(o.tilt[axle], @[axle]) ELSE @[axle]],
         !.offset = [axle \in Axles |-> IF tuned[c].isCar THEN Or(o.offset[axle], @[axle]) ELSE @[axle]]]]
    BY <1>2, <1>3 DEF CustomRims
  <2>2. QED  BY <1>2, <2>1 DEF RimsWanted
<1> HIDE DEF k, w
<1>7. QED  BY <1>1, <1>4, <1>5, <1>6, UnhookedModel, OrderKeeps

LEMMA PartsKeepTuned ==
    ASSUME TunedInv, NEW c \in TunedIds,
           \/ \E components \in SUBSET TunedParts : CustomComponent(c, components)
           \/ \E p \in TunedParts, versions \in {{}, {"undamaged"}, {"damaged"}} : GameTouches(c, p, versions)
           \/ \E damaged, flat \in BOOLEAN : DamageVehicle(c, damaged, flat)
    PROVE  TunedInv'
<1>1. Unhooked /\ Undrawn /\ tuned[c] # NoVehicle /\ model' = model
  BY DEF CustomComponent, GameTouches, DamageVehicle, Idle
<1>2. PICK car, want : car = tuned[c] /\ want = tunedTo[c]  OBVIOUS
<1>3. /\ CarTrue(car, want) /\ car \in CarType /\ want \in WantType
      /\ tuned \in [TunedIds -> CarType \cup {NoVehicle}] /\ tunedTo \in [TunedIds -> WantType \cup {NoVehicle}]
  BY <1>1, <1>2, IdleCar
<1>4. /\ car.parts \in [TunedParts -> SUBSET {"undamaged", "damaged"}]
      /\ want.parts \in [TunedParts -> {"shown", "hidden", "any"}]
      /\ \A p \in TunedParts : PartTrue(car.parts[p], want.parts[p])
  BY <1>3 DEF CarType, WantType, CarTrue
<1>5. ASSUME NEW parts, NEW wish,
             parts \in [TunedParts -> SUBSET {"undamaged", "damaged"}],
             wish \in [TunedParts -> {"shown", "hidden", "any"}],
             \A p \in TunedParts : PartTrue(parts[p], wish[p]),
             tuned' = [tuned EXCEPT ![c] = [car EXCEPT !.parts = parts]],
             tunedTo' = [tunedTo EXCEPT ![c] = [want EXCEPT !.parts = wish]]
      PROVE  TunedInv'
  <2>1. PICK k, w : k = [car EXCEPT !.parts = parts] /\ w = [want EXCEPT !.parts = wish]  OBVIOUS
  <2>2. CarTrue(k, w)  BY <1>3, <1>5, <2>1, PartsTrue
  <2>3. tuned' = [tuned EXCEPT ![c] = k] /\ tunedTo' = [tunedTo EXCEPT ![c] = w]  BY <1>5, <2>1
  <2>4. QED  BY <1>1, <2>2, <2>3, UnhookedModel, OrderKeeps
<1>6. ASSUME NEW components \in SUBSET TunedParts, CustomComponent(c, components) PROVE TunedInv'
  <2> DEFINE parts == [p \in TunedParts |-> IF p \in components THEN {"undamaged"} ELSE {}]
             wish == [p \in TunedParts |-> IF p \in components THEN "shown" ELSE "hidden"]
  <2>1. SetComponentVisible(car, components) = [car EXCEPT !.parts = parts]
    BY DEF SetComponentVisible, SetComponentVisibleInternal
  <2>2. tuned' = [tuned EXCEPT ![c] = [car EXCEPT !.parts = parts]]
    <3> HIDE DEF parts
    <3>1. QED  BY <1>2, <1>6, <2>1 DEF CustomComponent
  <2>3. tunedTo' = [tunedTo EXCEPT ![c] = [want EXCEPT !.parts = wish]]
    BY <1>2, <1>3, <1>6 DEF CustomComponent
  <2>4. parts \in [TunedParts -> SUBSET {"undamaged", "damaged"}]  OBVIOUS
  <2>5. wish \in [TunedParts -> {"shown", "hidden", "any"}]  OBVIOUS
  <2>6. \A p \in TunedParts : PartTrue(parts[p], wish[p])  BY DEF PartTrue
  <2> HIDE DEF parts, wish
  <2>7. QED  BY <1>5, <2>2, <2>3, <2>4, <2>5, <2>6
<1>7. ASSUME NEW p \in TunedParts, NEW versions \in {{}, {"undamaged"}, {"damaged"}}, GameTouches(c, p, versions)
      PROVE  TunedInv'
  <2> DEFINE parts == [car.parts EXCEPT ![p] = versions]
             wish == [want.parts EXCEPT ![p] = "any"]
  <2>1. tuned' = [tuned EXCEPT ![c] = [car EXCEPT !.parts = parts]]
    BY <1>2, <1>3, <1>7 DEF GameTouches, CarType
  <2>2. tunedTo' = [tunedTo EXCEPT ![c] = [want EXCEPT !.parts = wish]]
    BY <1>2, <1>3, <1>7 DEF GameTouches, WantType
  <2>3. parts \in [TunedParts -> SUBSET {"undamaged", "damaged"}]
    <3>1. versions \in SUBSET {"undamaged", "damaged"}  OBVIOUS
    <3>2. QED  BY <1>4, <3>1
  <2>4. wish \in [TunedParts -> {"shown", "hidden", "any"}]  BY <1>4
  <2>5. \A q \in TunedParts : PartTrue(parts[q], wish[q])  BY <1>4 DEF PartTrue
  <2> HIDE DEF parts, wish
  <2>6. QED  BY <1>5, <2>1, <2>2, <2>3, <2>4, <2>5
<1>8. ASSUME NEW damaged \in BOOLEAN, NEW flat \in BOOLEAN, DamageVehicle(c, damaged, flat) PROVE TunedInv'
  <2> DEFINE wish == [p \in TunedParts |-> "any"]
             k == FixedWith(Mended(car, damaged), flat)
  <2>1. ASSUME NEW j, NEW old, old \in [TunedParts -> SUBSET {"undamaged", "damaged"}], j = [car EXCEPT !.parts = old]
        PROVE  \E parts \in [TunedParts -> SUBSET {"undamaged", "damaged"}] : Fix(j) = [car EXCEPT !.parts = parts]
    <3> DEFINE parts == [p \in TunedParts |-> IF "damaged" \in old[p] THEN {"undamaged"} ELSE old[p]]
    <3>1. j.parts = old  BY <1>3, <2>1 DEF CarType
    <3>2. Fix(j) = [j EXCEPT !.parts = [p \in TunedParts |-> IF "damaged" \in j.parts[p] THEN {"undamaged"} ELSE j.parts[p]]]
      BY <1>3, <2>1 DEF Fix, CarType
    <3>3. Fix(j) = [j EXCEPT !.parts = parts]  BY <3>1, <3>2
    <3>4. parts \in [TunedParts -> SUBSET {"undamaged", "damaged"}]  BY <2>1
    <3> HIDE DEF parts
    <3>5. [j EXCEPT !.parts = parts] = [car EXCEPT !.parts = parts]  BY <1>3, <2>1 DEF CarType
    <3>6. QED  BY <3>3, <3>4, <3>5
  <2>2. car = [car EXCEPT !.parts = car.parts]  BY <1>3 DEF CarType
  <2>3. PICK old \in [TunedParts -> SUBSET {"undamaged", "damaged"}] : Mended(car, damaged) = [car EXCEPT !.parts = old]
    BY <1>4, <2>1, <2>2 DEF Mended
  <2>4. PICK parts \in [TunedParts -> SUBSET {"undamaged", "damaged"}] : k = [car EXCEPT !.parts = parts]
    BY <2>1, <2>3 DEF FixedWith
  <2>5. tuned' = [tuned EXCEPT ![c] = k]  BY <1>2, <1>8 DEF DamageVehicle
  <2>6. tunedTo' = [tunedTo EXCEPT ![c] = [want EXCEPT !.parts = wish]]
    BY <1>2, <1>3, <1>8 DEF DamageVehicle
  <2>7. wish \in [TunedParts -> {"shown", "hidden", "any"}]  OBVIOUS
  <2>8. \A p \in TunedParts : PartTrue(parts[p], wish[p])  BY DEF PartTrue
  <2> HIDE DEF k, wish
  <2>9. QED  BY <1>5, <2>4, <2>5, <2>6, <2>7, <2>8
<1>9. QED  BY <1>6, <1>7, <1>8

LEMMA VanishKeepsTuned ==
    ASSUME TunedInv, NEW c \in TunedIds, Vanishes(c) PROVE TunedInv'
<1>1. Unhooked /\ Undrawn /\ tuned[c] # NoVehicle /\ model' = model /\ tunedTo' = tunedTo  BY DEF Vanishes, Idle
<1>2. PICK car, want : car = tuned[c] /\ want = tunedTo[c]  OBVIOUS
<1>3. CarTrue(car, want) /\ tunedTo \in [TunedIds -> WantType \cup {NoVehicle}]  BY <1>1, <1>2, IdleCar
<1>4. PICK k : k = [car EXCEPT !.there = FALSE]  OBVIOUS
<1>5. CarTrue(k, want)
  <2>1. 0 \in Nat /\ FALSE \in BOOLEAN  OBVIOUS
  <2>2. QED  BY <1>3, <1>4, <2>1, StaysTrue
<1>6. tuned' = [tuned EXCEPT ![c] = k] /\ tunedTo' = [tunedTo EXCEPT ![c] = want]
  BY <1>1, <1>2, <1>3, <1>4 DEF Vanishes
<1>7. QED  BY <1>1, <1>5, <1>6, UnhookedModel, OrderKeeps

LEMMA TimeKeepsTuned == TunedInv /\ TimeGoes => TunedInv'
<1> SUFFICES ASSUME TunedInv, TimeGoes PROVE TunedInv'  OBVIOUS
<1>1. Unhooked /\ Undrawn /\ model' = model /\ tunedTo' = tunedTo  BY DEF TimeGoes
<1>2. RestTrue /\ hook' = hook /\ hook.of = NoVehicle
  BY <1>1, HooksApart DEF TunedInv, HookTrue, RestTrue, CollisionTrue, DrawingTrue, BeamTrue, Unhooked, Undrawn
<1>3. RestTrue'  BY <1>1, <1>2 DEF RestTrue, Undrawn
<1>4. ASSUME NEW c \in TunedIds
      PROVE  /\ tuned'[c] \in CarType \cup {NoVehicle}
             /\ tuned'[c] # NoVehicle => CarTrue(tuned'[c], tunedTo'[c])
  <2>1. tuned'[c] = IF tuned[c] = NoVehicle \/ tuned[c].age > OffsetRest THEN tuned[c]
                    ELSE [tuned[c] EXCEPT !.age = @ + 1]
    BY DEF TimeGoes
  <2>2. CASE tuned[c] = NoVehicle \/ tuned[c].age > OffsetRest  BY <1>1, <2>1, <2>2 DEF TunedInv
  <2>3. CASE tuned[c] # NoVehicle /\ ~(tuned[c].age > OffsetRest)
    <3>1. PICK car, want : car = tuned[c] /\ want = tunedTo[c]  OBVIOUS
    <3>2. CarTrue(car, want) /\ car \in CarType  BY <2>3, <3>1, IdleCar
    <3>3. PICK age \in Nat : age = car.age + 1
      <4>1. car.age + 1 \in Nat  BY <3>2 DEF CarType
      <4>2. QED  BY <4>1
    <3>4. PICK k : k = [car EXCEPT !.age = age]  OBVIOUS
    <3>5. CarTrue(k, want)
      <4>1. TRUE \in BOOLEAN  OBVIOUS
      <4>2. QED  BY <3>2, <3>4, <4>1, StaysTrue
    <3>6. tuned'[c] = k  BY <2>1, <2>3, <3>1, <3>2, <3>3, <3>4 DEF CarType
    <3>7. QED  BY <1>1, <3>1, <3>5, <3>6 DEF CarTrue
  <2>4. QED  BY <2>2, <2>3
<1>5. tuned' \in [TunedIds -> CarType \cup {NoVehicle}]  BY <1>4 DEF TimeGoes
<1>6. \A d \in TunedIds : hook'.of # d  BY <1>2, HooksApart
<1>7. QED  BY <1>1, <1>3, <1>4, <1>5, <1>6 DEF TunedInv, HookTrue

(* A hook is called for a vehicle the game still has. *)
LEMMA HookBegins ==
    ASSUME TunedInv, Unhooked, NEW v \in TunedIds \cup {Other}, Seen(v), NEW call, hook' = [call |-> call, of |-> v]
    PROVE  /\ hook'.of \in TunedIds \cup {Other} /\ hook' = [call |-> hook'.call, of |-> hook'.of]
           /\ hook'.call = call /\ hook'.of = v
           /\ g_pLastProcessedVehicleMatrix = NoVehicle /\ sight = NothingSeen
           /\ model.size = Standard /\ model.at = "model" /\ model \in ModelType
           /\ \A c \in TunedIds : tuned[c] # NoVehicle \/ hook'.of = c => CarTrue(tuned[c], tunedTo[c])
           /\ v # Other => v \in TunedIds /\ CarTrue(tuned[v], tunedTo[v])
<1>1. hook'.call = call /\ hook'.of = v  OBVIOUS
<1>2. v # Other => v \in TunedIds /\ tuned[v] # NoVehicle  BY DEF Seen, InGame
<1>3. RestTrue
  BY HooksApart DEF TunedInv, HookTrue, RestTrue, CollisionTrue, DrawingTrue, BeamTrue, Unhooked
<1>4. \A c \in TunedIds : tuned[c] # NoVehicle \/ hook'.of = c => CarTrue(tuned[c], tunedTo[c])
  BY <1>1, <1>2, HooksApart DEF TunedInv
<1>5. QED  BY <1>1, <1>2, <1>3, <1>4 DEF RestTrue, TunedInv

LEMMA CollisionBeginKeeps ==
    ASSUME TunedInv, NEW v \in TunedIds \cup {Other}, CollisionBegins(v) PROVE TunedInv'
<1>1. /\ Unhooked /\ Seen(v) /\ hook' = [call |-> "collision", of |-> v]
      /\ model' = IF v # Other /\ tuned[v].lines.own THEN [model EXCEPT !.at = v] ELSE model
      /\ UNCHANGED <<tuned, tunedTo, g_pLastProcessedVehicleMatrix, sight>>
  BY DEF CollisionBegins
<1>2. /\ hook'.of \in TunedIds \cup {Other} /\ hook' = [call |-> hook'.call, of |-> hook'.of]
      /\ hook'.call = "collision" /\ hook'.of = v
      /\ g_pLastProcessedVehicleMatrix = NoVehicle /\ sight = NothingSeen
      /\ model.size = Standard /\ model.at = "model" /\ model \in ModelType
      /\ \A c \in TunedIds : tuned[c] # NoVehicle \/ hook'.of = c => CarTrue(tuned[c], tunedTo[c])
      /\ v # Other => v \in TunedIds /\ CarTrue(tuned[v], tunedTo[v])
  BY <1>1, HookBegins
<1>3. v # Other => (tuned[v].lines.own <=> tuned[v].lines.own = TRUE)
  <2>1. ASSUME v # Other PROVE tuned[v].lines.own \in BOOLEAN
    BY <1>2, <2>1 DEF CarTrue, CarType, LinesType
  <2>2. QED  BY <2>1
<1>4. /\ model' \in ModelType /\ model'.size = Standard
      /\ model'.at = IF v # Other /\ tuned[v].lines.own = TRUE THEN v ELSE "model"
  <2>1. CASE v # Other /\ tuned[v].lines.own
    <3>1. model' = [model EXCEPT !.at = v] /\ v \in TunedIds  BY <1>1, <1>2, <2>1
    <3>2. model' \in ModelType /\ model'.size = Standard /\ model'.at = v  BY <1>2, <3>1 DEF ModelType
    <3>3. QED  BY <1>3, <2>1, <3>2
  <2>2. CASE ~(v # Other /\ tuned[v].lines.own)
    <3>1. model' = model  BY <1>1, <2>2
    <3>2. QED  BY <1>2, <1>3, <2>2, <3>1
  <2>3. QED  BY <2>1, <2>2
<1>5. CollisionTrue'  BY <1>1, <1>2, <1>4 DEF CollisionTrue
<1>6. QED  BY <1>1, <1>2, <1>4, <1>5 DEF TunedInv, HookTrue

LEMMA CollisionEndKeeps == TunedInv /\ CollisionEnds => TunedInv'
<1> SUFFICES ASSUME TunedInv, CollisionEnds PROVE TunedInv'  OBVIOUS
<1>1. CollisionTrue
  BY HooksApart DEF CollisionEnds, TunedInv, HookTrue, RestTrue, DrawingTrue, BeamTrue
<1>2. model' \in ModelType /\ model'.size = Standard /\ model'.at = "model"
  BY <1>1 DEF CollisionEnds, TunedInv, CollisionTrue, ModelType
<1>3. RestTrue'  BY <1>1, <1>2 DEF RestTrue, CollisionTrue, CollisionEnds
<1>4. hook'.of = NoVehicle /\ tuned' = tuned /\ tunedTo' = tunedTo  BY HooksApart DEF CollisionEnds
<1>5. QED  BY <1>2, <1>3, <1>4, HooksApart DEF TunedInv, HookTrue

LEMMA BeamKeeps ==
    ASSUME TunedInv, BeamEnds \/ \E v \in TunedIds \cup {Other} : BeamBegins(v) PROVE TunedInv'
<1>1. CASE BeamEnds
  <2>1. BeamTrue
    BY <1>1, HooksApart DEF BeamEnds, TunedInv, HookTrue, RestTrue, DrawingTrue, CollisionTrue
  <2>2. RestTrue'  BY <1>1, <2>1 DEF RestTrue, BeamTrue, BeamEnds
  <2>3. hook'.of = NoVehicle /\ tuned' = tuned /\ tunedTo' = tunedTo /\ model' = model
    BY <1>1, HooksApart DEF BeamEnds
  <2>4. QED  BY <2>2, <2>3, HooksApart DEF TunedInv, HookTrue
<1>2. ASSUME NEW v \in TunedIds \cup {Other}, BeamBegins(v) PROVE TunedInv'
  <2>1. /\ Unhooked /\ Seen(v) /\ hook' = [call |-> "beam", of |-> v]
        /\ sight' = [NothingSeen EXCEPT !.of = v, !.light = ProcessHeadlightsColor(v, Standard)]
        /\ UNCHANGED <<tuned, tunedTo, model, g_pLastProcessedVehicleMatrix>>
    BY <1>2 DEF BeamBegins
  <2>2. /\ hook'.of \in TunedIds \cup {Other} /\ hook' = [call |-> hook'.call, of |-> hook'.of]
        /\ hook'.call = "beam" /\ hook'.of = v
        /\ g_pLastProcessedVehicleMatrix = NoVehicle
        /\ model.size = Standard /\ model.at = "model" /\ model \in ModelType
        /\ \A c \in TunedIds : tuned[c] # NoVehicle \/ hook'.of = c => CarTrue(tuned[c], tunedTo[c])
        /\ v # Other => v \in TunedIds /\ CarTrue(tuned[v], tunedTo[v])
    BY <2>1, HookBegins
  <2>3. ProcessHeadlightsColor(v, Standard) = IF v = Other THEN Standard ELSE tunedTo[v].light
    BY <2>2 DEF ProcessHeadlightsColor, CarTrue
  <2>4. BeamTrue'  BY <2>1, <2>2, <2>3 DEF BeamTrue
  <2>5. QED  BY <2>1, <2>2, <2>4 DEF TunedInv, HookTrue
<1>3. QED  BY <1>1, <1>2

LEMMA DrawBeginKeeps ==
    ASSUME TunedInv, NEW v \in TunedIds \cup {Other}, PreRenderBegins(v) PROVE TunedInv'
<1>1. /\ Unhooked /\ Seen(v) /\ hook' = [call |-> "prerender", of |-> v]
      /\ UNCHANGED <<tunedTo, sight>>
  BY DEF PreRenderBegins
<1>2. /\ hook'.of \in TunedIds \cup {Other} /\ hook' = [call |-> hook'.call, of |-> hook'.of]
      /\ hook'.call = "prerender" /\ hook'.of = v
      /\ g_pLastProcessedVehicleMatrix = NoVehicle /\ sight = NothingSeen
      /\ model.size = Standard /\ model.at = "model" /\ model \in ModelType
      /\ \A c \in TunedIds : tuned[c] # NoVehicle \/ hook'.of = c => CarTrue(tuned[c], tunedTo[c])
      /\ v # Other => v \in TunedIds /\ CarTrue(tuned[v], tunedTo[v])
  BY <1>1, HookBegins
<1>3. CASE v = Other
  <2>1. UNCHANGED <<tuned, model, g_pLastProcessedVehicleMatrix>>  BY <1>3 DEF PreRenderBegins
  <2>2. DrawingTrue'  BY <1>1, <1>2, <1>3, <2>1 DEF DrawingTrue
  <2>3. QED  BY <1>1, <1>2, <2>1, <2>2 DEF TunedInv, HookTrue
<1>4. CASE v # Other
  <2>1. /\ tuned' = [tuned EXCEPT ![v] = ProcessWheelsOffset(@)] /\ g_pLastProcessedVehicleMatrix' = v
        /\ model' = IF tuned[v].size = Standard THEN model ELSE [model EXCEPT !.size = tuned[v].size]
    BY <1>4 DEF PreRenderBegins
  <2>2. PICK car, want, k : car = tuned[v] /\ want = tunedTo[v] /\ k = ProcessWheelsOffset(car)  OBVIOUS
  <2>3. /\ CarTrue(k, want) /\ k.age = car.age
        /\ k.age > OffsetRest => \A axle \in Axles : k.offset[axle].at = want.offset[axle]
    BY <1>2, <1>4, <2>2, WheelsMoved
  <2>4. v \in TunedIds /\ CarTrue(car, want) /\ tuned' = [tuned EXCEPT ![v] = k]  BY <1>2, <1>4, <2>1, <2>2
  <2>5. tuned' \in [TunedIds -> CarType \cup {NoVehicle}] /\ tuned'[v] = k
    BY <2>3, <2>4 DEF TunedInv, CarTrue
  <2>6. ASSUME NEW c \in TunedIds, tuned'[c] # NoVehicle \/ hook'.of = c PROVE CarTrue(tuned'[c], tunedTo'[c])
    <3>1. CASE c = v  BY <1>1, <2>2, <2>3, <2>5, <3>1
    <3>2. CASE c # v
      <4>1. tuned'[c] = tuned[c]  BY <2>4, <3>2 DEF TunedInv
      <4>2. QED  BY <1>1, <1>2, <2>6, <4>1
    <3>3. QED  BY <3>1, <3>2
  <2>7. model' \in ModelType /\ model'.at = "model"
    <3>1. car.size \in TunedValues  BY <2>4 DEF CarTrue, CarType
    <3>2. QED  BY <1>2, <2>1, <2>2, <3>1 DEF ModelType
  <2>8. hook'.of # Other /\ tuned'[hook'.of].age > OffsetRest =>
          \A axle \in Axles : tuned'[hook'.of].offset[axle].at = tunedTo'[hook'.of].offset[axle]
    BY <1>1, <1>2, <2>2, <2>3, <2>5
  <2>9. DrawingTrue'  BY <1>1, <1>2, <1>4, <2>1, <2>7, <2>8 DEF DrawingTrue
  <2>10. QED  BY <1>1, <1>2, <2>5, <2>6, <2>7, <2>9 DEF TunedInv, HookTrue
<1>5. QED  BY <1>3, <1>4

LEMMA DrawEndKeeps == TunedInv /\ PreRenderEnds => TunedInv'
<1> SUFFICES ASSUME TunedInv, PreRenderEnds PROVE TunedInv'  OBVIOUS
<1>1. DrawingTrue
  BY HooksApart DEF PreRenderEnds, TunedInv, HookTrue, RestTrue, CollisionTrue, BeamTrue
<1>2. model' \in ModelType /\ model'.size = Standard /\ model'.at = "model"
  BY <1>1, OrdersTyped DEF PreRenderEnds, TunedInv, DrawingTrue, ModelType
<1>3. RestTrue'  BY <1>1, <1>2 DEF RestTrue, DrawingTrue, PreRenderEnds
<1>4. hook'.of = NoVehicle /\ tuned' = tuned /\ tunedTo' = tunedTo  BY HooksApart DEF PreRenderEnds
<1>5. QED  BY <1>2, <1>3, <1>4, HooksApart DEF TunedInv, HookTrue

LEMMA WheelKeeps ==
    ASSUME TunedInv, NEW axle \in Axles, WheelDrawn(axle) PROVE TunedInv'
<1>1. /\ hook.call = "prerender" /\ UNCHANGED <<tuned, tunedTo, model, hook, g_pLastProcessedVehicleMatrix>>
      /\ g_iLastProcessedWheelVehicle' =
           IF g_pLastProcessedVehicleMatrix = NoVehicle THEN g_iLastProcessedWheelVehicle ELSE Node[axle]
      /\ sight' = Scaled(Rotated([NothingSeen EXCEPT !.of = hook.of, !.axle = axle],
                                 g_pLastProcessedVehicleMatrix, g_iLastProcessedWheelVehicle'),
                         g_pLastProcessedVehicleMatrix)
  BY DEF WheelDrawn
<1>2. DrawingTrue /\ hook.of \in TunedIds \cup {Other} /\ hook = [call |-> hook.call, of |-> hook.of]
  BY <1>1, HooksApart DEF TunedInv, HookTrue, RestTrue, CollisionTrue, BeamTrue
<1>3. PICK bare : bare = [NothingSeen EXCEPT !.of = hook.of, !.axle = axle]  OBVIOUS
<1>4. /\ bare.of = hook.of /\ bare.axle = axle /\ bare.tilt = Standard
      /\ DOMAIN bare = {"of", "axle", "size", "width", "tilt", "light"}
  BY <1>3 DEF NothingSeen
<1>5. WheelSeen(sight', hook.of)
  <2>1. CASE hook.of = Other
    <3>1. g_pLastProcessedVehicleMatrix = NoVehicle  BY <1>2, <2>1 DEF DrawingTrue
    <3>2. sight' = bare  BY <1>1, <1>3, <3>1 DEF Scaled, Rotated
    <3>3. sight' = [NothingSeen EXCEPT !.of = Other, !.axle = sight'.axle]  BY <1>3, <1>4, <2>1, <3>2
    <3>4. QED  BY <2>1, <3>3 DEF WheelSeen
  <2>2. CASE hook.of # Other
    <3>1. PICK v \in TunedIds : v = hook.of  BY <1>2, <2>2
    <3>2. g_pLastProcessedVehicleMatrix = v /\ v # NoVehicle  BY <1>2, <2>2, <3>1, HooksApart DEF DrawingTrue
    <3>3. PICK car, want : car = tuned[v] /\ want = tunedTo[v]  OBVIOUS
    <3>4. CarTrue(car, want)  BY <3>1, <3>3 DEF TunedInv
    <3>5. (CHOOSE a \in Axles : Node[a] = Node[axle]) = axle
      <4>1. Node["X"] = 2 /\ Node["Y"] = 4  BY DEF Node
      <4>2. \A a, b \in Axles : Node[a] = Node[b] => a = b  BY <4>1 DEF Axles
      <4>3. QED  BY <4>2
    <3>6. PICK turned : turned = Rotated(bare, v, Node[axle])  OBVIOUS
    <3>7. turned = IF \A a \in Axles : ~car.alignment[a].set THEN bare
                   ELSE [bare EXCEPT !.tilt = car.alignment[axle].angle]
      BY <3>2, <3>3, <3>5, <3>6 DEF Rotated
    <3>8. /\ turned.of = v /\ turned.axle = axle
          /\ turned.tilt = IF \A a \in Axles : ~car.alignment[a].set THEN Standard ELSE car.alignment[axle].angle
          /\ DOMAIN turned = {"of", "axle", "size", "width", "tilt", "light"}
      <4>1. CASE \A a \in Axles : ~car.alignment[a].set  BY <1>4, <3>1, <3>7, <4>1
      <4>2. CASE ~ \A a \in Axles : ~car.alignment[a].set  BY <1>4, <3>1, <3>7, <4>2
      <4>3. QED  BY <4>1, <4>2
    <3>9. sight' = [turned EXCEPT !.size = car.size, !.width = car.width]
      <4>1. g_iLastProcessedWheelVehicle' = Node[axle]  BY <1>1, <3>2
      <4>2. sight' = Scaled(turned, v)  BY <1>1, <1>3, <3>2, <3>6, <4>1
      <4>3. QED  BY <3>2, <3>3, <4>2 DEF Scaled
    <3>10. /\ sight'.of = v /\ sight'.axle = axle /\ sight'.size = car.size /\ sight'.width = car.width
           /\ sight'.tilt = turned.tilt
      BY <3>8, <3>9
    <3>11. car.size = want.size /\ car.width = want.width  BY <3>4 DEF CarTrue
    <3>12. \A a \in Axles : TiltTrue(car.alignment[a], want.tilt[a])  BY <3>4 DEF CarTrue
    <3>13. IF want.tilt[axle] # Leave THEN turned.tilt = want.tilt[axle]
           ELSE (\A a \in Axles : want.tilt[a] = Leave) => turned.tilt = Standard
      BY <3>8, <3>12 DEF TiltTrue
    <3>14. QED  BY <2>2, <3>1, <3>3, <3>10, <3>11, <3>13 DEF WheelSeen
  <2>3. QED  BY <2>1, <2>2
<1>6. DrawingTrue'  BY <1>1, <1>2, <1>5 DEF DrawingTrue, WheelSeen
<1>7. QED  BY <1>1, <1>2, <1>6 DEF TunedInv, HookTrue

LEMMA TunedStep == TunedInv /\ [TuningNext]_tuningVars => TunedInv'
<1> SUFFICES ASSUME TunedInv, [TuningNext]_tuningVars PROVE TunedInv'  OBVIOUS
<1>1. CASE UNCHANGED tuningVars
  BY <1>1 DEF tuningVars, TunedInv, HookTrue, RestTrue, CollisionTrue, DrawingTrue, BeamTrue, WheelSeen
<1>2. ASSUME tuningPart = "riding", RidingNext PROVE TunedInv'
  BY <1>2, OrdersAsTyped, HandlingKeepsTuned, DefaultsKeepTuned, VanishKeepsTuned, CollisionBeginKeeps, CollisionEndKeeps
  DEF RidingNext
<1>3. ASSUME tuningPart = "rims", RimsNext PROVE TunedInv'
  BY <1>3, OrdersAsTyped, RimsKeepTuned, BeamKeeps DEF RimsNext
<1>4. ASSUME tuningPart = "offsets", OffsetsNext PROVE TunedInv'
  BY <1>4, OrdersAsTyped, RimsKeepTuned, TimeKeepsTuned DEF OffsetsNext
<1>5. ASSUME tuningPart = "parts", ComponentsNext PROVE TunedInv'
  BY <1>5, PartsKeepTuned DEF ComponentsNext
<1>6. QED
  BY <1>1, <1>2, <1>3, <1>4, <1>5, AddKeepsTuned, RemoveKeepsTuned, DrawBeginKeeps, DrawEndKeeps, WheelKeeps
  DEF TuningNext

(* However many vehicles share a model, and whatever was ordered of each:  *)
(* a vehicle rides on its own suspension, is drawn with its own wheels and *)
(* lights, shows its own parts, and the model is the game's own again      *)
(* after every hook.                                                       *)
THEOREM TuningStaysOwn == ClientSpec => []TunedAsOrdered
<1>1. ClientInit => TunedInv  BY TunedStart DEF ClientInit
<1>2. TunedInv /\ [ClientNext]_clientVars => TunedInv'
  <2> SUFFICES ASSUME TunedInv, [ClientNext]_clientVars PROVE TunedInv'
    OBVIOUS
  <2>1. [TuningNext]_tuningVars  BY DEF ClientNext, clientVars
  <2>2. QED  BY <2>1, TunedStep
<1>3. TunedInv => TunedAsOrdered  BY TunedHolds
<1>4. QED  BY <1>1, <1>2, <1>3, PTL DEF ClientSpec

-----------------------------------------------------------------------------
(* Folds, one step after the other *)

(* Induction over numbers and over the subsets of a finite set, of what    *)
(* holds for the members of a set.                                         *)
LEMMA CountingUp ==
    ASSUME NEW T, 0 \in T, \A n \in Nat : n \in T => n + 1 \in T
    PROVE  Nat \subseteq T
<1> SUFFICES ASSUME ~(Nat \subseteq T) PROVE FALSE  OBVIOUS
<1> DEFINE B == Nat \ T
<1>1. B # {} /\ B \subseteq Nat  OBVIOUS
<1>2. PICK n \in B : \A k \in B : <<k, n>> \notin OpToRel(<, Nat)
  <2> HIDE DEF B
  <2> QED  BY <1>1, NatLessThanWellFounded, WFMin
<1>3. n # 0 /\ n - 1 \in Nat  OBVIOUS
<1>4. <<n - 1, n>> \in OpToRel(<, Nat)  BY <1>3, n - 1 < n DEF OpToRel
<1>5. n - 1 \notin B  BY <1>2, <1>4
<1>6. n - 1 \in T /\ n \in Nat /\ n \notin T /\ n = (n - 1) + 1  BY <1>3, <1>5
<1>7. QED  BY <1>3, <1>6

LEMMA Subsets ==
    ASSUME NEW S, IsFiniteSet(S), NEW T, {} \in T,
           \A s \in SUBSET S : s # {} /\ (\A r \in SUBSET s : r # s => r \in T) => s \in T
    PROVE  SUBSET S \subseteq T
<1> SUFFICES ASSUME ~(SUBSET S \subseteq T) PROVE FALSE  OBVIOUS
<1> DEFINE B == (SUBSET S) \ T
<1>1. B # {} /\ B \subseteq FiniteSubsetsOf(S)
  BY FS_Subset DEF FiniteSubsetsOf
<1>2. IsWellFoundedOn(StrictSubsetOrdering(S), FiniteSubsetsOf(S))
  BY FS_StrictSubsetOrderingWellFounded
<1>3. PICK s \in B : \A r \in B : <<r, s>> \notin StrictSubsetOrdering(S)
  <2> HIDE DEF B
  <2> QED  BY <1>1, <1>2, WFMin
<1>4. \A r \in SUBSET s : r # s => r \in T  BY <1>3 DEF StrictSubsetOrdering
<1>5. QED  BY <1>3, <1>4

Picked(s) == CHOOSE x \in s : TRUE

(* A fold's table, from the sets to their results, in the order of pick. *)
FoldsBy(pick, iter, S, base, op) ==
    iter = [s \in SUBSET S |-> IF s = {} THEN base ELSE op[<<pick[s], iter[s \ {pick[s]}]>>]]

(* There is such a table, if the steps stay among the values.  *)
LEMMA FoldByExists ==
    ASSUME NEW S, IsFiniteSet(S), NEW V, NEW base \in V, NEW op \in [S \X V -> V],
           NEW pick, \A s \in SUBSET S : s # {} => pick[s] \in s
    PROVE  \E iter \in [SUBSET S -> V] : FoldsBy(pick, iter, S, base, op)
<1> DEFINE Small(n) == {s \in SUBSET S : Cardinality(s) <= n}
           Solves(g, n) == \A s \in Small(n) :
                              g[s] = IF s = {} THEN base ELSE op[<<pick[s], g[s \ {pick[s]}]>>]
           T == {n \in Nat : \E g \in [Small(n) -> V] : Solves(g, n)}
<1>1. \A s \in SUBSET S : IsFiniteSet(s) /\ Cardinality(s) \in Nat
  BY FS_Subset, FS_CardinalityType
<1>2. \A s \in SUBSET S : s # {} =>
         /\ pick[s] \in s /\ s \ {pick[s]} \in SUBSET S
         /\ Cardinality(s \ {pick[s]}) = Cardinality(s) - 1
  BY <1>1, FS_RemoveElement
<1>3. 0 \in T
  <2> DEFINE g == [s \in Small(0) |-> base]
  <2>1. \A s \in Small(0) : s = {}  BY <1>1, FS_EmptySet
  <2>2. g \in [Small(0) -> V] /\ Solves(g, 0)  BY <2>1
  <2>3. QED  BY <2>2
<1>4. ASSUME NEW n \in Nat, n \in T PROVE n + 1 \in T
  <2>1. PICK g \in [Small(n) -> V] : Solves(g, n)  BY <1>4
  <2> DEFINE h == [s \in Small(n + 1) |->
                      IF Cardinality(s) <= n THEN g[s] ELSE op[<<pick[s], g[s \ {pick[s]}]>>]]
  <2>2. \A s \in Small(n + 1) : s # {} => s \ {pick[s]} \in Small(n) /\ pick[s] \in S
    BY <1>1, <1>2
  <2>3. \A s \in Small(n + 1) : Cardinality(s) <= n \/ s # {}
    BY <1>1, FS_EmptySet
  <2>4. \A s \in Small(n) : s \in Small(n + 1) /\ h[s] = g[s]  BY <1>1
  <2>5. h \in [Small(n + 1) -> V]
    <3> SUFFICES ASSUME NEW s \in Small(n + 1) PROVE h[s] \in V  OBVIOUS
    <3>1. CASE Cardinality(s) <= n  BY <3>1
    <3>2. CASE ~(Cardinality(s) <= n)
      <4>1. g[s \ {pick[s]}] \in V /\ pick[s] \in S  BY <2>2, <2>3, <3>2
      <4>2. h[s] = op[<<pick[s], g[s \ {pick[s]}]>>]  BY <3>2
      <4> HIDE DEF h
      <4>3. QED  BY <4>1, <4>2
    <3>3. QED  BY <3>1, <3>2
  <2>6. Solves(h, n + 1)
    <3> SUFFICES ASSUME NEW s \in Small(n + 1)
                 PROVE  h[s] = IF s = {} THEN base ELSE op[<<pick[s], h[s \ {pick[s]}]>>]
      OBVIOUS
    <3>1. s # {} => h[s \ {pick[s]}] = g[s \ {pick[s]}]  BY <2>2, <2>4
    <3>2. CASE Cardinality(s) <= n
      <4>1. s \in Small(n) /\ h[s] = g[s]  BY <3>2
      <4> HIDE DEF h
      <4>2. QED  BY <2>1, <3>1, <4>1
    <3>3. CASE ~(Cardinality(s) <= n)
      <4>1. s # {} /\ h[s] = op[<<pick[s], g[s \ {pick[s]}]>>]  BY <2>3, <3>3
      <4> HIDE DEF h
      <4>2. QED  BY <3>1, <4>1
    <3>4. QED  BY <3>2, <3>3
  <2> HIDE DEF h, Small, Solves
  <2>7. QED  BY <2>5, <2>6, n + 1 \in Nat
<1>5. Cardinality(S) \in T
  <2> HIDE DEF T
  <2>1. Nat \subseteq T  BY <1>3, <1>4, CountingUp
  <2>2. QED  BY <2>1, FS_CardinalityType
<1>6. Small(Cardinality(S)) = SUBSET S  BY <1>1, FS_Subset
<1>7. PICK g \in [SUBSET S -> V] : Solves(g, Cardinality(S))  BY <1>5, <1>6
<1>8. \A s \in SUBSET S : g[s] = IF s = {} THEN base ELSE op[<<pick[s], g[s \ {pick[s]}]>>]
  BY <1>6, <1>7
<1>9. g = [s \in SUBSET S |-> IF s = {} THEN base ELSE op[<<pick[s], g[s \ {pick[s]}]>>]]
  <2>1. g = [s \in SUBSET S |-> g[s]]  BY <1>7
  <2>2. QED  BY <1>8, <2>1, Zenon
<1>10. QED  BY <1>7, <1>9 DEF FoldsBy

(* The order of the library's folds over sets. *)
Folds(iter, S, base, op) ==
    iter = [s \in SUBSET S |-> IF s = {} THEN base ELSE op[<<Picked(s), iter[s \ {Picked(s)}]>>]]

LEMMA FoldExists ==
    ASSUME NEW S, IsFiniteSet(S), NEW V, NEW base \in V, NEW op \in [S \X V -> V]
    PROVE  \E iter \in [SUBSET S -> V] : Folds(iter, S, base, op)
<1> DEFINE pick == [s \in SUBSET S |-> Picked(s)]
<1>1. \A s \in SUBSET S : pick[s] = Picked(s) /\ (s # {} => pick[s] \in s)  BY DEF Picked
<1> HIDE DEF pick
<1>2. PICK iter \in [SUBSET S -> V] : FoldsBy(pick, iter, S, base, op)  BY <1>1, FoldByExists
<1>3. iter = [s \in SUBSET S |-> IF s = {} THEN base ELSE op[<<pick[s], iter[s \ {pick[s]}]>>]]
  BY <1>2 DEF FoldsBy
<1>4. iter = [s \in SUBSET S |-> IF s = {} THEN base ELSE op[<<Picked(s), iter[s \ {Picked(s)}]>>]]
  BY <1>1, <1>3
<1>5. QED  BY <1>2, <1>4 DEF Folds

-----------------------------------------------------------------------------
(* Looks of vehicles *)

Coats == Textures \cup {NoTexture}
Spots == 0 .. MaxReplaced

(* Where a vehicle holds textures: in its slots, and its shadow's at 0. *)
Coat(look) == [h \in Spots |-> IF h = 0 THEN look.shadow ELSE look.m_szReplacedTextures[h].pTexture]
Tally(coat, t) == Cardinality({h \in Spots : coat[h] = t})

GoodLook(look) ==
    /\ look \in Look
    /\ look.m_bShadow \/ look.shadow = NoTexture
    /\ \A i \in Slots : look.m_szReplacedTextures[i].szOld = Free =>
           look.m_szReplacedTextures[i].pTexture = NoTexture
    /\ \A i, j \in Slots :
           /\ look.m_szReplacedTextures[i].szOld = look.m_szReplacedTextures[j].szOld
           /\ look.m_szReplacedTextures[i].szOld # Free
           => i = j

ViewType == [look : Look \cup {NoCar}, refs : [Textures -> Int], lost : [Textures -> Nat]]

(* The references are those that are lost, those of the look, and the rest. *)
Balanced(look, r, l, rest) == \A t \in Textures : r[t] = l[t] + Tally(Coat(look), t) + rest[t]
RestType == [Textures -> Nat]
Plus(rest, x) == [t \in Textures |-> rest[t] + IF t = x THEN 1 ELSE 0]

LEMMA LookFacts ==
    /\ MaxReplaced \in Nat /\ IsFiniteSet(CarIds) /\ IsFiniteSet(Toners)
    /\ Cardinality(Toners) + 2 <= MaxReplaced
    /\ "remap_plate" \notin Toners /\ "remap_cbody_0" \notin Toners
    /\ \A t \in Textures : t # NoTexture
    /\ BadPlate \notin Plates /\ Keep \notin Plates /\ NoCar \notin Look
    /\ Free \notin Names
<1>1. /\ MaxReplaced \in Nat /\ IsFiniteSet(CarIds) /\ IsFiniteSet(Toners)
      /\ Cardinality(Toners) + 2 <= MaxReplaced
      /\ Toners \cap {Free, "remap_plate", "remap_cbody_0"} = {}
      /\ NoTexture \notin Textures /\ {BadPlate, Keep} \cap Plates = {} /\ NoCar \notin Look
  BY VehicleLookAssumption, Zenon
<1>2. Free # "remap_plate" /\ Free # "remap_cbody_0"  BY DEF Free
<1>3. QED  BY <1>1, <1>2 DEF Names

LEMMA CoatTyped ==
    ASSUME NEW look, GoodLook(look)
    PROVE  Coat(look) \in [Spots -> Coats]
<1>1. \A i \in Slots : look.m_szReplacedTextures[i].pTexture \in Coats
  BY DEF GoodLook, Look, Coats
<1>2. look.shadow \in Coats  BY DEF GoodLook, Look, Coats
<1>3. \A h \in Spots : h # 0 => h \in Slots  BY LookFacts DEF Spots, Slots
<1>4. \A h \in Spots : (IF h = 0 THEN look.shadow ELSE look.m_szReplacedTextures[h].pTexture) \in Coats
  BY <1>1, <1>2, <1>3
<1>5. QED  BY <1>4 DEF Coat

LEMMA TallyTyped == \A coat, t : Tally(coat, t) \in Nat /\ IsFiniteSet({h \in Spots : coat[h] = t})
<1>1. IsFiniteSet(Spots)
  <2>1. 0 \in Int /\ MaxReplaced \in Int  BY LookFacts
  <2>2. IsFiniteSet(0 .. MaxReplaced)  BY <2>1, FS_Interval, Zenon
  <2>3. QED  BY <2>2 DEF Spots
<1>2. QED  BY <1>1, FS_Subset, FS_CardinalityType DEF Tally

LEMMA TallySwap ==
    \A a, b \in [Spots -> Coats], h \in Spots, t \in Textures :
        (\A k \in Spots : k # h => b[k] = a[k]) =>
            Tally(b, t) + (IF a[h] = t THEN 1 ELSE 0) = Tally(a, t) + (IF b[h] = t THEN 1 ELSE 0)
<1> SUFFICES ASSUME NEW a \in [Spots -> Coats], NEW b \in [Spots -> Coats], NEW h \in Spots, NEW t \in Textures,
                    \A k \in Spots : k # h => b[k] = a[k]
             PROVE  Tally(b, t) + (IF a[h] = t THEN 1 ELSE 0) = Tally(a, t) + (IF b[h] = t THEN 1 ELSE 0)
  OBVIOUS
<1> DEFINE D == {k \in Spots : k # h /\ a[k] = t}
<1>1. IsFiniteSet(D)
  <2>1. IsFiniteSet(Spots)  BY LookFacts, FS_Interval, 0 \in Int DEF Spots
  <2>2. QED  BY <2>1, FS_Subset
<1>2. Cardinality(D \cup {h}) = Cardinality(D) + 1 /\ Cardinality(D) \in Nat
  BY <1>1, FS_AddElement, FS_CardinalityType, h \notin D
<1>3. /\ a[h] = t => {k \in Spots : a[k] = t} = D \cup {h}
      /\ a[h] # t => {k \in Spots : a[k] = t} = D
      /\ b[h] = t => {k \in Spots : b[k] = t} = D \cup {h}
      /\ b[h] # t => {k \in Spots : b[k] = t} = D
  OBVIOUS
<1> HIDE DEF D
<1>4. /\ a[h] = t => Tally(a, t) = Cardinality(D) + 1
      /\ a[h] # t => Tally(a, t) = Cardinality(D)
      /\ b[h] = t => Tally(b, t) = Cardinality(D) + 1
      /\ b[h] # t => Tally(b, t) = Cardinality(D)
  BY <1>2, <1>3, Zenon DEF Tally
<1>5. QED  BY <1>2, <1>4

(* One texture is put in the place of another. *)
LEMMA SwapBalanced ==
    ASSUME NEW was, NEW now, Coat(was) \in [Spots -> Coats], Coat(now) \in [Spots -> Coats],
           NEW h \in Spots, \A k \in Spots : k # h => Coat(now)[k] = Coat(was)[k],
           NEW r \in [Textures -> Int], NEW l \in [Textures -> Nat],
           NEW rest \in RestType, Balanced(was, r, l, Plus(rest, Coat(now)[h]))
    PROVE  Balanced(now, r, l, Plus(rest, Coat(was)[h]))
<1> SUFFICES ASSUME NEW t \in Textures
             PROVE  r[t] = l[t] + Tally(Coat(now), t) + Plus(rest, Coat(was)[h])[t]
  BY DEF Balanced
<1>1. r[t] = l[t] + Tally(Coat(was), t) + Plus(rest, Coat(now)[h])[t]  BY DEF Balanced
<1>2. /\ Plus(rest, Coat(now)[h])[t] = rest[t] + IF t = Coat(now)[h] THEN 1 ELSE 0
      /\ Plus(rest, Coat(was)[h])[t] = rest[t] + IF t = Coat(was)[h] THEN 1 ELSE 0
  BY DEF Plus
<1>3. Tally(Coat(now), t) + (IF Coat(was)[h] = t THEN 1 ELSE 0)
        = Tally(Coat(was), t) + (IF Coat(now)[h] = t THEN 1 ELSE 0)
  BY TallySwap
<1>4. rest[t] \in Nat /\ r[t] \in Int /\ l[t] \in Nat /\ Tally(Coat(was), t) \in Nat /\ Tally(Coat(now), t) \in Nat
  BY TallyTyped DEF RestType
<1>5. QED  BY <1>1, <1>2, <1>3, <1>4

LEMMA PlusTyped ==
    /\ \A x : \A rest \in RestType : Plus(rest, x) \in RestType
    /\ \A rest \in RestType : Plus(rest, NoTexture) = rest
<1>1. \A rest \in RestType, x, t \in Textures : rest[t] + (IF t = x THEN 1 ELSE 0) \in Nat
  BY DEF RestType
<1>2. \A t \in Textures : t # NoTexture  BY LookFacts
<1>3. QED  BY <1>1, <1>2 DEF RestType, Plus

LEMMA ReferencedIs ==
    ASSUME NEW v \in ViewType, NEW x \in Coats
    PROVE  LET r == Referenced(v, x)
           IN  /\ r \in ViewType /\ r.look = v.look /\ r.lost = v.lost
               /\ \A look, l, rest : l \in [Textures -> Nat] /\ rest \in RestType /\ Balanced(look, v.refs, l, rest)
                     => Balanced(look, r.refs, l, Plus(rest, x))
<1> DEFINE r == Referenced(v, x)
<1>1. v.refs \in [Textures -> Int] /\ v.lost \in [Textures -> Nat]  BY DEF ViewType
<1>2. /\ r \in ViewType /\ r.look = v.look /\ r.lost = v.lost
      /\ \A t \in Textures : r.refs[t] = v.refs[t] + IF t = x THEN 1 ELSE 0
  BY <1>1, LookFacts DEF Referenced, ViewType, Coats
<1> HIDE DEF r
<1>3. ASSUME NEW look, NEW l \in [Textures -> Nat], NEW rest, rest \in RestType, Balanced(look, v.refs, l, rest), NEW t \in Textures
      PROVE  r.refs[t] = l[t] + Tally(Coat(look), t) + Plus(rest, x)[t]
  <2>1. v.refs[t] = l[t] + Tally(Coat(look), t) + rest[t]  BY <1>3 DEF Balanced
  <2>2. Plus(rest, x)[t] = rest[t] + IF t = x THEN 1 ELSE 0  BY DEF Plus
  <2>3. rest[t] \in Nat /\ v.refs[t] \in Int /\ l[t] \in Nat /\ Tally(Coat(look), t) \in Nat
    BY <1>1, <1>3, TallyTyped DEF RestType
  <2>4. QED  BY <1>2, <2>1, <2>2, <2>3
<1>4. QED  BY <1>2, <1>3 DEF Balanced, r

LEMMA DestroyedIs ==
    ASSUME NEW v \in ViewType, NEW x \in Coats
    PROVE  LET r == RwTextureDestroy(v, x)
           IN  /\ r \in ViewType /\ r.look = v.look /\ r.lost = v.lost
               /\ \A look, l, rest : l \in [Textures -> Nat] /\ rest \in RestType /\ Balanced(look, v.refs, l, Plus(rest, x))
                     => Balanced(look, r.refs, l, rest)
<1> DEFINE r == RwTextureDestroy(v, x)
<1>1. v.refs \in [Textures -> Int] /\ v.lost \in [Textures -> Nat]  BY DEF ViewType
<1>2. /\ r \in ViewType /\ r.look = v.look /\ r.lost = v.lost
      /\ \A t \in Textures : r.refs[t] = v.refs[t] - IF t = x THEN 1 ELSE 0
  BY <1>1, LookFacts DEF RwTextureDestroy, ViewType, Coats
<1> HIDE DEF r
<1>3. ASSUME NEW look, NEW l \in [Textures -> Nat], NEW rest, rest \in RestType, Balanced(look, v.refs, l, Plus(rest, x)), NEW t \in Textures
      PROVE  r.refs[t] = l[t] + Tally(Coat(look), t) + rest[t]
  <2>1. v.refs[t] = l[t] + Tally(Coat(look), t) + Plus(rest, x)[t]  BY <1>3 DEF Balanced
  <2>2. Plus(rest, x)[t] = rest[t] + IF t = x THEN 1 ELSE 0  BY DEF Plus
  <2>3. rest[t] \in Nat /\ v.refs[t] \in Int /\ l[t] \in Nat /\ Tally(Coat(look), t) \in Nat
    BY <1>1, <1>3, TallyTyped DEF RestType
  <2>4. QED  BY <1>2, <2>1, <2>2, <2>3
<1>4. QED  BY <1>2, <1>3 DEF Balanced, r

LEMMA ForgottenIs ==
    ASSUME NEW v \in ViewType, NEW x \in Coats
    PROVE  LET r == Forgotten(v, x)
           IN  /\ r \in ViewType /\ r.look = v.look /\ r.refs = v.refs
               /\ \A look, n, rest : n \in [Textures -> Int] /\ rest \in RestType /\ Balanced(look, n, v.lost, Plus(rest, x))
                     => Balanced(look, n, r.lost, rest)
<1> DEFINE r == Forgotten(v, x)
<1>1. v.refs \in [Textures -> Int] /\ v.lost \in [Textures -> Nat]  BY DEF ViewType
<1>2. /\ r \in ViewType /\ r.look = v.look /\ r.refs = v.refs
      /\ \A t \in Textures : r.lost[t] = v.lost[t] + IF t = x THEN 1 ELSE 0
  BY <1>1, LookFacts DEF Forgotten, ViewType, Coats
<1> HIDE DEF r
<1>3. ASSUME NEW look, NEW n \in [Textures -> Int], NEW rest, rest \in RestType, Balanced(look, n, v.lost, Plus(rest, x)), NEW t \in Textures
      PROVE  n[t] = r.lost[t] + Tally(Coat(look), t) + rest[t]
  <2>1. n[t] = v.lost[t] + Tally(Coat(look), t) + Plus(rest, x)[t]  BY <1>3 DEF Balanced
  <2>2. Plus(rest, x)[t] = rest[t] + IF t = x THEN 1 ELSE 0  BY DEF Plus
  <2>3. rest[t] \in Nat /\ n[t] \in Int /\ v.lost[t] \in Nat /\ Tally(Coat(look), t) \in Nat
    BY <1>1, <1>3, TallyTyped DEF RestType
  <2>4. QED  BY <1>2, <2>1, <2>2, <2>3
<1>4. QED  BY <1>2, <1>3 DEF Balanced, r

(* What a good look shows, slot by slot. *)
LEMMA ShownOf ==
    ASSUME NEW look, GoodLook(look), NEW n \in Names
    PROVE  /\ \A i \in Slots : look.m_szReplacedTextures[i].szOld = n =>
                 Shown(look, n) = look.m_szReplacedTextures[i].pTexture
           /\ (\A i \in Slots : look.m_szReplacedTextures[i].szOld # n) => Shown(look, n) = NoTexture
<1> DEFINE slot == look.m_szReplacedTextures
           fits == {i \in Slots : slot[i].szOld = n /\ slot[i].pTexture # NoTexture}
<1>1. Shown(look, n) = IF fits = {} THEN NoTexture ELSE slot[Min(fits)].pTexture
  BY DEF Shown
<1>2. n # Free  BY LookFacts
<1>3. ASSUME NEW i \in Slots, slot[i].szOld = n
      PROVE  Shown(look, n) = slot[i].pTexture
  <2>1. fits \subseteq {i}  BY <1>2, <1>3 DEF GoodLook
  <2>2. CASE fits = {}  BY <1>1, <1>3, <2>2
  <2>3. CASE fits # {}
    <3>1. fits = {i}  BY <2>1, <2>3
    <3>2. i \in Int  BY LookFacts DEF Slots
    <3>3. Min({i}) = i  BY <3>2 DEF Min
    <3>4. QED  BY <1>1, <2>3, <3>1, <3>3
  <2>4. QED  BY <2>2, <2>3
<1>4. ASSUME \A i \in Slots : slot[i].szOld # n PROVE Shown(look, n) = NoTexture
  <2>1. fits = {}  BY <1>4
  <2>2. QED  BY <1>1, <2>1
<1>5. QED  BY <1>3, <1>4

LEMMA RemoveIs ==
    ASSUME NEW v \in ViewType, GoodLook(v.look), NEW name \in Names
    PROVE  LET r == RemoveTexture(v, name)
           IN  /\ r \in ViewType /\ GoodLook(r.look)
               /\ \A i \in Slots : r.look.m_szReplacedTextures[i] =
                      IF v.look.m_szReplacedTextures[i].szOld = name THEN Unused
                      ELSE v.look.m_szReplacedTextures[i]
               /\ \A rest \in RestType : Balanced(v.look, v.refs, v.lost, rest)
                     => Balanced(r.look, r.refs, r.lost, rest)
<1> DEFINE slot == v.look.m_szReplacedTextures
           r == RemoveTexture(v, name)
<1>1. name # Free  BY LookFacts
<1>2. CASE Used(v, name) = {}
  <2>1. r = v  BY <1>2 DEF RemoveTexture, IsRetextured
  <2>2. \A i \in Slots : slot[i].szOld # name  BY <1>2 DEF Used
  <2>3. QED  BY <2>1, <2>2
<1>3. CASE Used(v, name) # {}
  <2>1. PICK i \in Slots : slot[i].szOld = name  BY <1>3 DEF Used
  <2>2. \A j \in Slots : slot[j].szOld = name <=> j = i  BY <1>1, <2>1 DEF GoodLook
  <2>3. Min(Used(v, name)) = i
    <3>1. Used(v, name) = {i}  BY <2>2 DEF Used
    <3>2. i \in Int  BY LookFacts DEF Slots
    <3>3. QED  BY <3>1, <3>2 DEF Min
  <2>4. PICK x, d : x = slot[i].pTexture /\ d = RwTextureDestroy(v, x)  OBVIOUS
  <2>5. x \in Coats /\ v.look \in Look  BY <2>4 DEF GoodLook, Look, Coats
  <2>6. /\ d \in ViewType /\ d.look = v.look /\ d.lost = v.lost
        /\ \A look, rest : rest \in RestType /\ Balanced(look, v.refs, v.lost, Plus(rest, x))
              => Balanced(look, d.refs, d.lost, rest)
    <3>1. v.lost \in [Textures -> Nat]  BY DEF ViewType
    <3>2. QED  BY <2>4, <2>5, <3>1, DestroyedIs
  <2>7. r = [d EXCEPT !.look.m_szReplacedTextures[i] = Unused]
    BY <1>3, <2>3, <2>4 DEF RemoveTexture, IsRetextured
  <2> HIDE DEF r
  <2>8. PICK new : new = [v.look EXCEPT !.m_szReplacedTextures[i] = Unused]  OBVIOUS
  <2>9. r.look = new /\ r.refs = d.refs /\ r.lost = d.lost
    BY <2>6, <2>7, <2>8 DEF ViewType
  <2>10. /\ new \in Look /\ new.m_bShadow = v.look.m_bShadow /\ new.shadow = v.look.shadow
         /\ \A j \in Slots : new.m_szReplacedTextures[j] = IF j = i THEN Unused ELSE slot[j]
    BY <2>5, <2>8 DEF Look, Unused
  <2>11. r \in ViewType  BY <2>6, <2>7, <2>8, <2>10 DEF ViewType
  <2>12. GoodLook(new)  BY <2>10 DEF GoodLook, Unused
  <2>13. Coat(new) = [Coat(v.look) EXCEPT ![i] = NoTexture] /\ Coat(v.look)[i] = x /\ i \in Spots /\ i # 0
    <3>1. i \in Spots /\ i # 0 /\ \A h \in Spots : h # 0 => h \in Slots
      BY LookFacts DEF Spots, Slots
    <3>2. \A h \in Spots : Coat(new)[h] = IF h = i THEN NoTexture ELSE Coat(v.look)[h]
      BY <2>10, <3>1 DEF Coat, Unused
    <3>3. Coat(new) = [h \in Spots |-> Coat(new)[h]] /\ Coat(v.look) = [h \in Spots |-> Coat(v.look)[h]]
      BY DEF Coat
    <3>4. Coat(v.look)[i] = x  BY <2>4, <3>1 DEF Coat
    <3>5. QED  BY <3>1, <3>2, <3>3, <3>4
  <2>14. ASSUME NEW rest \in RestType, Balanced(v.look, v.refs, v.lost, rest)
         PROVE  Balanced(new, d.refs, d.lost, rest)
    <3>1. Balanced(v.look, v.refs, v.lost, Plus(rest, NoTexture))  BY <2>14, PlusTyped
    <3>2. Coat(v.look) \in [Spots -> Coats]  BY CoatTyped
    <3>3. v.refs \in [Textures -> Int] /\ v.lost \in [Textures -> Nat] /\ NoTexture \in Coats
      BY DEF ViewType, Coats
    <3>4. Balanced(new, v.refs, v.lost, Plus(rest, Coat(v.look)[i]))
      <4>1. Coat(new) \in [Spots -> Coats] /\ Coat(new)[i] = NoTexture
            /\ \A k \in Spots : k # i => Coat(new)[k] = Coat(v.look)[k]
        BY <2>13, <3>2, <3>3
      <4>2. Balanced(v.look, v.refs, v.lost, Plus(rest, Coat(new)[i]))  BY <3>1, <4>1
      <4>3. QED  BY <2>13, <3>2, <3>3, <4>1, <4>2, SwapBalanced
    <3>5. QED  BY <2>6, <2>13, <3>4
  <2>15. \A j \in Slots : r.look.m_szReplacedTextures[j] = IF slot[j].szOld = name THEN Unused ELSE slot[j]
    BY <2>2, <2>9, <2>10
  <2>16. QED  BY <2>9, <2>11, <2>12, <2>14, <2>15 DEF r
<1>4. QED  BY <1>2, <1>3

LEMMA RemovedShows ==
    ASSUME NEW v \in ViewType, GoodLook(v.look), NEW name \in Names, NEW n \in Names
    PROVE  /\ Shown(RemoveTexture(v, name).look, n) = IF n = name THEN NoTexture ELSE Shown(v.look, n)
           /\ \A i \in Slots : RemoveTexture(v, name).look.m_szReplacedTextures[i].szOld # name
<1>1. PICK r : r = RemoveTexture(v, name)  OBVIOUS
<1>2. /\ GoodLook(r.look)
      /\ \A i \in Slots : r.look.m_szReplacedTextures[i] =
             IF v.look.m_szReplacedTextures[i].szOld = name THEN Unused ELSE v.look.m_szReplacedTextures[i]
  BY <1>1, RemoveIs
<1>3. name # Free /\ n # Free  BY LookFacts
<1>4. \A i \in Slots : r.look.m_szReplacedTextures[i].szOld # name  BY <1>2, <1>3 DEF Unused
<1>5. CASE n = name  BY <1>1, <1>2, <1>4, <1>5, ShownOf
<1>6. CASE n # name
  <2>1. \A i \in Slots :
           /\ r.look.m_szReplacedTextures[i].szOld = n <=> v.look.m_szReplacedTextures[i].szOld = n
           /\ v.look.m_szReplacedTextures[i].szOld = n =>
                 r.look.m_szReplacedTextures[i] = v.look.m_szReplacedTextures[i]
    BY <1>2, <1>3, <1>6 DEF Unused
  <2>2. CASE \E i \in Slots : v.look.m_szReplacedTextures[i].szOld = n
    <3>1. PICK i \in Slots : v.look.m_szReplacedTextures[i].szOld = n  BY <2>2
    <3>2. Shown(v.look, n) = v.look.m_szReplacedTextures[i].pTexture  BY <3>1, ShownOf
    <3>3. Shown(r.look, n) = r.look.m_szReplacedTextures[i].pTexture  BY <1>2, <2>1, <3>1, ShownOf
    <3>4. QED  BY <1>1, <1>4, <1>6, <2>1, <3>1, <3>2, <3>3
  <2>3. CASE ~ \E i \in Slots : v.look.m_szReplacedTextures[i].szOld = n
    <3>1. Shown(v.look, n) = NoTexture  BY <2>3, ShownOf
    <3>2. Shown(r.look, n) = NoTexture  BY <1>2, <2>1, <2>3, ShownOf
    <3>3. QED  BY <1>1, <1>4, <1>6, <3>1, <3>2
  <2>4. QED  BY <2>2, <2>3
<1>7. QED  BY <1>1, <1>4, <1>5, <1>6

(* There are slots for all the names. *)
LEMMA RoomForName ==
    ASSUME NEW look, GoodLook(look), NEW name \in Names,
           \A i \in Slots : look.m_szReplacedTextures[i].szOld # name
    PROVE  \E i \in Slots : look.m_szReplacedTextures[i].szOld = Free
<1> SUFFICES ASSUME \A i \in Slots : look.m_szReplacedTextures[i].szOld # Free PROVE FALSE
  OBVIOUS
<1> DEFINE f == [i \in Slots |-> look.m_szReplacedTextures[i].szOld]
           others == Names \ {name}
<1>1. f \in [Slots -> others]  BY DEF GoodLook, Look
<1>2. IsFiniteSet(Slots) /\ Cardinality(Slots) = MaxReplaced
  BY LookFacts, FS_Interval DEF Slots
<1>3. IsFiniteSet(Names) /\ Cardinality(Names) <= Cardinality(Toners) + 2
  <2>1. Names = (Toners \cup {"remap_plate"}) \cup {"remap_cbody_0"}  BY DEF Names
  <2>2. /\ IsFiniteSet(Toners \cup {"remap_plate"})
        /\ Cardinality(Toners \cup {"remap_plate"}) <= Cardinality(Toners) + 1
        /\ Cardinality(Toners \cup {"remap_plate"}) \in Nat /\ Cardinality(Toners) \in Nat
    <3>1. Cardinality(Toners) \in Nat  BY LookFacts, FS_CardinalityType
    <3>2. /\ IsFiniteSet(Toners \cup {"remap_plate"})
          /\ Cardinality(Toners \cup {"remap_plate"}) = Cardinality(Toners) + 1
      BY LookFacts, FS_AddElement
    <3>3. QED  BY <3>1, <3>2
  <2>3. /\ IsFiniteSet(Names)
        /\ Cardinality(Names) <= Cardinality(Toners \cup {"remap_plate"}) + 1
    BY <2>1, <2>2, FS_AddElement
  <2>4. Cardinality(Names) \in Nat  BY <2>3, FS_CardinalityType
  <2>5. QED  BY <2>2, <2>3, <2>4
<1>4. IsFiniteSet(others) /\ Cardinality(others) = Cardinality(Names) - 1
  BY <1>3, FS_RemoveElement
<1>5. Cardinality(others) < Cardinality(Slots)
  <2>1. Cardinality(Names) \in Nat /\ Cardinality(Toners) \in Nat
    BY <1>3, LookFacts, FS_CardinalityType
  <2>2. QED  BY <1>2, <1>3, <1>4, <2>1, LookFacts
<1>6. PICK i, j \in Slots : i # j /\ f[i] = f[j]
  <2> HIDE DEF f, others
  <2> QED  BY <1>1, <1>2, <1>4, <1>5, FS_PigeonHole
<1>7. QED  BY <1>6 DEF GoodLook

LEMMA LeastSlot ==
    ASSUME NEW free \in SUBSET Slots, free # {}
    PROVE  Min(free) \in free
<1>1. free \subseteq Nat  BY DEF Slots
<1>2. PICK n \in free : \A k \in free : <<k, n>> \notin OpToRel(<, Nat)
  BY <1>1, NatLessThanWellFounded, WFMin
<1>3. ASSUME NEW k \in free, k < n PROVE FALSE
  <2>1. <<k, n>> \in OpToRel(<, Nat)  BY <1>1, <1>3 DEF OpToRel
  <2>2. QED  BY <1>2, <2>1
<1>4. \A k \in free : n <= k  BY <1>1, <1>3
<1>5. QED  BY <1>4 DEF Min

(* A texture is put on, in whichever slot is free. *)
LEMMA PutIs ==
    ASSUME NEW v \in ViewType, GoodLook(v.look), NEW name \in Names, NEW x \in Coats,
           \A i \in Slots : v.look.m_szReplacedTextures[i].szOld # name
    PROVE  LET r == Replaced(v, name, x)
           IN  /\ Used(v, Free) # {}
               /\ r \in ViewType /\ GoodLook(r.look)
               /\ \A n \in Names : Shown(r.look, n) = IF n = name THEN x ELSE Shown(v.look, n)
               /\ \A rest \in RestType : Balanced(v.look, v.refs, v.lost, Plus(rest, x))
                     => Balanced(r.look, r.refs, r.lost, rest)
<1> DEFINE slot == v.look.m_szReplacedTextures
           r == Replaced(v, name, x)
<1>1. name # Free  BY LookFacts
<1>2. Used(v, Free) # {}  BY RoomForName DEF Used
<1>3. PICK i : i = Min(Used(v, Free))  OBVIOUS
<1>4. i \in Slots /\ slot[i].szOld = Free /\ slot[i].pTexture = NoTexture
  <2>1. i \in Used(v, Free)
    <3>1. Used(v, Free) \subseteq Slots  BY DEF Used
    <3>2. QED  BY <1>2, <1>3, <3>1, LeastSlot
  <2>2. QED  BY <2>1 DEF Used, GoodLook
<1>5. r = [v EXCEPT !.look.m_szReplacedTextures[i] = [szOld |-> name, pTexture |-> x]]
  BY <1>3 DEF Replaced
<1> HIDE DEF r
<1>6. PICK new : new = [v.look EXCEPT !.m_szReplacedTextures[i] = [szOld |-> name, pTexture |-> x]]
  OBVIOUS
<1>7. r.look = new /\ r.refs = v.refs /\ r.lost = v.lost  BY <1>5, <1>6 DEF ViewType
<1>8. /\ new \in Look /\ new.m_bShadow = v.look.m_bShadow /\ new.shadow = v.look.shadow
      /\ \A j \in Slots : new.m_szReplacedTextures[j] =
             IF j = i THEN [szOld |-> name, pTexture |-> x] ELSE slot[j]
  BY <1>4, <1>6 DEF Look, GoodLook, Coats
<1>9. r \in ViewType  BY <1>5, <1>6, <1>8 DEF ViewType
<1>10. GoodLook(new)  BY <1>1, <1>8 DEF GoodLook
<1>11. Coat(new) = [Coat(v.look) EXCEPT ![i] = x] /\ Coat(v.look)[i] = NoTexture /\ i \in Spots
  <2>1. i \in Spots /\ i # 0 /\ \A h \in Spots : h # 0 => h \in Slots
    BY <1>4, LookFacts DEF Spots, Slots
  <2>2. \A h \in Spots : Coat(new)[h] = IF h = i THEN x ELSE Coat(v.look)[h]
    BY <1>8, <2>1 DEF Coat
  <2>3. Coat(new) = [h \in Spots |-> Coat(new)[h]] /\ Coat(v.look) = [h \in Spots |-> Coat(v.look)[h]]
    BY DEF Coat
  <2>4. Coat(v.look)[i] = NoTexture  BY <1>4, <2>1 DEF Coat
  <2>5. QED  BY <2>1, <2>2, <2>3, <2>4
<1>12. ASSUME NEW rest \in RestType, Balanced(v.look, v.refs, v.lost, Plus(rest, x))
       PROVE  Balanced(new, v.refs, v.lost, rest)
  <2>1. Coat(v.look) \in [Spots -> Coats]  BY CoatTyped
  <2>2. v.refs \in [Textures -> Int] /\ v.lost \in [Textures -> Nat]  BY DEF ViewType
  <2>3. Balanced(new, v.refs, v.lost, Plus(rest, Coat(v.look)[i]))
    <3>1. Coat(new) \in [Spots -> Coats] /\ Coat(new)[i] = x
          /\ \A k \in Spots : k # i => Coat(new)[k] = Coat(v.look)[k]
      BY <1>11, <2>1
    <3>2. Balanced(v.look, v.refs, v.lost, Plus(rest, Coat(new)[i]))  BY <1>12, <3>1
    <3>3. QED  BY <1>11, <2>1, <2>2, <3>1, <3>2, SwapBalanced
  <2>4. QED  BY <1>11, <2>3, PlusTyped
<1>13. ASSUME NEW n \in Names
       PROVE  Shown(new, n) = IF n = name THEN x ELSE Shown(v.look, n)
  <2>1. CASE n = name  BY <1>4, <1>8, <1>10, <2>1, ShownOf
  <2>2. CASE n # name
    <3>1. n # Free  BY LookFacts
    <3>2. \A j \in Slots : /\ new.m_szReplacedTextures[j].szOld = n <=> slot[j].szOld = n
                           /\ slot[j].szOld = n => new.m_szReplacedTextures[j] = slot[j]
      BY <1>4, <1>8, <2>2, <3>1
    <3>3. CASE \E j \in Slots : slot[j].szOld = n
      <4>1. PICK j \in Slots : slot[j].szOld = n  BY <3>3
      <4>2. Shown(v.look, n) = slot[j].pTexture  BY <4>1, ShownOf
      <4>3. Shown(new, n) = new.m_szReplacedTextures[j].pTexture  BY <1>10, <3>2, <4>1, ShownOf
      <4>4. QED  BY <2>2, <3>2, <4>1, <4>2, <4>3
    <3>4. CASE ~ \E j \in Slots : slot[j].szOld = n
      <4>1. Shown(v.look, n) = NoTexture  BY <3>4, ShownOf
      <4>2. Shown(new, n) = NoTexture  BY <1>10, <3>2, <3>4, ShownOf
      <4>3. QED  BY <2>2, <4>1, <4>2
    <3>5. QED  BY <3>3, <3>4
  <2>3. QED  BY <2>1, <2>2
<1>14. QED  BY <1>2, <1>7, <1>9, <1>10, <1>12, <1>13 DEF r

(* What a method makes of one texture; what it leaves alone. *)
Dresses(v, r, name, x) ==
    /\ r \in ViewType /\ GoodLook(r.look)
    /\ \A n \in Names : Shown(r.look, n) = IF n = name THEN x ELSE Shown(v.look, n)
    /\ \A rest \in RestType : Balanced(v.look, v.refs, v.lost, rest)
          => Balanced(r.look, r.refs, r.lost, rest)

LEMMA RemoveDresses ==
    ASSUME NEW v \in ViewType, GoodLook(v.look), NEW name \in Names
    PROVE  Dresses(v, RemoveTexture(v, name), name, NoTexture)
BY RemoveIs, RemovedShows DEF Dresses

LEMMA ApplyPlateIs ==
    ASSUME NEW v \in ViewType, GoodLook(v.look), NEW p \in Plates
    PROVE  LET r == ApplyPlate(v, p)
           IN  /\ r \in ViewType /\ GoodLook(r.look)
               /\ \A n \in Names : Shown(r.look, n) = IF n = "remap_plate" THEN p ELSE Shown(v.look, n)
               /\ \A rest \in RestType : Balanced(v.look, v.refs, v.lost, Plus(rest, p))
                     => Balanced(r.look, r.refs, r.lost, rest)
<1> DEFINE r == ApplyPlate(v, p)
<1>1. PICK before : before = RemoveTexture(v, "remap_plate")  OBVIOUS
<1>2. "remap_plate" \in Names /\ p \in Coats  BY DEF Names, Coats, Textures
<1>3. Dresses(v, before, "remap_plate", NoTexture)  BY <1>1, <1>2, RemoveDresses
<1>4. \A i \in Slots : before.look.m_szReplacedTextures[i].szOld # "remap_plate"
  BY <1>1, <1>2, RemovedShows
<1>5. PICK w : w = Replaced(before, "remap_plate", p)  OBVIOUS
<1>6. /\ Used(before, Free) # {}
      /\ w \in ViewType /\ GoodLook(w.look)
      /\ \A n \in Names : Shown(w.look, n) = IF n = "remap_plate" THEN p ELSE Shown(before.look, n)
      /\ \A rest \in RestType : Balanced(before.look, before.refs, before.lost, Plus(rest, p))
            => Balanced(w.look, w.refs, w.lost, rest)
  BY <1>2, <1>3, <1>4, <1>5, PutIs DEF Dresses
<1>7. r = w  BY <1>1, <1>5, <1>6 DEF ApplyPlate
<1> HIDE DEF r
<1>8. \A n \in Names : Shown(r.look, n) = IF n = "remap_plate" THEN p ELSE Shown(v.look, n)
  BY <1>3, <1>6, <1>7 DEF Dresses
<1>9. \A rest \in RestType : Balanced(v.look, v.refs, v.lost, Plus(rest, p))
         => Balanced(r.look, r.refs, r.lost, rest)
  BY <1>3, <1>6, <1>7, PlusTyped DEF Dresses
<1>10. QED  BY <1>6, <1>7, <1>8, <1>9 DEF r

LEMMA ApplyFileDresses ==
    ASSUME NEW v \in ViewType, GoodLook(v.look), NEW name \in Names, NEW f \in Coats
    PROVE  Dresses(v, ApplyFile(v, name, f), name, f)
<1> DEFINE r == ApplyFile(v, name, f)
<1>1. PICK before : before = RemoveTexture(v, name)  OBVIOUS
<1>2. Dresses(v, before, name, NoTexture)  BY <1>1, RemoveDresses
<1>3. \A i \in Slots : before.look.m_szReplacedTextures[i].szOld # name  BY <1>1, RemovedShows
<1>4. PICK u : u = Referenced(before, f)  OBVIOUS
<1>5. before \in ViewType /\ GoodLook(before.look) /\ before.lost \in [Textures -> Nat]
  BY <1>2 DEF Dresses, ViewType
<1>6. /\ u \in ViewType /\ u.look = before.look /\ u.lost = before.lost
      /\ \A look, l, rest : l \in [Textures -> Nat] /\ rest \in RestType /\ Balanced(look, before.refs, l, rest)
            => Balanced(look, u.refs, l, Plus(rest, f))
  BY <1>4, <1>5, ReferencedIs
<1>7. GoodLook(u.look) /\ \A i \in Slots : u.look.m_szReplacedTextures[i].szOld # name
  BY <1>3, <1>5, <1>6
<1>8. PICK w : w = Replaced(u, name, f)  OBVIOUS
<1>9. /\ Used(u, Free) # {}
      /\ w \in ViewType /\ GoodLook(w.look)
      /\ \A n \in Names : Shown(w.look, n) = IF n = name THEN f ELSE Shown(u.look, n)
      /\ \A rest \in RestType : Balanced(u.look, u.refs, u.lost, Plus(rest, f))
            => Balanced(w.look, w.refs, w.lost, rest)
  BY <1>6, <1>7, <1>8, PutIs
<1>10. r = w
  <2>1. Used(before, Free) = Used(u, Free)  BY <1>6 DEF Used
  <2>2. QED  BY <1>1, <1>4, <1>8, <1>9, <2>1 DEF ApplyFile
<1> HIDE DEF r
<1>11. \A n \in Names : Shown(r.look, n) = IF n = name THEN f ELSE Shown(v.look, n)
  BY <1>2, <1>6, <1>9, <1>10 DEF Dresses
<1>12. ASSUME NEW rest \in RestType, Balanced(v.look, v.refs, v.lost, rest)
       PROVE  Balanced(r.look, r.refs, r.lost, rest)
  <2>1. Balanced(before.look, before.refs, before.lost, rest)  BY <1>2, <1>12 DEF Dresses
  <2>2. Balanced(u.look, u.refs, u.lost, Plus(rest, f))  BY <1>5, <1>6, <2>1
  <2>3. QED  BY <1>9, <1>10, <2>2
<1>13. QED  BY <1>9, <1>10, <1>11, <1>12 DEF r, Dresses

LEMMA NothingDresses ==
    ASSUME NEW v \in ViewType, GoodLook(v.look), NEW name \in Names
    PROVE  Dresses(v, v, name, Shown(v.look, name))
BY DEF Dresses

LEMMA OrderIsTexture == \A o \in Orders : o # Take /\ o # Keep => o \in Coats
BY DEF Orders, Coats, Textures

LEMMA TonerDresses ==
    ASSUME NEW v \in ViewType, GoodLook(v.look), NEW name \in Names, NEW o \in Orders
    PROVE  Dresses(v, ApplyToner(v, name, o), name, Ordered(Shown(v.look, name), o))
<1>0. Take # Keep  BY DEF Take, Keep
<1>1. CASE o = Take
  <2>1. ApplyToner(v, name, o) = RemoveTexture(v, name) /\ Ordered(Shown(v.look, name), o) = NoTexture
    BY <1>0, <1>1 DEF ApplyToner, Ordered
  <2>2. QED  BY <2>1, RemoveDresses
<1>2. CASE o = Keep
  <2>1. ApplyToner(v, name, o) = v /\ Ordered(Shown(v.look, name), o) = Shown(v.look, name)
    BY <1>0, <1>2 DEF ApplyToner, Ordered
  <2>2. QED  BY <2>1, NothingDresses
<1>3. CASE o # Take /\ o # Keep
  <2>1. ApplyToner(v, name, o) = ApplyFile(v, name, o) /\ Ordered(Shown(v.look, name), o) = o
    BY <1>3 DEF ApplyToner, Ordered
  <2>2. QED  BY <1>3, <2>1, OrderIsTexture, ApplyFileDresses
<1>4. QED  BY <1>1, <1>2, <1>3

(* One texture is dressed twice. *)
LEMMA DressedTwice ==
    ASSUME NEW u, NEW v, NEW w, NEW name, NEW x, NEW y, Dresses(u, v, name, x), Dresses(v, w, name, y)
    PROVE  Dresses(u, w, name, y)
BY DEF Dresses

LEMMA VinylsDress ==
    ASSUME NEW v \in ViewType, GoodLook(v.look), NEW o1 \in Orders, NEW o2 \in Orders
    PROVE  Dresses(v, ApplyVinyls(v, o1, o2), "remap_cbody_0",
                   OrderedVinyls(Shown(v.look, "remap_cbody_0"), o1, o2))
<1> DEFINE body == "remap_cbody_0"
<1>0. body \in Names /\ Take # Keep  BY DEF Names, Take, Keep
<1>1. CASE Take \in {o1, o2}
  <2>1. /\ ApplyVinyls(v, o1, o2) = RemoveTexture(v, body)
        /\ OrderedVinyls(Shown(v.look, body), o1, o2) = NoTexture
    BY <1>1 DEF ApplyVinyls, OrderedVinyls
  <2>2. QED  BY <1>0, <2>1, RemoveDresses
<1>2. CASE Take \notin {o1, o2}
  <2>1. PICK u, x : /\ u = IF o1 = Keep THEN v ELSE ApplyFile(v, body, o1)
                    /\ x = Ordered(Shown(v.look, body), o1)
    OBVIOUS
  <2>2. Dresses(v, u, body, x)
    <3>1. CASE o1 = Keep
      <4>1. x = Shown(v.look, body) /\ u = v  BY <1>0, <2>1, <3>1 DEF Ordered
      <4>2. QED  BY <1>0, <4>1, NothingDresses
    <3>2. CASE o1 # Keep
      <4>1. x = o1 /\ u = ApplyFile(v, body, o1) /\ o1 \in Coats
        BY <1>2, <2>1, <3>2, OrderIsTexture DEF Ordered
      <4>2. QED  BY <1>0, <4>1, ApplyFileDresses
    <3>3. QED  BY <3>1, <3>2
  <2>3. u \in ViewType /\ GoodLook(u.look) /\ Shown(u.look, body) = x
    BY <1>0, <2>2 DEF Dresses
  <2>4. PICK w, y : w = ApplyVinyls(v, o1, o2) /\ y = OrderedVinyls(Shown(v.look, body), o1, o2)
    OBVIOUS
  <2>5. w = (IF o2 = Keep THEN u ELSE ApplyFile(u, body, o2)) /\ y = Ordered(x, o2)
    BY <1>2, <2>1, <2>4 DEF ApplyVinyls, OrderedVinyls
  <2>6. Dresses(u, w, body, y)
    <3>1. CASE o2 = Keep
      <4>1. y = Shown(u.look, body) /\ w = u  BY <1>0, <2>3, <2>5, <3>1 DEF Ordered
      <4>2. QED  BY <1>0, <2>3, <4>1, NothingDresses
    <3>2. CASE o2 # Keep
      <4>1. y = o2 /\ w = ApplyFile(u, body, o2) /\ o2 \in Coats
        BY <1>2, <2>5, <3>2, OrderIsTexture DEF Ordered
      <4>2. QED  BY <1>0, <2>3, <4>1, ApplyFileDresses
    <3>3. QED  BY <3>1, <3>2
  <2>7. Dresses(v, w, body, y)  BY <2>2, <2>6, DressedTwice
  <2>8. QED  BY <2>4, <2>7
<1>3. QED  BY <1>1, <1>2

(* A shadow is none of the textures shown, and is counted. *)
LEMMA ShadowIs ==
    ASSUME NEW v \in ViewType, GoodLook(v.look), NEW size \in BOOLEAN, NEW f \in Coats
    PROVE  LET r == SetCustomShadow(v, size, f)
           IN  /\ r \in ViewType /\ GoodLook(r.look)
               /\ \A n \in Names : Shown(r.look, n) = Shown(v.look, n)
               /\ \A rest \in RestType : Balanced(v.look, v.refs, v.lost, rest)
                     => Balanced(r.look, r.refs, r.lost, rest)
<1> DEFINE r == SetCustomShadow(v, size, f)
<1>1. PICK x, y : x = v.look.shadow /\ y = IF size THEN f ELSE NoTexture  OBVIOUS
<1>2. x \in Coats /\ y \in Coats /\ v.look \in Look  BY <1>1 DEF GoodLook, Look, Coats
<1>3. v.refs \in [Textures -> Int] /\ v.lost \in [Textures -> Nat]  BY DEF ViewType
<1>4. PICK new : new = [v.look EXCEPT !.m_bShadow = size, !.shadow = y]  OBVIOUS
<1>5. /\ new \in Look /\ new.m_bShadow = size /\ new.shadow = y
      /\ new.m_szReplacedTextures = v.look.m_szReplacedTextures
  BY <1>2, <1>4 DEF Look, Coats
<1>6. GoodLook(new)  BY <1>1, <1>5 DEF GoodLook
<1>7. Coat(new)[0] = y /\ Coat(v.look)[0] = x /\ 0 \in Spots
      /\ \A k \in Spots : k # 0 => Coat(new)[k] = Coat(v.look)[k]
  <2>1. 0 \in Spots  BY LookFacts DEF Spots
  <2>2. QED  BY <1>1, <1>5, <2>1 DEF Coat
<1>8. ASSUME NEW rest \in RestType, NEW n \in [Textures -> Int], NEW l \in [Textures -> Nat],
             Balanced(v.look, n, l, Plus(rest, y))
      PROVE  Balanced(new, n, l, Plus(rest, x))
  <2>1. Coat(new) \in [Spots -> Coats] /\ Coat(v.look) \in [Spots -> Coats]  BY <1>6, CoatTyped
  <2>2. QED  BY <1>7, <1>8, <2>1, SwapBalanced
<1>9. /\ r \in ViewType /\ r.look = new
      /\ \A rest \in RestType : Balanced(v.look, v.refs, v.lost, rest)
            => Balanced(new, r.refs, r.lost, rest)
  <2>1. CASE ~size
    <3>1. PICK d : d = RwTextureDestroy(v, x)  OBVIOUS
    <3>2. /\ d \in ViewType /\ d.look = v.look /\ d.lost = v.lost
          /\ \A look, l, rest : l \in [Textures -> Nat] /\ rest \in RestType
                                /\ Balanced(look, v.refs, l, Plus(rest, x))
                => Balanced(look, d.refs, l, rest)
      BY <1>2, <3>1, DestroyedIs
    <3>3. r = [d EXCEPT !.look.m_bShadow = FALSE, !.look.shadow = NoTexture]
      BY <1>1, <2>1, <3>1 DEF SetCustomShadow
    <3> HIDE DEF r
    <3>4. r.look = new /\ r.refs = d.refs /\ r.lost = d.lost /\ r \in ViewType
      BY <1>1, <1>2, <1>4, <1>5, <2>1, <3>2, <3>3 DEF ViewType, Look
    <3>5. ASSUME NEW rest \in RestType, Balanced(v.look, v.refs, v.lost, rest)
          PROVE  Balanced(new, r.refs, r.lost, rest)
      <4>1. Balanced(v.look, v.refs, v.lost, Plus(rest, y))  BY <1>1, <2>1, <3>5, PlusTyped
      <4>2. Balanced(new, v.refs, v.lost, Plus(rest, x))  BY <1>3, <1>8, <4>1
      <4>3. QED  BY <1>3, <3>2, <3>4, <4>2
    <3>6. QED  BY <3>4, <3>5
  <2>2. CASE size
    <3>1. PICK d, u : d = Forgotten(v, x) /\ u = Referenced(d, f)  OBVIOUS
    <3>2. /\ d \in ViewType /\ d.look = v.look /\ d.refs = v.refs
          /\ \A look, n, rest : n \in [Textures -> Int] /\ rest \in RestType
                                /\ Balanced(look, n, v.lost, Plus(rest, x))
                => Balanced(look, n, d.lost, rest)
      BY <1>2, <3>1, ForgottenIs
    <3>3. /\ u \in ViewType /\ u.look = d.look /\ u.lost = d.lost
          /\ \A look, l, rest : l \in [Textures -> Nat] /\ rest \in RestType
                                /\ Balanced(look, d.refs, l, rest)
                => Balanced(look, u.refs, l, Plus(rest, f))
      BY <3>1, <3>2, ReferencedIs
    <3>4. r = [u EXCEPT !.look.m_bShadow = TRUE, !.look.shadow = f]
      BY <1>1, <2>2, <3>1 DEF SetCustomShadow
    <3> HIDE DEF r
    <3>5. r.look = new /\ r.refs = u.refs /\ r.lost = u.lost /\ r \in ViewType /\ u.refs \in [Textures -> Int]
      BY <1>1, <1>2, <1>4, <1>5, <2>2, <3>2, <3>3, <3>4 DEF ViewType, Look
    <3>6. ASSUME NEW rest \in RestType, Balanced(v.look, v.refs, v.lost, rest)
          PROVE  Balanced(new, r.refs, r.lost, rest)
      <4>1. Balanced(v.look, u.refs, v.lost, Plus(rest, y))  BY <1>1, <1>3, <2>2, <3>2, <3>3, <3>6
      <4>2. Balanced(new, u.refs, v.lost, Plus(rest, x))  BY <1>3, <1>8, <3>5, <4>1
      <4>3. QED  BY <3>2, <3>3, <3>5, <4>2
    <3>7. QED  BY <3>5, <3>6
  <2>3. QED  BY <2>1, <2>2
<1> HIDE DEF r
<1>10. \A n \in Names : Shown(r.look, n) = Shown(v.look, n)  BY <1>5, <1>9 DEF Shown
<1>11. QED  BY <1>6, <1>9, <1>10 DEF r

GoodViews == {v \in ViewType : GoodLook(v.look)}

(* The windows' textures, one after the other. *)
LEMMA TonersIs ==
    ASSUME NEW v \in GoodViews, NEW toners \in [Toners -> Orders]
    PROVE  LET r == FoldSet(LAMBDA n, w : ApplyToner(w, n, toners[n]), v, Toners)
           IN  /\ r \in GoodViews
               /\ \A n \in Names : Shown(r.look, n) = IF n \in Toners THEN Ordered(Shown(v.look, n), toners[n])
                                                      ELSE Shown(v.look, n)
               /\ \A rest \in RestType : Balanced(v.look, v.refs, v.lost, rest)
                     => Balanced(r.look, r.refs, r.lost, rest)
<1> DEFINE r == FoldSet(LAMBDA n, w : ApplyToner(w, n, toners[n]), v, Toners)
           FoldTable(iter) ==
             iter = [s \in SUBSET Toners |->
                       IF s = {} THEN v
                       ELSE ApplyToner(iter[s \ {Picked(s)}], Picked(s), toners[Picked(s)])]
           table == CHOOSE iter : FoldTable(iter)
<1>0. IsFiniteSet(Toners) /\ Toners \subseteq Names  BY LookFacts DEF Names
<1>1. r = table[Toners]  BY DEF FoldSet, MapThenFoldSet, Picked
<1>2. ASSUME NEW w \in GoodViews, NEW n \in Toners
      PROVE  Dresses(w, ApplyToner(w, n, toners[n]), n, Ordered(Shown(w.look, n), toners[n]))
  BY <1>0, TonerDresses DEF GoodViews
<1>3. FoldTable(table)
  <2> DEFINE op == [p \in Toners \X GoodViews |-> ApplyToner(p[2], p[1], toners[p[1]])]
  <2>1. op \in [Toners \X GoodViews -> GoodViews]  BY <1>2 DEF Dresses, GoodViews
  <2>2. PICK g \in [SUBSET Toners -> GoodViews] : Folds(g, Toners, v, op)
    <3> HIDE DEF op
    <3> QED  BY <1>0, <2>1, FoldExists
  <2>3. FoldTable(g)
    <3>1. ASSUME NEW s \in SUBSET Toners, s # {}
          PROVE  op[<<Picked(s), g[s \ {Picked(s)}]>>]
                   = ApplyToner(g[s \ {Picked(s)}], Picked(s), toners[Picked(s)])
      <4>1. Picked(s) \in Toners /\ s \ {Picked(s)} \in SUBSET Toners  BY <3>1 DEF Picked
      <4>2. g[s \ {Picked(s)}] \in GoodViews  BY <4>1
      <4>3. QED  BY <4>1, <4>2
    <3> HIDE DEF op
    <3>2. QED  BY <2>2, <3>1 DEF Folds
  <2> HIDE DEF FoldTable
  <2>4. QED  BY <2>3
<1> DEFINE So(w, s) ==
             /\ w \in GoodViews
             /\ \A n \in Names : Shown(w.look, n) = IF n \in s THEN Ordered(Shown(v.look, n), toners[n])
                                                    ELSE Shown(v.look, n)
             /\ \A rest \in RestType : Balanced(v.look, v.refs, v.lost, rest)
                   => Balanced(w.look, w.refs, w.lost, rest)
           T == {s \in SUBSET Toners : So(table[s], s)}
<1> HIDE DEF table, r
<1>4. {} \in T
  <2>1. table[{}] = v  BY <1>3
  <2>2. So(v, {})  OBVIOUS
  <2>3. QED  BY <2>1, <2>2
<1>5. ASSUME NEW s \in SUBSET Toners, s # {}, \A u \in SUBSET s : u # s => u \in T
      PROVE  s \in T
  <2>1. PICK n, w : n \in s /\ n = Picked(s) /\ w = table[s \ {n}] /\ s \ {n} \in T
    <3> HIDE DEF T
    <3> QED  BY <1>5 DEF Picked
  <2>2. PICK z : z = ApplyToner(w, n, toners[n])  OBVIOUS
  <2>3. table[s] = z  BY <1>3, <1>5, <2>1, <2>2
  <2>4. So(w, s \ {n})  BY <2>1
  <2>5. n \in Toners /\ Dresses(w, z, n, Ordered(Shown(w.look, n), toners[n]))  BY <1>2, <2>1, <2>2, <2>4
  <2>6. Shown(w.look, n) = Shown(v.look, n)  BY <1>0, <2>4, <2>5
  <2>7. z \in GoodViews  BY <2>5 DEF Dresses, GoodViews
  <2>8. \A m \in Names : Shown(z.look, m) = IF m \in s THEN Ordered(Shown(v.look, m), toners[m])
                                            ELSE Shown(v.look, m)
    <3> SUFFICES ASSUME NEW m \in Names
                 PROVE  Shown(z.look, m) = IF m \in s THEN Ordered(Shown(v.look, m), toners[m])
                                           ELSE Shown(v.look, m)
      OBVIOUS
    <3>1. Shown(z.look, m) = IF m = n THEN Ordered(Shown(v.look, n), toners[n]) ELSE Shown(w.look, m)
      BY <2>5, <2>6 DEF Dresses
    <3>2. Shown(w.look, m) = IF m \in s \ {n} THEN Ordered(Shown(v.look, m), toners[m])
                             ELSE Shown(v.look, m)
      BY <2>4
    <3>3. QED  BY <2>1, <3>1, <3>2
  <2>9. So(z, s)  BY <2>4, <2>5, <2>7, <2>8 DEF Dresses
  <2> HIDE DEF So
  <2>10. QED  BY <2>3, <2>9
<1>6. So(table[Toners], Toners)
  <2> HIDE DEF So
  <2>1. SUBSET Toners \subseteq T
    <3> HIDE DEF T
    <3> QED  BY <1>0, <1>4, <1>5, Subsets
  <2>2. QED  BY <2>1
<1>7. So(r, Toners)  BY <1>1, <1>6
<1>8. QED  BY <1>7 DEF r

LEMMA NewLookIs ==
    /\ GoodLook(NewLook)
    /\ \A n \in Names : Shown(NewLook, n) = NoTexture
    /\ \A t \in Textures : Tally(Coat(NewLook), t) = 0
<1>1. GoodLook(NewLook)  BY DEF GoodLook, NewLook, Look, Unused
<1>2. \A i \in Slots : NewLook.m_szReplacedTextures[i] = Unused  BY DEF NewLook
<1>3. ASSUME NEW n \in Names PROVE Shown(NewLook, n) = NoTexture
  <2>1. \A i \in Slots : NewLook.m_szReplacedTextures[i].szOld # n  BY <1>2, LookFacts DEF Unused
  <2>2. QED  BY <1>1, <2>1, ShownOf
<1>4. ASSUME NEW t \in Textures PROVE Tally(Coat(NewLook), t) = 0
  <2>1. \A h \in Spots : h # 0 => h \in Slots  BY LookFacts DEF Spots, Slots
  <2>2. \A h \in Spots : Coat(NewLook)[h] = NoTexture  BY <1>2, <2>1 DEF Coat, NewLook, Unused
  <2>3. {h \in Spots : Coat(NewLook)[h] = t} = {}  BY <2>2, LookFacts
  <2>4. QED  BY <2>3, FS_EmptySet DEF Tally
<1>5. QED  BY <1>1, <1>3, <1>4

LEMMA WornIs ==
    ASSUME NEW look, GoodLook(look), NEW t \in Textures
    PROVE  Worn(look, t) = Tally(Coat(look), t)
<1> DEFINE A == {i \in Slots : look.m_szReplacedTextures[i].pTexture = t}
           B == {h \in Spots : Coat(look)[h] = t}
<1>1. IsFiniteSet(A) /\ Cardinality(A) \in Nat /\ 0 \notin A
  <2>1. IsFiniteSet(Slots) /\ 0 \notin Slots  BY LookFacts, FS_Interval DEF Slots
  <2>2. QED  BY <2>1, FS_Subset, FS_CardinalityType
<1>2. \A h : h \in Spots <=> h = 0 \/ h \in Slots  BY LookFacts DEF Spots, Slots
<1>3. 0 \notin Slots  BY DEF Slots
<1>4. CASE look.m_bShadow /\ look.shadow = t
  <2>1. B = A \cup {0}  BY <1>2, <1>3, <1>4 DEF Coat
  <2> HIDE DEF A, B
  <2>2. Cardinality(B) = Cardinality(A) + 1  BY <1>1, <2>1, FS_AddElement
  <2>3. QED  BY <1>4, <2>2 DEF Worn, Tally, A, B
<1>5. CASE ~(look.m_bShadow /\ look.shadow = t)
  <2>1. look.shadow # t  BY <1>5, LookFacts DEF GoodLook
  <2>2. B = A  BY <1>2, <1>3, <2>1 DEF Coat
  <2> HIDE DEF A, B
  <2>3. Worn(look, t) = Cardinality(A) + 0
    <3>1. (IF look.m_bShadow /\ look.shadow = t THEN 1 ELSE 0) = 0  BY <1>5
    <3>2. QED  BY <3>1, Zenon DEF Worn, A
  <2>4. Tally(Coat(look), t) = Cardinality(A)  BY <2>2, Zenon DEF Tally, B
  <2>5. QED  BY <1>1, <2>3, <2>4
<1>6. QED  BY <1>4, <1>5

-----------------------------------------------------------------------------
(* The vehicles together *)

FleetType == {cars \in [CarIds -> Look \cup {NoCar}] : \A c \in CarIds : cars[c] = NoCar \/ GoodLook(cars[c])}
HeldBy(cars, cs, t) == {p \in cs \X Spots : cars[p[1]] # NoCar /\ Coat(cars[p[1]])[p[2]] = t}
Fleet(cars, cs, t) == Cardinality(HeldBy(cars, cs, t))
Accounts(cars, r, l) == \A t \in Textures : r[t] = l[t] + Fleet(cars, CarIds, t)

LEMMA HeldFinite ==
    \A cars, t : \A cs \in SUBSET CarIds : IsFiniteSet(HeldBy(cars, cs, t)) /\ Fleet(cars, cs, t) \in Nat
<1> TAKE cars, t
<1> TAKE cs \in SUBSET CarIds
<1>1. IsFiniteSet(cs) /\ IsFiniteSet(Spots)
  <2>1. IsFiniteSet(cs)  BY LookFacts, FS_Subset
  <2>2. 0 \in Int /\ MaxReplaced \in Int  BY LookFacts
  <2>3. IsFiniteSet(0 .. MaxReplaced)  BY <2>2, FS_Interval, Zenon
  <2>4. QED  BY <2>1, <2>3 DEF Spots
<1>2. IsFiniteSet(cs \X Spots)  BY <1>1, FS_Product
<1>3. IsFiniteSet(HeldBy(cars, cs, t))  BY <1>2, FS_Subset DEF HeldBy
<1>4. QED  BY <1>3, FS_CardinalityType DEF Fleet

LEMMA FleetSplits ==
    ASSUME NEW cars, NEW t, NEW cs \in SUBSET CarIds, NEW c \in cs
    PROVE  Fleet(cars, cs, t) = Fleet(cars, cs \ {c}, t)
                                  + IF cars[c] = NoCar THEN 0 ELSE Tally(Coat(cars[c]), t)
<1> DEFINE a == HeldBy(cars, cs \ {c}, t)
           b == {p \in HeldBy(cars, cs, t) : p[1] = c}
           h == {k \in Spots : Coat(cars[c])[k] = t}
<1>1. IsFiniteSet(a) /\ IsFiniteSet(b) /\ HeldBy(cars, cs, t) = a \cup b /\ a \cap b = {}
  <2>1. IsFiniteSet(HeldBy(cars, cs, t)) /\ IsFiniteSet(a)
    <3>1. cs \ {c} \in SUBSET CarIds  OBVIOUS
    <3>2. QED  BY <3>1, HeldFinite
  <2>2. IsFiniteSet(b)  BY <2>1, FS_Subset
  <2>3. HeldBy(cars, cs, t) = a \cup b /\ a \cap b = {}  BY DEF HeldBy
  <2>4. QED  BY <2>1, <2>2, <2>3
<1>2. Cardinality(b) = IF cars[c] = NoCar THEN 0 ELSE Tally(Coat(cars[c]), t)
  <2>1. CASE cars[c] = NoCar
    <3>1. b = {}  BY <2>1 DEF HeldBy
    <3>2. QED  BY <2>1, <3>1, FS_EmptySet
  <2>2. CASE cars[c] # NoCar
    <3> DEFINE f == [k \in h |-> <<c, k>>]
    <3>1. \A k \in h : f[k] \in b  BY <2>2 DEF HeldBy
    <3>2. \A p \in b : \E k \in h : f[k] = p  BY DEF HeldBy
    <3>3. \A j, k \in h : f[j] = f[k] => j = k  OBVIOUS
    <3>4. f \in [h -> b]  BY <3>1
    <3>5. IsFiniteSet(h) /\ Cardinality(h) = Tally(Coat(cars[c]), t)  BY TallyTyped DEF Tally
    <3> HIDE DEF f, b, h
    <3>6. f \in Bijection(h, b)
      BY <3>2, <3>3, <3>4 DEF Bijection, Injection, Surjection, IsInjective
    <3>7. QED  BY <2>2, <3>5, <3>6, FS_Bijection DEF ExistsBijection
  <2>3. QED  BY <2>1, <2>2
<1> HIDE DEF a, b
<1>3. Cardinality(a \cup b) = Cardinality(a) + Cardinality(b) - Cardinality(a \cap b)  BY <1>1, FS_Union
<1>4. Cardinality(a \cap b) = 0 /\ Cardinality(a) \in Nat /\ Cardinality(b) \in Nat
  BY <1>1, FS_EmptySet, FS_CardinalityType
<1>5. Fleet(cars, cs, t) = Cardinality(a \cup b) /\ Fleet(cars, cs \ {c}, t) = Cardinality(a)
  BY <1>1 DEF Fleet, a
<1>6. QED  BY <1>2, <1>3, <1>4, <1>5

(* What the sums over vehicles count. *)
LEMMA WornCounted ==
    \A cars \in FleetType, cs \in SUBSET CarIds, t \in Textures :
        MapThenSumSet(LAMBDA c : Worn(cars[c], t), {c \in cs : cars[c] # NoCar}) = Fleet(cars, cs, t)
<1> TAKE cars \in FleetType, cs \in SUBSET CarIds, t \in Textures
<1> DEFINE P == {c \in cs : cars[c] # NoCar}
           OnIt(c) == Worn(cars[c], t)
           FoldTable(iter) ==
             iter = [s \in SUBSET P |-> IF s = {} THEN 0 ELSE OnIt(Picked(s)) + iter[s \ {Picked(s)}]]
           table == CHOOSE iter : FoldTable(iter)
<1>1. IsFiniteSet(P) /\ P \subseteq CarIds  BY LookFacts, FS_Subset
<1>2. MapThenSumSet(OnIt, P) = table[P]  BY DEF MapThenSumSet, MapThenFoldSet, Picked
<1>3. \A c \in P : OnIt(c) = Tally(Coat(cars[c]), t) /\ OnIt(c) \in Nat
  BY WornIs, TallyTyped DEF FleetType
<1> HIDE DEF OnIt
<1>4. FoldTable(table)
  <2> DEFINE op == [q \in P \X Int |-> OnIt(q[1]) + q[2]]
  <2>1. op \in [P \X Int -> Int]  BY <1>3
  <2>2. PICK g \in [SUBSET P -> Int] : Folds(g, P, 0, op)
    <3>1. 0 \in Int  OBVIOUS
    <3> HIDE DEF op, P
    <3>2. QED  BY <1>1, <2>1, <3>1, FoldExists, Zenon
  <2>3. FoldTable(g)
    <3>1. ASSUME NEW s \in SUBSET P, s # {}
          PROVE  op[<<Picked(s), g[s \ {Picked(s)}]>>] = OnIt(Picked(s)) + g[s \ {Picked(s)}]
      <4>1. Picked(s) \in P /\ s \ {Picked(s)} \in SUBSET P  BY <3>1 DEF Picked
      <4>2. g[s \ {Picked(s)}] \in Int  BY <4>1
      <4> HIDE DEF P
      <4>3. QED  BY <4>1, <4>2
    <3> HIDE DEF op, P
    <3>2. QED  BY <2>2, <3>1 DEF Folds
  <2> HIDE DEF FoldTable
  <2>4. QED  BY <2>3
<1> DEFINE T == {s \in SUBSET P : table[s] = Fleet(cars, s, t)}
<1> HIDE DEF table
<1>5. {} \in T
  <2>1. HeldBy(cars, {}, t) = {}  BY DEF HeldBy
  <2>2. QED  BY <1>4, <2>1, FS_EmptySet DEF Fleet
<1>6. ASSUME NEW s \in SUBSET P, s # {}, \A u \in SUBSET s : u # s => u \in T
      PROVE  s \in T
  <2>1. PICK x : x \in s /\ x = Picked(s) /\ s \ {x} \in T  BY <1>6 DEF Picked
  <2>2. table[s] = OnIt(x) + Fleet(cars, s \ {x}, t)  BY <1>4, <1>6, <2>1
  <2>3. Fleet(cars, s, t) = Fleet(cars, s \ {x}, t) + Tally(Coat(cars[x]), t)
    <3>1. s \in SUBSET CarIds /\ cars[x] # NoCar  BY <1>1, <2>1
    <3>2. QED  BY <2>1, <3>1, FleetSplits
  <2>4. Fleet(cars, s \ {x}, t) \in Nat
    <3>1. s \ {x} \in SUBSET CarIds  BY <1>1
    <3>2. QED  BY <3>1, HeldFinite
  <2>5. OnIt(x) = Tally(Coat(cars[x]), t) /\ OnIt(x) \in Nat  BY <1>3, <2>1
  <2>6. QED  BY <2>2, <2>3, <2>4, <2>5
<1>7. P \in T
  <2> HIDE DEF T, P
  <2>1. SUBSET P \subseteq T  BY <1>1, <1>5, <1>6, Subsets
  <2>2. QED  BY <2>1
<1>8. HeldBy(cars, P, t) = HeldBy(cars, cs, t)  BY DEF HeldBy
<1>9. QED  BY <1>2, <1>7, <1>8 DEF OnIt, Fleet

PlateOrder == [vehicleId : CarIds, plate : Plates \cup {BadPlate}]

(* The plates a vehicle still waits for, the first k being drawn. *)
PlatesDue(q, k, c) == {i \in DOMAIN q : i > k /\ q[i].vehicleId = c /\ q[i].plate # BadPlate}

(* A vehicle wears what is wanted of it, or its last plate is on the way. *)
Dressed(look, want, q, k, c) ==
    /\ \A n \in Names : n # "remap_plate" => Shown(look, n) = want[n]
    /\ PlatesDue(q, k, c) = {} => Shown(look, "remap_plate") = want["remap_plate"]
    /\ PlatesDue(q, k, c) # {} =>
           \E i \in PlatesDue(q, k, c) :
               q[i].plate = want["remap_plate"] /\ \A j \in PlatesDue(q, k, c) : j <= i

LookInv ==
    /\ m_pVehicles \in FleetType /\ m_Plates \in Seq(PlateOrder)
    /\ refs \in [Textures -> Int] /\ lost \in [Textures -> Nat]
    /\ ordered \in [CarIds -> [Names -> Coats]]
    /\ Accounts(m_pVehicles, refs, lost)
    /\ \A c \in CarIds : m_pVehicles[c] # NoCar => Dressed(m_pVehicles[c], ordered[c], m_Plates, 0, c)

(* What the other vehicles hold. *)
Others(cars, c) == [t \in Textures |-> Fleet(cars, CarIds \ {c}, t)]

LEMMA RestIs ==
    ASSUME NEW cars \in FleetType, NEW c \in CarIds,
           NEW r \in [Textures -> Int], NEW l \in [Textures -> Nat]
    PROVE  /\ Others(cars, c) \in RestType
           /\ cars[c] # NoCar => (Accounts(cars, r, l) <=> Balanced(cars[c], r, l, Others(cars, c)))
           /\ cars[c] = NoCar => (Accounts(cars, r, l) <=> \A t \in Textures : r[t] = l[t] + Others(cars, c)[t])
<1>1. \A t \in Textures : Fleet(cars, CarIds \ {c}, t) \in Nat
  <2>1. CarIds \ {c} \in SUBSET CarIds  OBVIOUS
  <2>2. QED  BY <2>1, HeldFinite
<1>2. \A t \in Textures : Others(cars, c)[t] = Fleet(cars, CarIds \ {c}, t)  BY DEF Others
<1>3. Others(cars, c) \in RestType  BY <1>1 DEF Others, RestType
<1>4. ASSUME NEW t \in Textures
      PROVE  Fleet(cars, CarIds, t) = Others(cars, c)[t] + IF cars[c] = NoCar THEN 0 ELSE Tally(Coat(cars[c]), t)
  <2>1. CarIds \in SUBSET CarIds  OBVIOUS
  <2>2. QED  BY <1>2, <2>1, FleetSplits
<1>5. \A t \in Textures : /\ Others(cars, c)[t] \in Nat /\ l[t] \in Nat /\ r[t] \in Int
                          /\ Tally(Coat(cars[c]), t) \in Nat
  BY <1>1, <1>2, TallyTyped
<1>6. ASSUME cars[c] # NoCar
      PROVE  Accounts(cars, r, l) <=> Balanced(cars[c], r, l, Others(cars, c))
  <2>1. \A t \in Textures : l[t] + Fleet(cars, CarIds, t) = l[t] + Tally(Coat(cars[c]), t) + Others(cars, c)[t]
    BY <1>4, <1>5, <1>6
  <2>2. QED  BY <2>1 DEF Accounts, Balanced
<1>7. ASSUME cars[c] = NoCar
      PROVE  Accounts(cars, r, l) <=> \A t \in Textures : r[t] = l[t] + Others(cars, c)[t]
  <2>1. \A t \in Textures : Fleet(cars, CarIds, t) = Others(cars, c)[t]  BY <1>4, <1>5, <1>7
  <2>2. QED  BY <2>1 DEF Accounts
<1>8. QED  BY <1>3, <1>6, <1>7

LEMMA RestSame ==
    ASSUME NEW cars, NEW other, NEW c, \A d \in CarIds : d # c => other[d] = cars[d]
    PROVE  Others(other, c) = Others(cars, c)
<1>1. \A t : HeldBy(other, CarIds \ {c}, t) = HeldBy(cars, CarIds \ {c}, t)  BY DEF HeldBy
<1>2. QED  BY <1>1 DEF Others, Fleet

LEMMA GoodIsThere == \A look : GoodLook(look) => look # NoCar /\ look \in Look
BY LookFacts DEF GoodLook

(* What a destroyed vehicle gives back. *)
LEMMA ScrappedIs ==
    ASSUME LookInv
    PROVE  /\ \A c \in CarIds : /\ Scrapped({c}) \in [Textures -> Int]
                                /\ \A t \in Textures : Scrapped({c})[t] = lost[t] + Others(m_pVehicles, c)[t]
           /\ Scrapped(CarIds) \in [Textures -> Int] /\ \A t \in Textures : Scrapped(CarIds)[t] = lost[t]
<1>1. PICK cars \in FleetType, r \in [Textures -> Int], l \in [Textures -> Nat] :
         cars = m_pVehicles /\ r = refs /\ l = lost
  BY DEF LookInv
<1>2. Accounts(cars, r, l)  BY <1>1 DEF LookInv
<1>3. \A cs \in SUBSET CarIds : Scrapped(cs) = [t \in Textures |-> r[t] - Fleet(cars, cs, t)]
  <2> TAKE cs \in SUBSET CarIds
  <2>1. \A t \in Textures :
           MapThenSumSet(LAMBDA c : Worn(m_pVehicles[c], t), {c \in cs : m_pVehicles[c] # NoCar})
              = Fleet(m_pVehicles, cs, t)
    <3>1. m_pVehicles \in FleetType  BY <1>1
    <3>2. QED  BY <3>1, WornCounted
  <2>2. Scrapped(cs) = [t \in Textures |-> refs[t] - Fleet(m_pVehicles, cs, t)]
    BY <2>1, Zenon DEF Scrapped
  <2>3. QED  BY <1>1, <2>2
<1>4. ASSUME NEW c \in CarIds
      PROVE  /\ Scrapped({c}) \in [Textures -> Int]
             /\ \A t \in Textures : Scrapped({c})[t] = lost[t] + Others(m_pVehicles, c)[t]
  <2>1. {c} \in SUBSET CarIds  OBVIOUS
  <2>2. \A t \in Textures : Fleet(cars, {c}, t) \in Nat /\ Fleet(cars, {}, t) = 0
    <3>1. \A t : HeldBy(cars, {}, t) = {}  BY DEF HeldBy
    <3>2. QED  BY <2>1, <3>1, HeldFinite, FS_EmptySet DEF Fleet
  <2>3. \A t \in Textures : Fleet(cars, CarIds, t) = Others(cars, c)[t] + Fleet(cars, {c}, t)
    <3> TAKE t \in Textures
    <3>1. CarIds \in SUBSET CarIds /\ c \in {c} /\ {c} \ {c} = {}  OBVIOUS
    <3>2. PICK k : k = IF cars[c] = NoCar THEN 0 ELSE Tally(Coat(cars[c]), t)  OBVIOUS
    <3>3. Fleet(cars, CarIds, t) = Others(cars, c)[t] + k  BY <3>1, <3>2, FleetSplits DEF Others
    <3>4. Fleet(cars, {c}, t) = Fleet(cars, {c} \ {c}, t) + k  BY <2>1, <3>1, <3>2, FleetSplits
    <3>5. k \in Nat  BY <3>2, TallyTyped
    <3>6. Fleet(cars, {c}, t) = k  BY <2>2, <3>1, <3>4, <3>5
    <3>7. QED  BY <3>3, <3>6
  <2>4. \A t \in Textures : Others(cars, c)[t] \in Nat  BY RestIs DEF RestType
  <2>5. \A t \in Textures : r[t] = l[t] + Fleet(cars, CarIds, t)  BY <1>2 DEF Accounts
  <2>6. \A t \in Textures : r[t] - Fleet(cars, {c}, t) = l[t] + Others(cars, c)[t]
    <3> TAKE t \in Textures
    <3>1. r[t] \in Int /\ l[t] \in Nat /\ Fleet(cars, {c}, t) \in Nat /\ Others(cars, c)[t] \in Nat
      BY <1>1, <2>2, <2>4
    <3>2. r[t] = l[t] + Fleet(cars, CarIds, t) /\ Fleet(cars, CarIds, t) = Others(cars, c)[t] + Fleet(cars, {c}, t)
      BY <2>3, <2>5
    <3>3. QED  BY <3>1, <3>2
  <2>7. PICK s : s = Scrapped({c})  OBVIOUS
  <2>8. s = [t \in Textures |-> r[t] - Fleet(cars, {c}, t)]  BY <1>3, <2>1, <2>7
  <2>9. s \in [Textures -> Int]
    <3>1. \A t \in Textures : r[t] - Fleet(cars, {c}, t) \in Int
      <4> TAKE t \in Textures
      <4>1. r[t] \in Int /\ Fleet(cars, {c}, t) \in Nat  BY <1>1, <2>2
      <4>2. QED  BY <4>1
    <3>2. QED  BY <2>8, <3>1
  <2>10. QED  BY <1>1, <2>6, <2>7, <2>8, <2>9
<1>5. Scrapped(CarIds) \in [Textures -> Int] /\ \A t \in Textures : Scrapped(CarIds)[t] = lost[t]
  <2>1. CarIds \in SUBSET CarIds  OBVIOUS
  <2>2. \A t \in Textures : Fleet(cars, CarIds, t) \in Nat  BY <2>1, HeldFinite
  <2>3. \A t \in Textures : r[t] = l[t] + Fleet(cars, CarIds, t)  BY <1>2 DEF Accounts
  <2>4. \A t \in Textures : r[t] - Fleet(cars, CarIds, t) = l[t]
    <3> TAKE t \in Textures
    <3>1. r[t] \in Int /\ l[t] \in Nat  BY <1>1
    <3>2. QED  BY <2>2, <2>3, <3>1
  <2>5. PICK s : s = Scrapped(CarIds)  OBVIOUS
  <2>6. s = [t \in Textures |-> r[t] - Fleet(cars, CarIds, t)]  BY <1>3, <2>1, <2>5
  <2>7. s \in [Textures -> Int]
    <3>1. \A t \in Textures : r[t] - Fleet(cars, CarIds, t) \in Int
      <4> TAKE t \in Textures
      <4>1. r[t] \in Int /\ Fleet(cars, CarIds, t) \in Nat  BY <1>1, <2>2
      <4>2. QED  BY <4>1
    <3>2. QED  BY <2>6, <3>1
  <2>8. QED  BY <1>1, <2>4, <2>5, <2>6, <2>7
<1>6. QED  BY <1>4, <1>5

(* A plate is ordered. *)
LEMMA PushedIs ==
    ASSUME NEW q \in Seq(PlateOrder), NEW o \in PlateOrder, NEW look, NEW want, NEW now, NEW c \in CarIds,
           \A n \in Names : n # "remap_plate" => Shown(look, n) = now[n],
           o.vehicleId = c /\ o.plate # BadPlate => now["remap_plate"] = o.plate,
           ~(o.vehicleId = c /\ o.plate # BadPlate) =>
               Dressed(look, want, q, 0, c) /\ now["remap_plate"] = want["remap_plate"]
    PROVE  Dressed(look, now, Append(q, o), 0, c)
<1> DEFINE n == Len(q)
           more == Append(q, o)
<1>1. /\ n \in Nat /\ DOMAIN q = 1 .. n /\ DOMAIN more = 1 .. n + 1 /\ more[n + 1] = o
      /\ \A i \in 1 .. n : more[i] = q[i]
  OBVIOUS
<1> HIDE DEF n, more
<1>2. CASE o.vehicleId = c /\ o.plate # BadPlate
  <2>1. n + 1 \in PlatesDue(more, 0, c)  BY <1>1, <1>2 DEF PlatesDue
  <2>2. \A j \in PlatesDue(more, 0, c) : j <= n + 1  BY <1>1 DEF PlatesDue
  <2>3. more[n + 1].plate = now["remap_plate"]  BY <1>1, <1>2
  <2>4. QED  BY <2>1, <2>2, <2>3 DEF Dressed, more
<1>3. CASE ~(o.vehicleId = c /\ o.plate # BadPlate)
  <2>1. PlatesDue(more, 0, c) = PlatesDue(q, 0, c)  BY <1>1, <1>3 DEF PlatesDue
  <2>2. \A i \in PlatesDue(q, 0, c) : more[i] = q[i]  BY <1>1 DEF PlatesDue
  <2>3. QED  BY <1>3, <2>1, <2>2 DEF Dressed, more
<1>4. QED  BY <1>2, <1>3

LEMMA LookStart == LookInit => LookInv
<1> SUFFICES ASSUME LookInit PROVE LookInv  OBVIOUS
<1>1. m_pVehicles = [c \in CarIds |-> NoCar] /\ m_Plates = << >> /\ refs = [t \in Textures |-> 0]
      /\ lost = [t \in Textures |-> 0] /\ ordered = [c \in CarIds |-> AsTheModel]
  BY DEF LookInit
<1>2. m_pVehicles \in FleetType  BY <1>1 DEF FleetType
<1>3. AsTheModel \in [Names -> Coats]  BY DEF AsTheModel, Coats
<1>4. \A t \in Textures : HeldBy(m_pVehicles, CarIds, t) = {}  BY <1>1 DEF HeldBy
<1>5. Accounts(m_pVehicles, refs, lost)
  <2>1. \A t \in Textures : Fleet(m_pVehicles, CarIds, t) = 0  BY <1>4, FS_EmptySet, Zenon DEF Fleet
  <2>2. \A t \in Textures : refs[t] = 0 /\ lost[t] = 0  BY <1>1
  <2>3. QED  BY <2>1, <2>2 DEF Accounts
<1>6. QED  BY <1>1, <1>2, <1>3, <1>5 DEF LookInv

LEMMA NewVehicleKept ==
    ASSUME LookInv, NEW c \in CarIds, NEW p \in Plates, NewVehicle(c, p)
    PROVE  LookInv'
<1>1. PICK o \in PlateOrder : o = [vehicleId |-> c, plate |-> p]  BY DEF PlateOrder
<1>2. m_Plates \in Seq(PlateOrder) /\ m_Plates' = Append(m_Plates, o)
  BY <1>1 DEF NewVehicle, PushPlate, LookInv
<1>3. /\ refs' = Scrapped({c}) /\ lost' = lost /\ lost \in [Textures -> Nat]
      /\ m_pVehicles' = [m_pVehicles EXCEPT ![c] = NewLook] /\ m_pVehicles \in FleetType
      /\ ordered' = [ordered EXCEPT ![c] = [AsTheModel EXCEPT !["remap_plate"] = p]]
      /\ ordered \in [CarIds -> [Names -> Coats]]
  BY DEF NewVehicle, LookInv
<1>4. GoodLook(NewLook) /\ NewLook # NoCar /\ NewLook \in Look  BY NewLookIs, GoodIsThere
<1>5. m_pVehicles' \in FleetType  BY <1>3, <1>4 DEF FleetType
<1>6. refs' \in [Textures -> Int] /\ \A t \in Textures : refs'[t] = lost[t] + Others(m_pVehicles, c)[t]
  BY <1>3, ScrappedIs
<1>7. PICK cars \in FleetType, other \in FleetType, r \in [Textures -> Int], l \in [Textures -> Nat] :
         cars = m_pVehicles /\ other = m_pVehicles' /\ r = refs' /\ l = lost
  BY <1>3, <1>5, <1>6
<1>8. /\ other[c] = NewLook /\ \A d \in CarIds : d # c => other[d] = cars[d]
  BY <1>3, <1>7 DEF FleetType
<1>9. Accounts(other, r, l)
  <2>1. Others(other, c) = Others(cars, c)  BY <1>8, RestSame
  <2>2. Others(other, c) \in RestType  BY RestIs
  <2>3. \A t \in Textures : r[t] = l[t] + Others(other, c)[t]  BY <1>6, <1>7, <2>1
  <2>4. Balanced(other[c], r, l, Others(other, c))
    <3> SUFFICES ASSUME NEW t \in Textures PROVE r[t] = l[t] + Tally(Coat(other[c]), t) + Others(other, c)[t]
      BY DEF Balanced
    <3>1. l[t] \in Nat /\ Others(other, c)[t] \in Nat /\ Tally(Coat(other[c]), t) = 0
      BY <1>8, <2>2, NewLookIs DEF RestType
    <3>2. QED  BY <2>3, <3>1
  <2>5. QED  BY <1>4, <1>8, <2>4, RestIs
<1>10. "remap_plate" \in Names /\ p \in Coats /\ NoTexture \in Coats
  BY DEF Names, Coats, Textures
<1>11. ordered' \in [CarIds -> [Names -> Coats]]
       /\ \A n \in Names : ordered'[c][n] = IF n = "remap_plate" THEN p ELSE NoTexture
  BY <1>3, <1>10 DEF AsTheModel
<1>12. ASSUME NEW d \in CarIds, m_pVehicles'[d] # NoCar
       PROVE  Dressed(m_pVehicles'[d], ordered'[d], m_Plates', 0, d)
  <2>1. CASE d = c
    <3>1. PICK look, now : look = m_pVehicles'[c] /\ now = ordered'[c]  OBVIOUS
    <3>2. look = NewLook  BY <1>7, <1>8, <3>1
    <3>3. \A n \in Names : n # "remap_plate" => Shown(look, n) = now[n]  BY <1>11, <3>1, <3>2, NewLookIs
    <3>4. o.vehicleId = c /\ o.plate = p /\ o.plate # BadPlate  BY <1>1, LookFacts
    <3>5. now["remap_plate"] = o.plate  BY <1>10, <1>11, <3>1, <3>4
    <3>6. Dressed(look, now, Append(m_Plates, o), 0, c)  BY <1>2, <3>3, <3>4, <3>5, PushedIs
    <3>7. QED  BY <1>2, <2>1, <3>1, <3>6
  <2>2. CASE d # c
    <3>1. PICK look, want : look = m_pVehicles[d] /\ want = ordered[d]  OBVIOUS
    <3>2. m_pVehicles'[d] = look /\ ordered'[d] = want  BY <1>3, <2>2, <3>1 DEF FleetType
    <3>3. Dressed(look, want, m_Plates, 0, d)  BY <1>12, <3>1, <3>2 DEF LookInv
    <3>4. o.vehicleId # d  BY <1>1, <2>2
    <3>5. \A n \in Names : n # "remap_plate" => Shown(look, n) = want[n]  BY <3>3 DEF Dressed
    <3>6. Dressed(look, want, Append(m_Plates, o), 0, d)  BY <1>2, <3>3, <3>4, <3>5, PushedIs
    <3>7. QED  BY <1>2, <3>2, <3>6
  <2>3. QED  BY <2>1, <2>2
<1>13. m_Plates' \in Seq(PlateOrder)  BY <1>2
<1>14. QED  BY <1>3, <1>5, <1>6, <1>7, <1>9, <1>11, <1>12, <1>13 DEF LookInv

LEMMA DeleteVehicleKept ==
    ASSUME LookInv, NEW c \in CarIds, DeleteVehicle(c)
    PROVE  LookInv'
<1>1. /\ refs' = Scrapped({c}) /\ lost' = lost /\ lost \in [Textures -> Nat]
      /\ m_pVehicles' = [m_pVehicles EXCEPT ![c] = NoCar] /\ m_pVehicles \in FleetType
      /\ ordered' = [ordered EXCEPT ![c] = AsTheModel] /\ ordered \in [CarIds -> [Names -> Coats]]
      /\ m_Plates' = m_Plates
  BY DEF DeleteVehicle, LookInv
<1>2. m_pVehicles' \in FleetType  BY <1>1 DEF FleetType
<1>3. refs' \in [Textures -> Int] /\ \A t \in Textures : refs'[t] = lost[t] + Others(m_pVehicles, c)[t]
  BY <1>1, ScrappedIs
<1>4. PICK cars \in FleetType, other \in FleetType, r \in [Textures -> Int], l \in [Textures -> Nat] :
         cars = m_pVehicles /\ other = m_pVehicles' /\ r = refs' /\ l = lost
  BY <1>1, <1>2, <1>3
<1>5. /\ other[c] = NoCar /\ \A d \in CarIds : d # c => other[d] = cars[d]
  BY <1>1, <1>4 DEF FleetType
<1>6. Accounts(other, r, l)
  <2>1. Others(other, c) = Others(cars, c)  BY <1>5, RestSame
  <2>2. \A t \in Textures : r[t] = l[t] + Others(other, c)[t]  BY <1>3, <1>4, <2>1
  <2>3. QED  BY <1>5, <2>2, RestIs
<1>7. ordered' \in [CarIds -> [Names -> Coats]]  BY <1>1 DEF AsTheModel, Coats
<1>8. ASSUME NEW d \in CarIds, m_pVehicles'[d] # NoCar
      PROVE  Dressed(m_pVehicles'[d], ordered'[d], m_Plates', 0, d)
  <2>1. d # c  BY <1>4, <1>5, <1>8
  <2>2. m_pVehicles'[d] = m_pVehicles[d] /\ ordered'[d] = ordered[d]  BY <1>1, <2>1 DEF FleetType
  <2>3. QED  BY <1>1, <1>8, <2>2 DEF LookInv
<1>9. QED  BY <1>1, <1>2, <1>3, <1>4, <1>6, <1>7, <1>8 DEF LookInv

LEMMA ResetKept == ASSUME LookInv, ResetVehiclePool PROVE LookInv'
<1>1. /\ refs' = Scrapped(CarIds) /\ lost' = lost /\ lost \in [Textures -> Nat]
      /\ m_pVehicles' = [c \in CarIds |-> NoCar] /\ ordered' = [c \in CarIds |-> AsTheModel]
      /\ m_Plates' = m_Plates
  BY DEF ResetVehiclePool, LookInv
<1>2. m_pVehicles' \in FleetType  BY <1>1 DEF FleetType
<1>3. AsTheModel \in [Names -> Coats]  BY DEF AsTheModel, Coats
<1>4. refs' \in [Textures -> Int] /\ \A t \in Textures : refs'[t] = lost[t]  BY <1>1, ScrappedIs
<1>5. \A t \in Textures : HeldBy(m_pVehicles', CarIds, t) = {}  BY <1>1 DEF HeldBy
<1>6. Accounts(m_pVehicles', refs', lost')
  <2>1. \A t \in Textures : Fleet(m_pVehicles', CarIds, t) = 0  BY <1>5, FS_EmptySet, Zenon DEF Fleet
  <2>2. \A t \in Textures : refs'[t] = lost'[t] /\ lost'[t] \in Nat  BY <1>1, <1>4
  <2>3. QED  BY <2>1, <2>2 DEF Accounts
<1>7. QED  BY <1>1, <1>2, <1>3, <1>4, <1>6 DEF LookInv

(* What the windows' orders make of a vehicle. *)
Toned(v, r, toners) ==
    /\ r \in GoodViews
    /\ \A n \in Names : Shown(r.look, n) = IF n \in Toners THEN Ordered(Shown(v.look, n), toners[n])
                                           ELSE Shown(v.look, n)
    /\ \A rest \in RestType : Balanced(v.look, v.refs, v.lost, rest)
          => Balanced(r.look, r.refs, r.lost, rest)

(* What an order of the server makes of the vehicle it is for. *)
LEMMA VisualsAre ==
    ASSUME NEW v \in GoodViews, NEW size \in BOOLEAN, NEW f \in Coats, NEW toners,
           NEW o1 \in Orders, NEW o2 \in Orders, NEW a, NEW b, NEW r,
           a = SetCustomShadow(v, size, f), Toned(a, b, toners), r = ApplyVinyls(b, o1, o2)
    PROVE  /\ r \in GoodViews
           /\ \A n \in Toners : Shown(r.look, n) = Ordered(Shown(v.look, n), toners[n])
           /\ Shown(r.look, "remap_cbody_0") = OrderedVinyls(Shown(v.look, "remap_cbody_0"), o1, o2)
           /\ Shown(r.look, "remap_plate") = Shown(v.look, "remap_plate")
           /\ \A rest \in RestType : Balanced(v.look, v.refs, v.lost, rest)
                 => Balanced(r.look, r.refs, r.lost, rest)
<1>1. /\ a \in GoodViews
      /\ \A n \in Names : Shown(a.look, n) = Shown(v.look, n)
      /\ \A rest \in RestType : Balanced(v.look, v.refs, v.lost, rest)
            => Balanced(a.look, a.refs, a.lost, rest)
  BY ShadowIs DEF GoodViews
<1>2. /\ b \in GoodViews
      /\ \A n \in Names : Shown(b.look, n) = IF n \in Toners THEN Ordered(Shown(a.look, n), toners[n])
                                             ELSE Shown(a.look, n)
      /\ \A rest \in RestType : Balanced(a.look, a.refs, a.lost, rest)
            => Balanced(b.look, b.refs, b.lost, rest)
  BY DEF Toned
<1>3. b \in ViewType /\ GoodLook(b.look)  BY <1>2 DEF GoodViews
<1>4. Dresses(b, r, "remap_cbody_0", OrderedVinyls(Shown(b.look, "remap_cbody_0"), o1, o2))
  BY <1>3, VinylsDress
<1>5. /\ "remap_cbody_0" \in Names \ Toners /\ "remap_plate" \in Names \ Toners /\ Toners \subseteq Names
      /\ "remap_cbody_0" # "remap_plate"
  BY LookFacts DEF Names
<1>6. \A n \in Names : Shown(r.look, n) = IF n = "remap_cbody_0"
                                         THEN OrderedVinyls(Shown(b.look, "remap_cbody_0"), o1, o2)
                                         ELSE Shown(b.look, n)
  BY <1>4 DEF Dresses
<1>7. \A n \in Toners : Shown(r.look, n) = Ordered(Shown(v.look, n), toners[n])
  BY <1>1, <1>2, <1>5, <1>6
<1>8. Shown(r.look, "remap_cbody_0") = OrderedVinyls(Shown(v.look, "remap_cbody_0"), o1, o2)
  BY <1>1, <1>2, <1>5, <1>6
<1>9. Shown(r.look, "remap_plate") = Shown(v.look, "remap_plate")
  BY <1>1, <1>2, <1>5, <1>6
<1>10. r \in GoodViews /\ \A rest \in RestType : Balanced(v.look, v.refs, v.lost, rest)
                             => Balanced(r.look, r.refs, r.lost, rest)
  BY <1>1, <1>2, <1>4 DEF Dresses, GoodViews
<1>11. QED  BY <1>7, <1>8, <1>9, <1>10

LEMMA SuitsTyped ==
    /\ \A shade \in Shades : shade[1] \in BOOLEAN /\ shade[2] \in Coats
    /\ \A suit \in Suits : /\ suit.toners \in [Toners -> Orders]
                           /\ suit.vinyls[1] \in Orders /\ suit.vinyls[2] \in Orders
                           /\ suit.plate \in Plates \cup {BadPlate, Keep}
<1>1. \A shade \in Shades : shade[1] \in BOOLEAN /\ shade[2] \in Coats
  <2>1. FALSE \in BOOLEAN /\ NoTexture \in Coats  BY DEF Coats
  <2>2. <<FALSE, NoTexture>> \in BOOLEAN \X Coats  BY <2>1, Zenon
  <2>3. {TRUE} \X (Files \cup {NoTexture}) \subseteq BOOLEAN \X Coats  BY DEF Coats, Textures
  <2>4. Shades \subseteq BOOLEAN \X Coats  BY <2>2, <2>3, Zenon DEF Shades
  <2>5. \A shade \in BOOLEAN \X Coats : shade[1] \in BOOLEAN /\ shade[2] \in Coats  OBVIOUS
  <2>6. QED  BY <2>4, <2>5, Zenon
<1>2. ASSUME NEW suit \in Suits
      PROVE  /\ suit.toners \in [Toners -> Orders]
             /\ suit.vinyls[1] \in Orders /\ suit.vinyls[2] \in Orders
             /\ suit.plate \in Plates \cup {BadPlate, Keep}
  <2>1. Keep \in Orders /\ Take \in Orders  BY DEF Orders
  <2>2. CASE \E ts \in [Toners -> Orders] : suit = [Kept EXCEPT !.toners = ts]
    BY <2>1, <2>2 DEF Kept
  <2>3. CASE \E v \in {<<Take, Take>>} \cup ((Orders \ {Take}) \X (Orders \ {Take})) :
                suit = [Kept EXCEPT !.vinyls = v]
    BY <2>1, <2>3 DEF Kept
  <2>4. CASE \E p \in Plates \cup {BadPlate} : suit = [Kept EXCEPT !.plate = p]
    BY <2>1, <2>4 DEF Kept
  <2>5. QED  BY <2>2, <2>3, <2>4, Zenon DEF Suits
<1>3. QED  BY <1>1, <1>2

LEMMA CustomVisualsKept ==
    ASSUME LookInv, NEW c \in CarIds, NEW size \in BOOLEAN, NEW shadow \in Coats,
           NEW toners \in [Toners -> Orders], NEW vinyls, vinyls[1] \in Orders, vinyls[2] \in Orders,
           NEW plate \in Plates \cup {BadPlate, Keep},
           CustomVisuals(c, size, shadow, toners, vinyls, plate)
    PROVE  LookInv'
<1>1. PICK cars \in FleetType, q \in Seq(PlateOrder), r \in [Textures -> Int], l \in [Textures -> Nat],
           want \in [CarIds -> [Names -> Coats]] :
         cars = m_pVehicles /\ q = m_Plates /\ r = refs /\ l = lost /\ want = ordered
  BY DEF LookInv
<1>2. /\ cars[c] # NoCar /\ Accounts(cars, r, l)
      /\ \A d \in CarIds : cars[d] # NoCar => Dressed(cars[d], want[d], q, 0, d)
  BY <1>1 DEF LookInv, CustomVisuals
<1>3. PICK v : v = View(c)  OBVIOUS
<1>4. v = [look |-> cars[c], refs |-> r, lost |-> l] /\ v.look = cars[c] /\ v.refs = r /\ v.lost = l
  BY <1>1, <1>3 DEF View
<1>5. v \in GoodViews  BY <1>2, <1>4 DEF FleetType, GoodViews, ViewType
<1>6. PICK o1 \in Orders, o2 \in Orders : o1 = vinyls[1] /\ o2 = vinyls[2]  OBVIOUS
<1>7. PICK a : a = SetCustomShadow(v, size, shadow)  OBVIOUS
<1>8. PICK b : b = FoldSet(LAMBDA n, w : ApplyToner(w, n, toners[n]), a, Toners)  OBVIOUS
<1>9. PICK s : s = ApplyVinyls(b, o1, o2)  OBVIOUS
<1>10. Toned(a, b, toners)
  <2>1. a \in GoodViews  BY <1>5, <1>7, ShadowIs DEF GoodViews
  <2>2. QED  BY <1>8, <2>1, TonersIs DEF Toned
<1>11. /\ s \in GoodViews
       /\ \A n \in Toners : Shown(s.look, n) = Ordered(Shown(cars[c], n), toners[n])
       /\ Shown(s.look, "remap_cbody_0") = OrderedVinyls(Shown(cars[c], "remap_cbody_0"), o1, o2)
       /\ Shown(s.look, "remap_plate") = Shown(cars[c], "remap_plate")
       /\ \A rest \in RestType : Balanced(cars[c], r, l, rest) => Balanced(s.look, s.refs, s.lost, rest)
  <2>1. /\ s \in GoodViews
        /\ \A n \in Toners : Shown(s.look, n) = Ordered(Shown(v.look, n), toners[n])
        /\ Shown(s.look, "remap_cbody_0") = OrderedVinyls(Shown(v.look, "remap_cbody_0"), o1, o2)
        /\ Shown(s.look, "remap_plate") = Shown(v.look, "remap_plate")
        /\ \A rest \in RestType : Balanced(v.look, v.refs, v.lost, rest)
              => Balanced(s.look, s.refs, s.lost, rest)
    BY <1>5, <1>7, <1>9, <1>10, VisualsAre
  <2>2. v.look = cars[c] /\ v.refs = r /\ v.lost = l  BY <1>4
  <2>3. QED  BY <2>1, <2>2
<1>12. SetLook(c, s)  BY <1>3, <1>6, <1>9, <1>7, <1>8, Zenon DEF CustomVisuals
<1>13. m_pVehicles' = [cars EXCEPT ![c] = s.look] /\ refs' = s.refs /\ lost' = s.lost
  BY <1>1, <1>12 DEF SetLook
<1>14. s.look \in Look /\ GoodLook(s.look) /\ s.look # NoCar
       /\ s.refs \in [Textures -> Int] /\ s.lost \in [Textures -> Nat]
  BY <1>11, GoodIsThere DEF GoodViews, ViewType
<1>15. PICK other \in FleetType :
         /\ other = m_pVehicles' /\ other[c] = s.look /\ \A d \in CarIds : d # c => other[d] = cars[d]
  <2>1. PICK look : look = s.look  OBVIOUS
  <2>2. PICK other : other = [cars EXCEPT ![c] = look]  OBVIOUS
  <2>3. other[c] = look /\ \A d \in CarIds : d # c => other[d] = cars[d]  BY <2>2 DEF FleetType
  <2>4. other \in FleetType  BY <1>14, <2>1, <2>2 DEF FleetType
  <2>5. other = m_pVehicles'  BY <1>13, <2>1, <2>2
  <2>6. QED  BY <2>1, <2>3, <2>4, <2>5
<1>16. Accounts(other, refs', lost')
  <2>1. Others(other, c) = Others(cars, c)  BY <1>15, RestSame
  <2>2. Others(cars, c) \in RestType /\ Balanced(cars[c], r, l, Others(cars, c))  BY <1>2, RestIs
  <2>3. Balanced(s.look, s.refs, s.lost, Others(cars, c))  BY <1>11, <2>2
  <2>4. other[c] # NoCar /\ Balanced(other[c], s.refs, s.lost, Others(other, c))  BY <1>14, <1>15, <2>1, <2>3
  <2>5. QED  BY <1>13, <1>14, <2>4, RestIs
<1>17. PICK now : now = ordered'  OBVIOUS
<1>18. now = [want EXCEPT ![c] = [n \in Names |->
            CASE n \in Toners        -> Ordered(want[c][n], toners[n])
              [] n = "remap_cbody_0" -> OrderedVinyls(want[c][n], o1, o2)
              [] n = "remap_plate"   -> IF plate \in Plates THEN plate ELSE want[c][n]]]
  <2>1. ordered' = [ordered EXCEPT ![c] = [n \in Names |->
            CASE n \in Toners        -> Ordered(ordered[c][n], toners[n])
              [] n = "remap_cbody_0" -> OrderedVinyls(ordered[c][n], vinyls[1], vinyls[2])
              [] n = "remap_plate"   -> IF plate \in Plates THEN plate ELSE ordered[c][n]]]
    BY DEF CustomVisuals
  <2>2. QED  BY <1>1, <1>6, <1>17, <2>1
<1>19. /\ \A n \in Toners : now[c][n] = Ordered(want[c][n], toners[n])
       /\ now[c]["remap_cbody_0"] = OrderedVinyls(want[c]["remap_cbody_0"], o1, o2)
       /\ now[c]["remap_plate"] = IF plate \in Plates THEN plate ELSE want[c]["remap_plate"]
       /\ \A d \in CarIds : d # c => now[d] = want[d]
       /\ DOMAIN now = CarIds /\ DOMAIN now[c] = Names
       /\ now[c] = [n \in Names |-> now[c][n]] /\ now = [d \in CarIds |-> now[d]]
  BY <1>18, LookFacts DEF Names
<1>20. now \in [CarIds -> [Names -> Coats]]
  <2>1. \A x \in Coats, o \in Orders : Ordered(x, o) \in Coats
    BY OrderIsTexture DEF Ordered, Coats
  <2>2. \A x \in Coats, y, z \in Orders : OrderedVinyls(x, y, z) \in Coats
    BY <2>1 DEF OrderedVinyls, Coats
  <2>3. \A n \in Names : want[c][n] \in Coats  OBVIOUS
  <2>4. \A p \in Plates : p \in Coats  BY DEF Coats, Textures
  <2>5. \A n \in Names : n \in Toners \/ n = "remap_cbody_0" \/ n = "remap_plate"  BY DEF Names
  <2>6. \A n \in Toners : n \in Names /\ toners[n] \in Orders  BY DEF Names
  <2>7. \A n \in Names : now[c][n] \in Coats
    <3>1. \A n \in Toners : now[c][n] \in Coats
      <4> TAKE n \in Toners
      <4>1. now[c][n] = Ordered(want[c][n], toners[n])  BY <1>19, Zenon
      <4>2. want[c][n] \in Coats /\ toners[n] \in Orders  BY <2>3, <2>6, Zenon
      <4>3. QED  BY <2>1, <4>1, <4>2
    <3>2. now[c]["remap_cbody_0"] \in Coats
      <4>1. "remap_cbody_0" \in Names  BY DEF Names
      <4>2. QED  BY <1>19, <2>2, <2>3, <4>1
    <3>3. now[c]["remap_plate"] \in Coats
      <4>1. "remap_plate" \in Names  BY DEF Names
      <4>2. QED  BY <1>19, <2>3, <2>4, <4>1
    <3>4. QED  BY <2>5, <3>1, <3>2, <3>3, Zenon
  <2>8. now[c] \in [Names -> Coats]  BY <1>19, <2>7
  <2>9. QED  BY <1>19, <2>8
<1>21. \A n \in Names : n # "remap_plate" => Shown(s.look, n) = now[c][n]
  <2>1. \A n \in Names : n # "remap_plate" => Shown(cars[c], n) = want[c][n]  BY <1>2 DEF Dressed
  <2>3. \A n \in Toners : n \in Names /\ n # "remap_plate"  BY LookFacts DEF Names
  <2>4. "remap_cbody_0" \in Names /\ "remap_cbody_0" # "remap_plate"  BY DEF Names
  <2>5. \A n \in Names : n \in Toners \/ n = "remap_cbody_0" \/ n = "remap_plate"  BY DEF Names
  <2>6. \A n \in Toners : Shown(s.look, n) = now[c][n]
    <3> TAKE n \in Toners
    <3>1. Shown(cars[c], n) = want[c][n]  BY <2>1, <2>3
    <3>2. now[c][n] = Ordered(want[c][n], toners[n])  BY <1>19, Zenon
    <3>3. Shown(s.look, n) = Ordered(Shown(cars[c], n), toners[n])  BY <1>11, Zenon
    <3>4. QED  BY <3>1, <3>2, <3>3
  <2>7. Shown(s.look, "remap_cbody_0") = now[c]["remap_cbody_0"]
    <3>1. Shown(cars[c], "remap_cbody_0") = want[c]["remap_cbody_0"]  BY <2>1, <2>4
    <3>2. now[c]["remap_cbody_0"] = OrderedVinyls(want[c]["remap_cbody_0"], o1, o2)  BY <1>19, Zenon
    <3>3. Shown(s.look, "remap_cbody_0") = OrderedVinyls(Shown(cars[c], "remap_cbody_0"), o1, o2)
      BY <1>11, Zenon
    <3>4. QED  BY <3>1, <3>2, <3>3
  <2>8. QED  BY <2>5, <2>6, <2>7, Zenon
<1>22. plate \notin Plates => Dressed(s.look, now[c], q, 0, c)
  <2>1. Shown(s.look, "remap_plate") = Shown(cars[c], "remap_plate")  BY <1>11, Zenon
  <2>2. QED  BY <1>2, <1>19, <1>21, <2>1 DEF Dressed
<1>23. /\ m_Plates' \in Seq(PlateOrder)
       /\ \A d \in CarIds : other[d] # NoCar => Dressed(other[d], now[d], m_Plates', 0, d)
  <2>1. CASE plate = Keep
    <3>1. m_Plates' = q  BY <1>1, <2>1 DEF CustomVisuals
    <3>2. QED  BY <1>2, <1>15, <1>19, <1>22, <2>1, <3>1, LookFacts
  <2>2. CASE plate # Keep
    <3>1. PICK o \in PlateOrder : o = [vehicleId |-> c, plate |-> plate]  BY <2>2 DEF PlateOrder
    <3>2. m_Plates' = Append(q, o)  BY <1>1, <2>2, <3>1 DEF CustomVisuals, PushPlate
    <3>3. o.vehicleId = c /\ o.plate = plate /\ (plate # BadPlate <=> plate \in Plates)
      BY <2>2, <3>1, LookFacts
    <3>4. Dressed(s.look, now[c], Append(q, o), 0, c)
      <4>1. PICK look, want1, now1 : look = s.look /\ want1 = now[c] /\ now1 = now[c]  OBVIOUS
      <4>2. \A n \in Names : n # "remap_plate" => Shown(look, n) = now1[n]  BY <1>21, <4>1
      <4>3. o.vehicleId = c /\ o.plate # BadPlate => now1["remap_plate"] = o.plate  BY <1>19, <3>3, <4>1
      <4>4. ~(o.vehicleId = c /\ o.plate # BadPlate) =>
               Dressed(look, want1, q, 0, c) /\ now1["remap_plate"] = want1["remap_plate"]
        BY <1>22, <3>3, <4>1
      <4>5. Dressed(look, now1, Append(q, o), 0, c)  BY <4>2, <4>3, <4>4, PushedIs
      <4>6. QED  BY <4>1, <4>5
    <3>5. ASSUME NEW d \in CarIds, d # c, cars[d] # NoCar
          PROVE  Dressed(cars[d], want[d], Append(q, o), 0, d)
      <4>1. Dressed(cars[d], want[d], q, 0, d)  BY <1>2, <3>5
      <4>2. PICK look, want1 : look = cars[d] /\ want1 = want[d]  OBVIOUS
      <4>3. Dressed(look, want1, q, 0, d)  BY <4>1, <4>2
      <4>4. \A n \in Names : n # "remap_plate" => Shown(look, n) = want1[n]  BY <4>3 DEF Dressed
      <4>5. o.vehicleId # d  BY <3>3, <3>5
      <4>6. Dressed(look, want1, Append(q, o), 0, d)  BY <4>3, <4>4, <4>5, PushedIs
      <4>7. QED  BY <4>2, <4>6
    <3>6. m_Plates' \in Seq(PlateOrder)  BY <3>2
    <3>7. ASSUME NEW d \in CarIds, other[d] # NoCar
          PROVE  Dressed(other[d], now[d], m_Plates', 0, d)
      <4>1. CASE d = c  BY <1>15, <3>2, <3>4, <4>1
      <4>2. CASE d # c
        <5>1. other[d] = cars[d] /\ now[d] = want[d]  BY <1>15, <1>19, <4>2
        <5>2. QED  BY <3>2, <3>5, <3>7, <4>2, <5>1
      <4>3. QED  BY <4>1, <4>2
    <3>8. QED  BY <3>6, <3>7
  <2>3. QED  BY <2>1, <2>2
<1>24. QED  BY <1>13, <1>14, <1>15, <1>16, <1>17, <1>20, <1>23 DEF LookInv

(* The worlds in which the frame's plates are drawn. *)
GoodWorlds ==
    {w \in [cars : FleetType, refs : [Textures -> Int], lost : [Textures -> Nat]] :
        Accounts(w.cars, w.refs, w.lost)}

LEMMA GoodWorldIs ==
    ASSUME NEW cars \in FleetType, NEW r \in [Textures -> Int], NEW l \in [Textures -> Nat],
           Accounts(cars, r, l)
    PROVE  [cars |-> cars, refs |-> r, lost |-> l] \in GoodWorlds
<1>1. PICK w : w = [cars |-> cars, refs |-> r, lost |-> l]  OBVIOUS
<1>2. w \in [cars : FleetType, refs : [Textures -> Int], lost : [Textures -> Nat]]  BY <1>1
<1>3. w.cars = cars /\ w.refs = r /\ w.lost = l  BY <1>1
<1>4. Accounts(w.cars, w.refs, w.lost)  BY <1>3, Zenon
<1>5. w \in GoodWorlds  BY <1>2, <1>4, Zenon DEF GoodWorlds
<1>6. QED  BY <1>1, <1>5

(* One plate is drawn: on the vehicle that has the id, if there is one. *)
LEMMA DrawnIs ==
    ASSUME NEW w \in GoodWorlds, NEW o \in PlateOrder, NEW z, z = Drawn(w, o)
    PROVE  /\ z \in GoodWorlds
           /\ \A c \in CarIds : z.cars[c] = NoCar <=> w.cars[c] = NoCar
           /\ \A c \in CarIds : o.vehicleId # c \/ o.plate = BadPlate => z.cars[c] = w.cars[c]
           /\ \A c \in CarIds : o.vehicleId = c /\ o.plate # BadPlate /\ w.cars[c] # NoCar =>
                 \A n \in Names : Shown(z.cars[c], n) = IF n = "remap_plate" THEN o.plate
                                                        ELSE Shown(w.cars[c], n)
<1>1. CASE o.plate = BadPlate
  <2>1. z = w  BY <1>1 DEF Drawn
  <2>2. QED  BY <1>1, <2>1
<1>2. CASE o.plate # BadPlate
  <2>1. PICK c \in CarIds, p \in Plates : c = o.vehicleId /\ p = o.plate  BY <1>2 DEF PlateOrder
  <2>2. p \in Coats /\ p # BadPlate  BY <1>2, <2>1 DEF Coats, Textures
  <2>3. PICK cars \in FleetType, r \in [Textures -> Int], l \in [Textures -> Nat] :
           cars = w.cars /\ r = w.refs /\ l = w.lost /\ Accounts(cars, r, l)
    BY DEF GoodWorlds
  <2>4. PICK u : u = [look |-> cars[c], refs |-> r, lost |-> l]  OBVIOUS
  <2>5. /\ u \in ViewType /\ u.look = cars[c] /\ u.refs = r /\ u.lost = l
        /\ cars[c] = NoCar \/ GoodLook(cars[c])
    BY <2>4 DEF ViewType, FleetType
  <2>6. PICK v : v = Referenced(u, p)  OBVIOUS
  <2>7. /\ v \in ViewType /\ v.look = cars[c] /\ v.lost = l /\ v.refs \in [Textures -> Int]
        /\ \A look, rest : rest \in RestType /\ Balanced(look, r, l, rest)
              => Balanced(look, v.refs, l, Plus(rest, p))
    <3>1. /\ v \in ViewType /\ v.look = u.look /\ v.lost = u.lost
          /\ \A look, m, rest : m \in [Textures -> Nat] /\ rest \in RestType /\ Balanced(look, u.refs, m, rest)
                => Balanced(look, v.refs, m, Plus(rest, p))
      BY <2>2, <2>5, <2>6, ReferencedIs
    <3>2. v.refs \in [Textures -> Int]  BY <3>1 DEF ViewType
    <3>3. QED  BY <2>5, <3>1, <3>2
  <2>8. PICK rest \in RestType : rest = Others(cars, c)  BY <2>3, RestIs
  <2>9. PICK a : a = IF v.look = NoCar THEN Forgotten(v, p) ELSE ApplyPlate(v, p)  OBVIOUS
  <2>10. z = [cars |-> [cars EXCEPT ![c] = a.look], refs |-> a.refs, lost |-> a.lost]
    BY <2>1, <2>2, <2>3, <2>4, <2>6, <2>9 DEF Drawn
  <2>11. a \in ViewType
    <3>1. CASE v.look = NoCar  BY <2>2, <2>7, <2>9, <3>1, ForgottenIs
    <3>2. CASE v.look # NoCar  BY <2>5, <2>7, <2>9, <3>2, ApplyPlateIs
    <3>3. QED  BY <3>1, <3>2
  <2>12. PICK other : other = [cars EXCEPT ![c] = a.look]  OBVIOUS
  <2>13. other[c] = a.look /\ \A d \in CarIds : d # c => other[d] = cars[d]  BY <2>12 DEF FleetType
  <2>14. Others(other, c) = rest  BY <2>8, <2>13, RestSame
  <2>15. a.refs \in [Textures -> Int] /\ a.lost \in [Textures -> Nat]  BY <2>11 DEF ViewType
  <2>16. CASE cars[c] = NoCar
    <3>1. GoodLook(NewLook) /\ \A t \in Textures : Tally(Coat(NewLook), t) = 0  BY NewLookIs
    <3>2. \A n, m : n \in [Textures -> Int] /\ m \in [Textures -> Nat] =>
             (Balanced(NewLook, n, m, rest) <=> \A t \in Textures : n[t] = m[t] + rest[t])
      <4> TAKE n, m
      <4> HAVE n \in [Textures -> Int] /\ m \in [Textures -> Nat]
      <4>1. \A t \in Textures : m[t] + Tally(Coat(NewLook), t) + rest[t] = m[t] + rest[t]
        BY <3>1 DEF RestType
      <4>2. QED  BY <4>1 DEF Balanced
    <3>3. Balanced(NewLook, r, l, rest)  BY <2>3, <2>8, <2>16, <3>2, RestIs
    <3>4. Balanced(NewLook, v.refs, l, Plus(rest, p))  BY <2>7, <3>3
    <3>5. /\ a.look = NoCar /\ a.refs = v.refs
          /\ \A look, n : n \in [Textures -> Int] /\ Balanced(look, n, l, Plus(rest, p))
                => Balanced(look, n, a.lost, rest)
      <4>1. a = Forgotten(v, p)  BY <2>7, <2>9, <2>16
      <4>2. QED  BY <2>2, <2>7, <2>16, <4>1, ForgottenIs
    <3>6. Balanced(NewLook, a.refs, a.lost, rest)  BY <2>7, <3>4, <3>5
    <3>7. other \in FleetType  BY <2>12, <2>13, <2>16, <3>5 DEF FleetType
    <3>8. Accounts(other, a.refs, a.lost)
      <4>1. \A t \in Textures : a.refs[t] = a.lost[t] + Others(other, c)[t]  BY <2>14, <2>15, <3>2, <3>6
      <4>2. QED  BY <2>13, <2>15, <3>5, <3>7, <4>1, RestIs
    <3>9. z \in GoodWorlds  BY <2>10, <2>12, <2>15, <3>7, <3>8, GoodWorldIs
    <3>10. z.cars = other  BY <2>10, <2>12
    <3>11. QED  BY <2>1, <2>3, <2>13, <2>16, <3>5, <3>9, <3>10
  <2>17. CASE cars[c] # NoCar
    <3>1. a = ApplyPlate(v, p) /\ GoodLook(v.look)  BY <2>5, <2>7, <2>9, <2>17
    <3>2. /\ GoodLook(a.look)
          /\ \A n \in Names : Shown(a.look, n) = IF n = "remap_plate" THEN p ELSE Shown(cars[c], n)
          /\ Balanced(cars[c], v.refs, l, Plus(rest, p)) => Balanced(a.look, a.refs, a.lost, rest)
      BY <2>7, <3>1, ApplyPlateIs
    <3>3. Balanced(cars[c], r, l, rest)  BY <2>3, <2>8, <2>17, RestIs
    <3>4. Balanced(a.look, a.refs, a.lost, rest)  BY <2>7, <3>2, <3>3
    <3>5. a.look \in Look /\ a.look # NoCar  BY <3>2, GoodIsThere
    <3>6. other \in FleetType  BY <2>12, <2>13, <3>2, <3>5 DEF FleetType
    <3>7. Accounts(other, a.refs, a.lost)  BY <2>13, <2>14, <2>15, <3>4, <3>5, <3>6, RestIs
    <3>8. z \in GoodWorlds  BY <2>10, <2>12, <2>15, <3>6, <3>7, GoodWorldIs
    <3>9. z.cars = other  BY <2>10, <2>12
    <3>10. \A d \in CarIds : z.cars[d] = NoCar <=> w.cars[d] = NoCar
      BY <2>3, <2>13, <2>17, <3>5, <3>9
    <3>11. \A d \in CarIds : o.vehicleId # d \/ o.plate = BadPlate => z.cars[d] = w.cars[d]
      BY <1>2, <2>1, <2>3, <2>13, <3>9
    <3>12. z.cars[c] = a.look /\ w.cars[c] = cars[c]  BY <2>3, <2>13, <3>9
    <3>13. \A n \in Names : Shown(z.cars[c], n) = IF n = "remap_plate" THEN o.plate ELSE Shown(w.cars[c], n)
      BY <2>1, <3>2, <3>12
    <3>14. QED  BY <2>1, <3>8, <3>10, <3>11, <3>13
  <2>18. QED  BY <2>16, <2>17
<1>3. QED  BY <1>1, <1>2

(* All are dressed as they were, but for the plate that was drawn. *)
AllDressed(cars, want, q, k) ==
    \A c \in CarIds : cars[c] # NoCar => Dressed(cars[c], want[c], q, k, c)

LEMMA DrawnDresses ==
    ASSUME NEW q \in Seq(PlateOrder), NEW k \in 1 .. Len(q), NEW want, NEW w \in GoodWorlds,
           AllDressed(w.cars, want, q, k - 1), NEW z, z = Drawn(w, q[k])
    PROVE  z \in GoodWorlds /\ AllDressed(z.cars, want, q, k)
<1>1. k \in Nat /\ k \in DOMAIN q /\ DOMAIN q \subseteq Nat  OBVIOUS
<1>2. PICK o \in PlateOrder : o = q[k]  OBVIOUS
<1>3. z = Drawn(w, o)  BY <1>2
<1>4. /\ z \in GoodWorlds
      /\ \A c \in CarIds : z.cars[c] = NoCar <=> w.cars[c] = NoCar
      /\ \A c \in CarIds : o.vehicleId # c \/ o.plate = BadPlate => z.cars[c] = w.cars[c]
      /\ \A c \in CarIds : o.vehicleId = c /\ o.plate # BadPlate /\ w.cars[c] # NoCar =>
            \A n \in Names : Shown(z.cars[c], n) = IF n = "remap_plate" THEN o.plate
                                                   ELSE Shown(w.cars[c], n)
  BY <1>3, DrawnIs
<1>5. ASSUME NEW c \in CarIds, z.cars[c] # NoCar
      PROVE  Dressed(z.cars[c], want[c], q, k, c)
  <2>1. w.cars[c] # NoCar /\ Dressed(w.cars[c], want[c], q, k - 1, c)  BY <1>4, <1>5 DEF AllDressed
  <2>2. CASE o.vehicleId # c \/ o.plate = BadPlate
    <3>1. z.cars[c] = w.cars[c]  BY <1>4, <2>2
    <3>2. PlatesDue(q, k, c) = PlatesDue(q, k - 1, c)
      <4>1. \A i \in DOMAIN q : i > k - 1 => i > k \/ i = k  BY <1>1
      <4>2. \A i \in DOMAIN q : i > k => i > k - 1  BY <1>1
      <4>3. ~(q[k].vehicleId = c /\ q[k].plate # BadPlate)  BY <1>2, <2>2
      <4>4. QED  BY <4>1, <4>2, <4>3 DEF PlatesDue
    <3>3. PICK look : look = w.cars[c]  OBVIOUS
    <3>4. Dressed(look, want[c], q, k - 1, c)  BY <2>1, <3>3
    <3>5. Dressed(look, want[c], q, k, c)  BY <3>2, <3>4 DEF Dressed
    <3>6. QED  BY <3>1, <3>3, <3>5
  <2>3. CASE o.vehicleId = c /\ o.plate # BadPlate
    <3>1. \A n \in Names : Shown(z.cars[c], n) = IF n = "remap_plate" THEN o.plate ELSE Shown(w.cars[c], n)
      BY <1>4, <2>1, <2>3
    <3>2. \A n \in Names : n # "remap_plate" => Shown(z.cars[c], n) = want[c][n]
      BY <2>1, <3>1 DEF Dressed
    <3>3. "remap_plate" \in Names  BY DEF Names
    <3>4. Shown(z.cars[c], "remap_plate") = o.plate  BY <3>1, <3>3
    <3>5. k \in PlatesDue(q, k - 1, c)  BY <1>1, <1>2, <2>3 DEF PlatesDue
    <3>6. PICK i \in PlatesDue(q, k - 1, c) :
             q[i].plate = want[c]["remap_plate"] /\ \A j \in PlatesDue(q, k - 1, c) : j <= i
      BY <2>1, <3>5 DEF Dressed
    <3>7. \A j \in PlatesDue(q, k, c) : j \in PlatesDue(q, k - 1, c) /\ j > k  BY <1>1 DEF PlatesDue
    <3>8. i \in Nat /\ (i > k => i \in PlatesDue(q, k, c))  BY <1>1, <3>6 DEF PlatesDue
    <3>9. CASE PlatesDue(q, k, c) = {}
      <4>1. i = k  BY <1>1, <3>5, <3>6, <3>8, <3>9
      <4>2. Shown(z.cars[c], "remap_plate") = want[c]["remap_plate"]  BY <1>2, <3>4, <3>6, <4>1
      <4>3. QED  BY <3>2, <3>9, <4>2 DEF Dressed
    <3>10. CASE PlatesDue(q, k, c) # {}
      <4>1. PICK j \in PlatesDue(q, k, c) : TRUE  BY <3>10
      <4>2. j \in Nat /\ j > k /\ j <= i  BY <1>1, <3>6, <3>7, <4>1 DEF PlatesDue
      <4>3. i \in PlatesDue(q, k, c)  BY <1>1, <3>8, <4>2
      <4>4. \A m \in PlatesDue(q, k, c) : m <= i  BY <3>6, <3>7
      <4>5. QED  BY <3>2, <3>6, <3>10, <4>3, <4>4 DEF Dressed
    <3>11. QED  BY <3>9, <3>10
  <2>4. QED  BY <2>2, <2>3
<1>6. QED  BY <1>4, <1>5 DEF AllDressed

LEMMA GreatestOf ==
    ASSUME NEW N \in Nat, NEW S \in SUBSET (1 .. N), S # {}
    PROVE  Max(S) \in S /\ \A y \in S : y <= Max(S)
<1> DEFINE B == {N - k : k \in S}
<1>0. \A k \in S : k \in Nat /\ N - k \in Nat  OBVIOUS
<1>1. B \subseteq Nat /\ B # {}  BY <1>0
<1>2. PICK m \in B : \A k \in B : <<k, m>> \notin OpToRel(<, Nat)
  <2> HIDE DEF B
  <2> QED  BY <1>1, NatLessThanWellFounded, WFMin
<1>3. PICK n \in S : m = N - n  BY <1>2
<1>4. ASSUME NEW k \in S PROVE n >= k
  <2>1. N - k \in B /\ N - k \in Nat /\ m \in Nat /\ n \in Nat /\ k \in Nat  BY <1>0, <1>1, <1>2, <1>3
  <2>2. ~(N - k < m)  BY <1>2, <2>1 DEF OpToRel
  <2>3. QED  BY <1>3, <2>1, <2>2
<1>5. Max(S) \in S /\ \A y \in S : Max(S) >= y  BY <1>3, <1>4 DEF Max
<1>6. QED  BY <1>5

(* The plates of a frame are drawn one after the other, in their order. *)
LEMMA DrawnInOrder ==
    ASSUME NEW q \in Seq(PlateOrder), NEW base \in GoodWorlds
    PROVE  \E run : /\ run[0] = base
                    /\ \A k \in 1 .. Len(q) : run[k] = Drawn(run[k - 1], q[k])
                    /\ run[Len(q)] = FoldLeft(Drawn, base, q)
<1> DEFINE D == DOMAIN q
           FoldTable(iter) ==
             iter = [s \in SUBSET D |-> IF s = {} THEN base ELSE Drawn(iter[s \ {Max(s)}], q[Max(s)])]
           table == CHOOSE iter : FoldTable(iter)
           N == Len(q)
<1>1. FoldLeft(Drawn, base, q) = table[D]  BY DEF FoldLeft, MapThenFoldSet
<1>2. N \in Nat /\ D = 1 .. N /\ IsFiniteSet(D)  BY FS_Interval, 1 \in Int
<1>3. \A s \in SUBSET D : s # {} => Max(s) \in s
  <2> HIDE DEF D, N
  <2>1. QED  BY <1>2, GreatestOf
<1>4. FoldTable(table)
  <2> DEFINE pick == [s \in SUBSET D |-> Max(s)]
             op == [p \in D \X GoodWorlds |-> Drawn(p[2], q[p[1]])]
  <2>1. \A s \in SUBSET D : pick[s] = Max(s) /\ (s # {} => pick[s] \in s)  BY <1>3
  <2>2. op \in [D \X GoodWorlds -> GoodWorlds]
    <3>1. \A p \in D \X GoodWorlds : q[p[1]] \in PlateOrder /\ p[2] \in GoodWorlds  OBVIOUS
    <3> HIDE DEF D
    <3>2. \A p \in D \X GoodWorlds : Drawn(p[2], q[p[1]]) \in GoodWorlds  BY <3>1, DrawnIs
    <3>3. QED  BY <3>2
  <2>3. PICK g \in [SUBSET D -> GoodWorlds] : FoldsBy(pick, g, D, base, op)
    <3> HIDE DEF D, pick, op
    <3> QED  BY <1>2, <2>1, <2>2, FoldByExists
  <2>4. \A s \in SUBSET D : g[s] = IF s = {} THEN base ELSE Drawn(g[s \ {Max(s)}], q[Max(s)])
    <3> TAKE s \in SUBSET D
    <3>1. g[s] = IF s = {} THEN base ELSE op[<<pick[s], g[s \ {pick[s]}]>>]
      <4> HIDE DEF D, pick, op
      <4>1. g = [u \in SUBSET D |-> IF u = {} THEN base ELSE op[<<pick[u], g[u \ {pick[u]}]>>]]
        BY <2>3, Zenon DEF FoldsBy
      <4>2. QED  BY <4>1
    <3>2. s # {} => op[<<Max(s), g[s \ {Max(s)}]>>] = Drawn(g[s \ {Max(s)}], q[Max(s)])
      <4>1. SUFFICES ASSUME s # {} PROVE op[<<Max(s), g[s \ {Max(s)}]>>] = Drawn(g[s \ {Max(s)}], q[Max(s)])
        OBVIOUS
      <4>2. Max(s) \in D /\ s \ {Max(s)} \in SUBSET D  BY <1>3, <4>1
      <4>3. g[s \ {Max(s)}] \in GoodWorlds  BY <4>2
      <4> HIDE DEF D
      <4>4. QED  BY <4>2, <4>3
    <3>3. pick[s] = Max(s)  BY <2>1
    <3> HIDE DEF pick, op, D
    <3>4. QED  BY <3>1, <3>2, <3>3
  <2>5. g = [s \in SUBSET D |-> IF s = {} THEN base ELSE Drawn(g[s \ {Max(s)}], q[Max(s)])]
    <3>1. g = [s \in SUBSET D |-> g[s]]  OBVIOUS
    <3> HIDE DEF D
    <3>2. QED  BY <2>4, <3>1, Zenon
  <2>6. FoldTable(g)  BY <2>5
  <2> HIDE DEF FoldTable
  <2>7. QED  BY <2>6
<1> HIDE DEF table
<1> DEFINE run == [k \in 0 .. N |-> table[1 .. k]]
<1>5. run[0] = base
  <2>1. 1 .. 0 = {} /\ 0 \in 0 .. N  BY <1>2
  <2>2. QED  BY <1>4, <2>1
<1>6. ASSUME NEW k \in 1 .. N PROVE run[k] = Drawn(run[k - 1], q[k])
  <2>1. k \in Nat /\ 1 .. k \in SUBSET D /\ k \in 1 .. k /\ (1 .. k) \ {k} = 1 .. k - 1
    BY <1>2
  <2>2. k - 1 \in 0 .. N /\ k \in 0 .. N  BY <1>2
  <2>3. Max(1 .. k) = k
    <3>1. 1 .. k \in SUBSET (1 .. k) /\ 1 .. k # {}  BY <2>1
    <3>2. Max(1 .. k) \in 1 .. k /\ k <= Max(1 .. k)  BY <2>1, <3>1, GreatestOf
    <3>3. QED  BY <2>1, <3>2
  <2>4. table[1 .. k] = Drawn(table[(1 .. k) \ {Max(1 .. k)}], q[Max(1 .. k)])
    <3>1. 1 .. k # {}  BY <2>1
    <3> HIDE DEF D
    <3>2. QED  BY <1>4, <2>1, <3>1
  <2>5. QED  BY <2>1, <2>2, <2>3, <2>4
<1>7. run[N] = table[D]
  <2>1. N \in 0 .. N  BY <1>2
  <2>2. QED  BY <1>2, <2>1
<1> HIDE DEF run
<1>8. QED  BY <1>1, <1>5, <1>6, <1>7 DEF N

LEMMA ProcessKept == ASSUME LookInv, Process PROVE LookInv'
<1>1. PICK cars \in FleetType, q \in Seq(PlateOrder), r \in [Textures -> Int], l \in [Textures -> Nat],
           want \in [CarIds -> [Names -> Coats]] :
         cars = m_pVehicles /\ q = m_Plates /\ r = refs /\ l = lost /\ want = ordered
  BY DEF LookInv
<1>2. Accounts(cars, r, l) /\ AllDressed(cars, want, q, 0)  BY <1>1 DEF LookInv, AllDressed
<1>3. PICK base \in GoodWorlds : base = [cars |-> cars, refs |-> r, lost |-> l]  BY <1>2, GoodWorldIs
<1>4. PICK w : w = FoldLeft(Drawn, base, q)  OBVIOUS
<1>5. PICK run : /\ run[0] = base
                 /\ \A k \in 1 .. Len(q) : run[k] = Drawn(run[k - 1], q[k])
                 /\ run[Len(q)] = w
  BY <1>4, DrawnInOrder
<1>6. /\ m_pVehicles' = w.cars /\ refs' = w.refs /\ lost' = w.lost /\ m_Plates' = << >> /\ ordered' = want
  BY <1>1, <1>3, <1>4 DEF Process
<1> DEFINE T == {k \in Nat : k <= Len(q) => run[k] \in GoodWorlds /\ AllDressed(run[k].cars, want, q, k)}
<1>7. Len(q) \in T
  <2>1. 0 \in T  BY <1>2, <1>3, <1>5
  <2>2. ASSUME NEW n \in Nat, n \in T PROVE n + 1 \in T
    <3>1. SUFFICES ASSUME n + 1 <= Len(q)
                   PROVE  run[n + 1] \in GoodWorlds /\ AllDressed(run[n + 1].cars, want, q, n + 1)
      OBVIOUS
    <3>2. PICK k \in 1 .. Len(q), v \in GoodWorlds :
             /\ k = n + 1 /\ v = run[k - 1] /\ AllDressed(v.cars, want, q, k - 1)
      BY <2>2, <3>1
    <3>3. PICK z : z = Drawn(v, q[k])  OBVIOUS
    <3>4. run[n + 1] = z  BY <1>5, <3>2, <3>3
    <3> HIDE DEF T
    <3>5. z \in GoodWorlds /\ AllDressed(z.cars, want, q, k)  BY <3>2, <3>3, DrawnDresses
    <3>6. QED  BY <3>2, <3>4, <3>5
  <2> HIDE DEF T
  <2>3. Nat \subseteq T  BY <2>1, <2>2, CountingUp
  <2>4. QED  BY <2>3
<1>8. w \in GoodWorlds /\ AllDressed(w.cars, want, q, Len(q))  BY <1>5, <1>7
<1>9. AllDressed(w.cars, want, << >>, 0)
  <2>1. \A c : PlatesDue(q, Len(q), c) = {} /\ PlatesDue(<< >>, 0, c) = {}  BY DEF PlatesDue
  <2>2. QED  BY <1>8, <2>1 DEF AllDressed, Dressed
<1>10. /\ w.cars \in FleetType /\ w.refs \in [Textures -> Int] /\ w.lost \in [Textures -> Nat]
       /\ Accounts(w.cars, w.refs, w.lost)
  BY <1>8 DEF GoodWorlds
<1>11. << >> \in Seq(PlateOrder)  OBVIOUS
<1>12. \A c \in CarIds : m_pVehicles'[c] # NoCar => Dressed(m_pVehicles'[c], ordered'[c], m_Plates', 0, c)
  BY <1>6, <1>9 DEF AllDressed
<1>13. QED  BY <1>1, <1>6, <1>10, <1>11, <1>12 DEF LookInv

(* The looks of the vehicles are kept by every step. *)
LEMMA LookStep == ASSUME LookInv, LookNext \/ UNCHANGED lookVars PROVE LookInv'
<1>1. CASE \E c \in CarIds, p \in Plates : NewVehicle(c, p)  BY <1>1, NewVehicleKept
<1>2. CASE \E c \in CarIds : DeleteVehicle(c)  BY <1>2, DeleteVehicleKept
<1>3. CASE \E c \in CarIds, shade \in Shades, suit \in Suits :
             CustomVisuals(c, shade[1], shade[2], suit.toners, suit.vinyls, suit.plate)
  <2>1. PICK c \in CarIds, shade \in Shades, suit \in Suits :
           CustomVisuals(c, shade[1], shade[2], suit.toners, suit.vinyls, suit.plate)
    BY <1>3
  <2>2. /\ shade[1] \in BOOLEAN /\ shade[2] \in Coats
        /\ suit.toners \in [Toners -> Orders] /\ suit.vinyls[1] \in Orders /\ suit.vinyls[2] \in Orders
        /\ suit.plate \in Plates \cup {BadPlate, Keep}
    BY SuitsTyped, Zenon
  <2>3. QED  BY <2>1, <2>2, CustomVisualsKept, Zenon
<1>4. CASE Process  BY <1>4, ProcessKept
<1>5. CASE ResetVehiclePool  BY <1>5, ResetKept
<1>6. CASE UNCHANGED lookVars  BY <1>6 DEF lookVars, LookInv, Accounts
<1>7. QED  BY <1>1, <1>2, <1>3, <1>4, <1>5, <1>6 DEF LookNext

LEMMA LookHolds == LookInv => LooksTrue
<1> SUFFICES ASSUME LookInv PROVE LooksTrue  OBVIOUS
<1>1. ASSUME NEW c \in CarIds, NEW n \in Names, m_pVehicles[c] # NoCar,
             ~(n = "remap_plate" /\ \E i \in DOMAIN m_Plates : m_Plates[i].vehicleId = c)
      PROVE  Shown(m_pVehicles[c], n) = ordered[c][n]
  <2>1. Dressed(m_pVehicles[c], ordered[c], m_Plates, 0, c)  BY <1>1 DEF LookInv
  <2>2. CASE n # "remap_plate"  BY <2>1, <2>2 DEF Dressed
  <2>3. CASE n = "remap_plate"
    <3>1. PlatesDue(m_Plates, 0, c) = {}  BY <1>1, <2>3 DEF PlatesDue
    <3>2. QED  BY <2>1, <2>3, <3>1 DEF Dressed
  <2>4. QED  BY <2>2, <2>3
<1>2. ASSUME NEW t \in Textures
      PROVE  refs[t] = lost[t] + MapThenSumSet(LAMBDA c : Worn(m_pVehicles[c], t),
                                               {c \in CarIds : m_pVehicles[c] # NoCar})
  <2>1. m_pVehicles \in FleetType /\ CarIds \in SUBSET CarIds  BY DEF LookInv
  <2>2. MapThenSumSet(LAMBDA c : Worn(m_pVehicles[c], t), {c \in CarIds : m_pVehicles[c] # NoCar})
          = Fleet(m_pVehicles, CarIds, t)
    BY <2>1, WornCounted
  <2>3. refs[t] = lost[t] + Fleet(m_pVehicles, CarIds, t)  BY DEF LookInv, Accounts
  <2>4. QED  BY <2>2, <2>3, Zenon
<1>3. LastTextureShows  BY <1>1 DEF LastTextureShows
<1>4. TexturesAccounted  BY <1>2, Zenon DEF TexturesAccounted
<1>5. QED  BY <1>3, <1>4 DEF LooksTrue

(* Whatever is ordered of whichever vehicle, and however late its plate is *)
(* drawn: a vehicle shows the texture last ordered for each name, and a    *)
(* texture has as many references as there are vehicles that hold it and   *)
(* references that were lost.                                              *)
THEOREM LooksStayTrue == ClientSpec => []LooksTrue
<1>1. ClientInit => LookInv  BY LookStart DEF ClientInit
<1>2. LookInv /\ [ClientNext]_clientVars => LookInv'
  <2> SUFFICES ASSUME LookInv, [ClientNext]_clientVars PROVE LookInv'
    OBVIOUS
  <2>1. LookNext \/ UNCHANGED lookVars  BY DEF ClientNext, clientVars
  <2>2. QED  BY <2>1, LookStep
<1>3. LookInv => LooksTrue  BY LookHolds
<1>4. QED  BY <1>1, <1>2, <1>3, PTL DEF ClientSpec

(* A vehicle looks and rides as it was last ordered to. *)
THEOREM CarsStayAsOrdered == ClientSpec => []CarsAsOrdered
<1>1. LooksTrue /\ TunedAsOrdered => CarsAsOrdered  BY DEF CarsAsOrdered
<1>2. QED  BY <1>1, LooksStayTrue, TuningStaysOwn, PTL
=============================================================================
