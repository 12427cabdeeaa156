----------------------------- MODULE TextDraws -----------------------------
(***************************************************************************)
(* CTextDrawPool and CTextDraw: the texts, sprites and model previews the  *)
(* server draws on the screen.  A sprite (style 4) takes a texture slot    *)
(* when it is made; a preview (style 5) takes one in the first frame that  *)
(* gets a picture of its model; whoever has a slot gives it back when it   *)
(* is destroyed.  The slots and their textures are global: they outlive    *)
(* the pool, which a new game mode replaces.                               *)
(*                                                                         *)
(* All of it runs on the game thread; the touches that scan the pool from  *)
(* another one are left out.  A picture is the text draw it was made for.  *)
(***************************************************************************)
EXTENDS Integers

CONSTANTS
    MaxTextDraws,       \* MAX_TEXT_DRAWS
    MaxTextures,        \* the length of bTextDrawTextureSlotState
    Things,             \* bound: the CTextDraw objects the heap has room for
    NoThing             \* the null pointer, and the texture 0

ASSUME TextDrawsAssumption ==
    MaxTextDraws \in Nat /\ MaxTextures \in Nat /\ NoThing \notin Things

VARIABLES
    m_pTextDraw,        \* the object in each slot of the pool
    m_bSlotState,
    dwStyle,            \* of each object: 4, 5, or 0 for the plain ones
    iTextureSlot,       \* of each object, NoSlot when it has none
    alive,              \* the CTextDraw objects that exist
    bTextDrawTextureSlotState,
    TextDrawTexture,    \* whose picture is in each texture slot
    spoilt,             \* what the slots' bookkeeping has suffered so far
    drawn               \* the ids the server has on the screen

draws == <<m_pTextDraw, m_bSlotState, dwStyle, iTextureSlot, alive>>
textures == <<bTextDrawTextureSlotState, TextDrawTexture>>
textDrawVars == <<draws, textures, spoilt, drawn>>

DrawIds == 0 .. (MaxTextDraws - 1)
TextureSlots == 0 .. (MaxTextures - 1)
NoSlot == -1
Styles == {0, 4, 5}

(* "edited": a sprite was given another text.                              *)
(* "stray":  a preview was stored with no slot free, at TextDrawTexture[-1]*)
SpoiltKinds == {"edited", "stray"}

TextDrawsInit ==
    /\ m_pTextDraw = [i \in DrawIds |-> NoThing]
    /\ m_bSlotState = [i \in DrawIds |-> FALSE]
    /\ dwStyle = [d \in Things |-> 0]
    /\ iTextureSlot = [d \in Things |-> NoSlot]
    /\ alive = {}
    /\ bTextDrawTextureSlotState = [t \in TextureSlots |-> FALSE]
    /\ TextDrawTexture = [t \in TextureSlots |-> NoThing]
    /\ spoilt = {} /\ drawn = {}

(* Mutant: only the sprites give their slots back. *)
Freed_Sprites(objects) == {iTextureSlot[d] : d \in {o \in objects : dwStyle[o] = 4}} \cap TextureSlots

(* DestroyTextDrawTexture, for the slots the objects of a set have.        *)
Freed(objects) == {iTextureSlot[d] : d \in objects} \cap TextureSlots
Marks(objects) ==
    [t \in TextureSlots |-> bTextDrawTextureSlotState[t] /\ t \notin Freed(objects)]
Pictures(objects) ==
    [t \in TextureSlots |-> IF t \in Freed(objects) THEN NoThing ELSE TextDrawTexture[t]]

(* GetFreeTextDrawTextureSlot: the first slot that is not marked.          *)
FreeSlot(marks, t) ==
    \/ t \in TextureSlots /\ ~marks[t] /\ \A u \in 0 .. (t - 1) : marks[u]
    \/ t = NoSlot /\ \A u \in TextureSlots : marks[u]

(* LoadTexture leaves the slot as it is when the text names no texture, or *)
(* when there is no slot.                                                  *)
Loads(pictures, d, t) ==
    \/ TextDrawTexture' = pictures
    \/ t # NoSlot /\ TextDrawTexture' = [pictures EXCEPT ![t] = d]

(* CTextDrawPool::New: the old object of the id is destroyed before the    *)
(* new one is made, so address and slot may come back.                     *)
Show(i, d, style) ==
    LET old == {m_pTextDraw[i]} \ {NoThing}
        marks == Marks(old)
    IN
    /\ d \in Things \ (alive \ old)
    /\ \E t \in TextureSlots \cup {NoSlot} :
         /\ IF style = 4 THEN FreeSlot(marks, t) ELSE t = NoSlot
         /\ bTextDrawTextureSlotState' = [u \in TextureSlots |-> marks[u] \/ u = t]
         /\ Loads(Pictures(old), d, t)
         /\ iTextureSlot' = [iTextureSlot EXCEPT ![d] = t]
    /\ dwStyle' = [dwStyle EXCEPT ![d] = style]
    /\ alive' = (alive \ old) \cup {d}
    /\ m_pTextDraw' = [m_pTextDraw EXCEPT ![i] = d]
    /\ m_bSlotState' = [m_bSlotState EXCEPT ![i] = TRUE]
    /\ drawn' = drawn \cup {i}
    /\ UNCHANGED spoilt

(* CTextDrawPool::Delete and CTextDraw::~CTextDraw.                        *)
Hide(i) ==
    LET d == m_pTextDraw[i] IN
    /\ drawn' = drawn \ {i}
    /\ \/ /\ d # NoThing
          /\ bTextDrawTextureSlotState' = Marks({d})
          /\ TextDrawTexture' = Pictures({d})
          /\ alive' = alive \ {d}
          /\ m_pTextDraw' = [m_pTextDraw EXCEPT ![i] = NoThing]
          /\ m_bSlotState' = [m_bSlotState EXCEPT ![i] = FALSE]
          /\ UNCHANGED <<dwStyle, iTextureSlot, spoilt>>
       \/ d = NoThing /\ UNCHANGED <<draws, textures, spoilt>>

(* ScrEditTextDraw and CTextDraw::SetText: a sprite's slot is given back,  *)
(* and the new picture loaded into it, without marking it again.           *)
Edit(i) ==
    LET d == m_pTextDraw[i] IN
    /\ m_bSlotState[i] /\ d # NoThing
    /\ dwStyle[d] = 4 /\ iTextureSlot[d] # NoSlot
    /\ bTextDrawTextureSlotState' = Marks({d})
    /\ Loads(Pictures({d}), d, iTextureSlot[d])
    /\ spoilt' = spoilt \cup {"edited"}
    /\ UNCHANGED <<draws, drawn>>

Waiting(d) == dwStyle[d] = 5 /\ iTextureSlot[d] = NoSlot
Pending == {i \in DrawIds : m_bSlotState[i] /\ m_pTextDraw[i] # NoThing /\ Waiting(m_pTextDraw[i])}

(* SnapshotProcess of one preview.  The pool asks each in turn, every      *)
(* frame, and a picture may fail to be made, so that a frame which makes   *)
(* several is as good as several that make one.                            *)
SnapshotProcess(i) ==
    LET d == m_pTextDraw[i] IN
    /\ i \in Pending
    /\ \E t \in TextureSlots :
         /\ FreeSlot(bTextDrawTextureSlotState, t)
         /\ iTextureSlot' = [iTextureSlot EXCEPT ![d] = t]
         /\ bTextDrawTextureSlotState' = [bTextDrawTextureSlotState EXCEPT ![t] = TRUE]
         /\ TextDrawTexture' = [TextDrawTexture EXCEPT ![t] = d]
    /\ UNCHANGED <<m_pTextDraw, m_bSlotState, dwStyle, alive, spoilt, drawn>>

(* With every slot taken the picture goes to TextDrawTexture[-1]: what it  *)
(* overwrites there depends on the build, and may be marks.                *)
SnapshotStray ==
    /\ Pending # {} /\ FreeSlot(bTextDrawTextureSlotState, NoSlot)
    /\ bTextDrawTextureSlotState' \in [TextureSlots -> BOOLEAN]
    /\ spoilt' = spoilt \cup {"stray"}
    /\ UNCHANGED <<draws, TextDrawTexture, drawn>>

(* ResetTextDrawPool: the pool's destructor destroys every text draw.      *)
ResetTextDrawPool ==
    LET all == {m_pTextDraw[i] : i \in DrawIds} \ {NoThing} IN
    /\ bTextDrawTextureSlotState' = Marks(all)
    /\ TextDrawTexture' = Pictures(all)
    /\ alive' = alive \ all
    /\ m_pTextDraw' = [i \in DrawIds |-> NoThing]
    /\ m_bSlotState' = [i \in DrawIds |-> FALSE]
    /\ drawn' = {}
    /\ UNCHANGED <<dwStyle, iTextureSlot, spoilt>>

TextDrawsNext ==
    \/ \E i \in DrawIds, d \in Things, style \in Styles : Show(i, d, style)
    \/ \E i \in DrawIds : Hide(i) \/ Edit(i) \/ SnapshotProcess(i)
    \/ SnapshotStray

-----------------------------------------------------------------------------

TextDrawsTypeOK ==
    /\ m_pTextDraw \in [DrawIds -> Things \cup {NoThing}]
    /\ m_bSlotState \in [DrawIds -> BOOLEAN]
    /\ dwStyle \in [Things -> Styles]
    /\ iTextureSlot \in [Things -> TextureSlots \cup {NoSlot}]
    /\ alive \subseteq Things
    /\ bTextDrawTextureSlotState \in [TextureSlots -> BOOLEAN]
    /\ TextDrawTexture \in [TextureSlots -> Things \cup {NoThing}]
    /\ spoilt \subseteq SpoiltKinds /\ drawn \subseteq DrawIds

(* What the server has on the screen is what the pool draws, the slots'    *)
(* flags never let a destroyed text draw be drawn, and none is lost.       *)
DrawsAsShown ==
    /\ drawn = {i \in DrawIds : m_bSlotState[i]}
    /\ \A i \in DrawIds : m_bSlotState[i] = (m_pTextDraw[i] # NoThing)
    /\ alive = {m_pTextDraw[i] : i \in DrawIds} \ {NoThing}
    /\ \A i, j \in DrawIds : m_pTextDraw[i] = m_pTextDraw[j] => i = j \/ m_pTextDraw[i] = NoThing

Owners(t) == {d \in alive : iTextureSlot[d] = t}

(* A texture slot that is marked belongs to a text draw that exists, so    *)
(* none is lost however long sprites come and go, even when they are       *)
(* edited; and until one is edited, a slot has one owner, is marked while  *)
(* it has it, and shows nobody else's picture.                             *)
TexturesOwned ==
    /\ "stray" \notin spoilt =>
         \A t \in TextureSlots : bTextDrawTextureSlotState[t] => Owners(t) # {}
    /\ spoilt = {} =>
         \A t \in TextureSlots :
           /\ \A d, e \in Owners(t) : d = e
           /\ Owners(t) # {} => bTextDrawTextureSlotState[t]
           /\ TextDrawTexture[t] \in Owners(t) \cup {NoThing}
=============================================================================
