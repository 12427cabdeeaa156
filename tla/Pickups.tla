------------------------------ MODULE Pickups ------------------------------
(***************************************************************************)
(* CPickupPool: the server names a pickup by its slot, the game by an      *)
(* index of its own, which it gives again once a pickup is destroyed.  The *)
(* pool keeps both, counts what it has, and tells the server which slot    *)
(* the local player has walked into.                                       *)
(*                                                                         *)
(* All of it runs on the game thread.  m_dwHnd and m_iPickupID are the     *)
(* same index here (the handle is the index with a generation on top).     *)
(* Dropped weapons are left out: nothing sets bDroppedWeapon.              *)
(***************************************************************************)
EXTENDS Integers

CONSTANTS
    MaxPickups,     \* MAX_PICKUPS
    PickupIndexes,  \* bound: indexes the game has for pickups
    Rest            \* frames a pickup rests after it was told (15 in the code)

ASSUME PickupsAssumption ==
    MaxPickups \in Nat \ {0} /\ Rest \in Nat \ {0} /\ PickupIndexes \subseteq Nat

VARIABLES
    m_iPickupCount,
    m_dwHnd,        \* the game's pickup of each slot, None where there is none
    m_iPickupID,    \* the index a pickup is looked up by
    m_iTimer,       \* frames until the slot may be told again
    polled,         \* the slots of type 14, which Process polls
    inGame,         \* the pickups that exist in the game
    taken,          \* the game's flags for is_pickup_picked_up
    told,           \* the slots the last step told the server
    walkedInto,     \* the game's pickup the last step was about
    shown, refused  \* slots the server shows, and those the pool turned away

pool == <<m_iPickupCount, m_dwHnd, m_iPickupID, m_iTimer, polled, inGame>>
pickupVars == <<pool, taken, told, walkedInto, shown, refused>>

PickupSlots == 0 .. (MaxPickups - 1)
None == -1
Occupied == {i \in PickupSlots : m_dwHnd[i] # None}

PickupsInit ==
    /\ m_iPickupCount = 0
    /\ m_dwHnd = [i \in PickupSlots |-> None]
    /\ m_iPickupID = [i \in PickupSlots |-> None]
    /\ m_iTimer = [i \in PickupSlots |-> 0]
    /\ polled = {}
    /\ inGame = {} /\ taken = {}
    /\ told = {} /\ walkedInto = None
    /\ shown = {} /\ refused = {}

Silent == told' = {} /\ walkedInto' = None

(* CPickupPool::New.  The old pickup of the slot goes first, so its index  *)
(* may come back; the count grows all the same, and the timer goes on.     *)
New(i, g, type14) ==
    LET others == inGame \ {m_dwHnd[i]} IN
    /\ m_iPickupCount < MaxPickups
    /\ g \in PickupIndexes \ others
    /\ inGame' = others \cup {g}
    /\ taken' = taken \ {m_dwHnd[i]}
    /\ m_dwHnd' = [m_dwHnd EXCEPT ![i] = g]
    /\ m_iPickupID' = [m_iPickupID EXCEPT ![i] = g]
    /\ polled' = IF type14 THEN polled \cup {i} ELSE polled \ {i}
    /\ m_iPickupCount' = m_iPickupCount + 1
    /\ shown' = shown \cup {i} /\ refused' = refused \ {i}
    /\ Silent /\ UNCHANGED m_iTimer

(* The count has reached MAX_PICKUPS: the pickup is not made, and one that *)
(* was in the slot stays.                                                  *)
Refuse(i) ==
    /\ m_iPickupCount >= MaxPickups
    /\ shown' = shown \cup {i}
    /\ refused' = IF m_dwHnd[i] = None THEN refused \cup {i} ELSE refused
    /\ Silent /\ UNCHANGED <<pool, taken>>

(* Mutant: the index stays with the empty slot. *)
RemovePickup_KeepsID(i) ==
    /\ m_iPickupCount > 0 /\ m_dwHnd[i] # None
    /\ inGame' = inGame \ {m_dwHnd[i]} /\ taken' = taken \ {m_dwHnd[i]}
    /\ m_dwHnd' = [m_dwHnd EXCEPT ![i] = None]
    /\ m_iTimer' = [m_iTimer EXCEPT ![i] = 0]
    /\ m_iPickupCount' = m_iPickupCount - 1
    /\ UNCHANGED <<m_iPickupID, polled>>

(* CPickupPool::Destroy.  The type of the pickup stays in the slot.        *)
RemovePickup(i) ==
    /\ m_iPickupCount > 0 /\ m_dwHnd[i] # None
    /\ inGame' = inGame \ {m_dwHnd[i]} /\ taken' = taken \ {m_dwHnd[i]}
    /\ m_dwHnd' = [m_dwHnd EXCEPT ![i] = None]
    /\ m_iPickupID' = [m_iPickupID EXCEPT ![i] = None]
    /\ m_iTimer' = [m_iTimer EXCEPT ![i] = 0]
    /\ m_iPickupCount' = m_iPickupCount - 1
    /\ UNCHANGED polled

(* The RPC: a slot without a pickup, or a count of zero, changes nothing.  *)
Destroy(i) ==
    /\ i \in shown
    /\ \/ RemovePickup(i)
       \/ /\ m_iPickupCount <= 0 \/ m_dwHnd[i] = None
          /\ UNCHANGED <<pool, taken>>
    /\ shown' = shown \ {i} /\ refused' = refused \ {i}
    /\ Silent

(* GetNumberFromID: the first slot that has the index.                     *)
HasNumber(g, i) ==
    /\ m_iPickupID[i] = g
    /\ \A j \in 0 .. (i - 1) : m_iPickupID[j] # g

(* The local player walks into a pickup, ours or the game's own: the game  *)
(* raises its flag and pickup_ololo calls CPickupPool::PickedUp.           *)
PickedUp(g) ==
    /\ taken' = taken \cup ({g} \cap inGame)
    /\ walkedInto' = g
    /\ told' = {i \in PickupSlots : HasNumber(g, i) /\ m_dwHnd[i] # None /\ m_iTimer[i] = 0}
    /\ m_iTimer' = [i \in PickupSlots |-> IF i \in told' THEN Rest ELSE m_iTimer[i]]
    /\ UNCHANGED <<m_iPickupCount, m_dwHnd, m_iPickupID, polled, inGame, shown, refused>>

(* CPickupPool::Process, every seventh frame: a pickup of type 14 is told  *)
(* when its flag is up (asking for the flag lowers it), another one rests. *)
ProcessPickups ==
    /\ told' = {i \in Occupied \cap polled : m_dwHnd[i] \in taken}
    /\ taken' = taken \ {m_dwHnd[i] : i \in Occupied \cap polled}
    /\ m_iTimer' = [i \in PickupSlots |->
                       IF i \in Occupied \ polled /\ m_iTimer[i] > 0 THEN m_iTimer[i] - 1 ELSE m_iTimer[i]]
    /\ walkedInto' = None
    /\ UNCHANGED <<m_iPickupCount, m_dwHnd, m_iPickupID, polled, inGame, shown, refused>>

(* ResetPickupPool: the destructor destroys what is in the game, and the   *)
(* new game mode starts with nothing shown.                                *)
ResetPickupPool ==
    /\ m_iPickupCount' = 0
    /\ m_dwHnd' = [i \in PickupSlots |-> None]
    /\ m_iPickupID' = [i \in PickupSlots |-> None]
    /\ m_iTimer' = [i \in PickupSlots |-> 0]
    /\ polled' = {}
    /\ inGame' = inGame \ {m_dwHnd[i] : i \in Occupied}
    /\ taken' = taken \ {m_dwHnd[i] : i \in Occupied}
    /\ shown' = {} /\ refused' = {}
    /\ Silent

PickupsNext ==
    \/ \E i \in PickupSlots, g \in PickupIndexes, type14 \in BOOLEAN : New(i, g, type14)
    \/ \E i \in PickupSlots : Refuse(i) \/ Destroy(i)
    \/ \E g \in PickupIndexes : PickedUp(g)
    \/ ProcessPickups

-----------------------------------------------------------------------------

PickupsTypeOK ==
    /\ m_iPickupCount \in 0 .. MaxPickups
    /\ m_dwHnd \in [PickupSlots -> PickupIndexes \cup {None}]
    /\ m_iPickupID \in [PickupSlots -> PickupIndexes \cup {None}]
    /\ m_iTimer \in [PickupSlots -> 0 .. Rest]
    /\ polled \subseteq PickupSlots /\ told \subseteq PickupSlots
    /\ inGame \subseteq PickupIndexes /\ taken \subseteq PickupIndexes
    /\ walkedInto \in PickupIndexes \cup {None}
    /\ shown \subseteq PickupSlots /\ refused \subseteq PickupSlots

(* What the server shows and destroys, re-creates and forgets, is what     *)
(* stands in the game: a count that has drifted above the pickups there    *)
(* are may turn one away, but never keeps one from being destroyed.        *)
PickupsAsShown ==
    /\ Occupied = shown \ refused
    /\ inGame = {m_dwHnd[i] : i \in Occupied}
    /\ \A i, j \in Occupied : m_dwHnd[i] = m_dwHnd[j] => i = j

(* The server is told of a slot when, and only when, the player has walked *)
(* into the very pickup that stands for it, whatever index of a destroyed  *)
(* one the game gave it, unless the slot rests.                            *)
PickupsTold ==
    [][/\ \A i \in told' : m_dwHnd[i] = walkedInto' \/ m_dwHnd[i] \in taken
       /\ \A i \in PickupSlots :
            m_dwHnd[i] = walkedInto' /\ m_dwHnd[i] # None /\ m_iTimer[i] = 0 => i \in told'
      ]_pickupVars
=============================================================================
