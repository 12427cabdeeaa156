--------------------------- MODULE PlayerContext ---------------------------
(***************************************************************************)
(* How one game with one camera and one pad plays many players.  Before    *)
(* the game processes a remote player's ped, or that ped's gun, a hook     *)
(* puts the player's aim, camera mode, zoom and number where the game      *)
(* looks for its own, and afterwards puts the local player's back; the     *)
(* pad's queries are answered from the keys the player reported, looked up *)
(* by the address of the ped.                                              *)
(*                                                                         *)
(* All of it runs on the game thread: RPCs, sync packets and               *)
(* CRemotePlayer::Process come between the hooks, never inside them.  A    *)
(* value of the view is the number of the player it belongs to, 0 for the  *)
(* local one.  Slots are apart (SlotsApart of RemotePlayers).              *)
(***************************************************************************)
EXTENDS Naturals, Sequences, TLC

CONSTANTS
    LastSlot,       \* PLAYER_PED_SLOTS - 1
    Addrs,          \* bound: addresses the heap has for peds
    Active,         \* bound: the slots whose players send keys and shots
    LocalPed,       \* the address of the local player's ped
    ActorPed,       \* the address of a ped that is no player's
    Null            \* the null pointer

ASSUME ContextAssumption ==
    /\ LastSlot \in Nat /\ Active \subseteq 2 .. LastSlot
    /\ {LocalPed, ActorPed, Null} \cap Addrs = {}
    /\ LocalPed # ActorPed /\ Null \notin {LocalPed, ActorPed}

Local == 0
Slots == 2 .. LastSlot
Numbers == {Local} \cup Slots
Actor == LastSlot + 1
NoDriver == LastSlot + 2

(* Of a player's keys the model keeps the one whose answer has a memory.   *)
Pad == [jump : BOOLEAN, ignoreJump : BOOLEAN]
NoKeys == [jump |-> FALSE, ignoreJump |-> FALSE]

(* What the game takes for its player: CWorld::PlayerInFocus, the camera's *)
(* aim and zoom, and its two modes.                                        *)
View == [aim : Numbers, zoom : Numbers, mode : Numbers, mode2 : Numbers, focus : Numbers]

(* A hook in progress: whose ped, gun or vehicle the game processes, and   *)
(* what the hook keeps in its locals until the game is done.               *)
Frames == [hook : {"ped", "gun", "vehicle"}, of : Numbers \cup {Actor, NoDriver}, found : Numbers,
           mode : Numbers, mode2 : Numbers]

VARIABLES
    dwPlayerPedPtrs,    \* the address recorded for each number
    pedOf,              \* the address of the ped each slot really has
    keys,               \* RemotePlayerKeys
    state,              \* of the player in each slot
    reported,           \* the jump key of its last packet, in m_ofSync or m_icSync
    shot,               \* m_byteWeaponShotID is set
    aims,               \* caRemotePlayerAim: whose aim is stored for a slot
    view,
    savedAim, savedZoom,    \* caLocalPlayerAim and fLocalCameraExtZoom
    byteCurPlayer, byteCurDriver,
    stack,              \* the hooks in progress, innermost first
    muddled,            \* a gun was used inside its own ped's processing
                        \* since the camera last looked
    owed                \* the player pressed jump, or the client let go of the
                        \* key for it, since its ped last jumped

peds == <<dwPlayerPedPtrs, pedOf>>
packets == <<state, reported, shot, aims>>
context == <<view, savedAim, savedZoom, byteCurPlayer, byteCurDriver, stack, muddled>>
vars == <<peds, keys, packets, context, owed>>

Init ==
    /\ dwPlayerPedPtrs = [n \in Numbers |-> IF n = Local THEN LocalPed ELSE Null]
    /\ pedOf = [s \in Slots |-> Null]
    /\ keys = [s \in Slots |-> NoKeys]
    /\ state = [s \in Slots |-> "other"]
    /\ reported = [s \in Slots |-> FALSE]
    /\ shot = [s \in Slots |-> FALSE]
    /\ aims = [s \in Slots |-> s]
    /\ view = [aim |-> Local, zoom |-> Local, mode |-> Local, mode2 |-> Local, focus |-> Local]
    /\ savedAim = Local /\ savedZoom = Local
    /\ byteCurPlayer = Local /\ byteCurDriver = Local
    /\ stack = << >>
    /\ muddled = FALSE
    /\ owed = [s \in Slots |-> FALSE]

HasPed(s) == pedOf[s] # Null
May(s) == {FALSE} \cup {b \in {TRUE} : s \in Active}
Keyed(s) == {jump \in BOOLEAN : s \in Active}

-----------------------------------------------------------------------------
(* Peds, calls and packets, between the hooks *)

Between == stack = << >> /\ UNCHANGED <<savedAim, savedZoom, byteCurPlayer, byteCurDriver, stack, muddled>>

(* A player streams in, with a shot it may not have fired yet. *)
NewPed(s, a) ==
    /\ Between /\ ~HasPed(s) /\ a \notin {pedOf[t] : t \in Slots}
    /\ pedOf' = [pedOf EXCEPT ![s] = a]
    /\ dwPlayerPedPtrs' = [dwPlayerPedPtrs EXCEPT ![s] = a]
    /\ keys' = [keys EXCEPT ![s] = NoKeys]
    /\ \E b \in May(s) : shot' = [shot EXCEPT ![s] = b]
    /\ owed' = [owed EXCEPT ![s] = TRUE]
    /\ UNCHANGED <<state, reported, aims, view>>

(* Mutant: the address stays recorded. *)
Destroy_KeepsRecord(s) ==
    /\ Between /\ HasPed(s)
    /\ pedOf' = [pedOf EXCEPT ![s] = Null]
    /\ keys' = [keys EXCEPT ![s] = NoKeys]
    /\ state' = [state EXCEPT ![s] = "other"]
    /\ reported' = [reported EXCEPT ![s] = FALSE]
    /\ shot' = [shot EXCEPT ![s] = FALSE]
    /\ owed' = [owed EXCEPT ![s] = FALSE]
    /\ UNCHANGED <<dwPlayerPedPtrs, aims, view>>

(* The player of the slot goes, and with it what it reported; the aim,     *)
(* zoom and mode of the slot stay for the next one.                        *)
Destroy(s) ==
    /\ Between /\ HasPed(s)
    /\ pedOf' = [pedOf EXCEPT ![s] = Null]
    /\ dwPlayerPedPtrs' = [dwPlayerPedPtrs EXCEPT ![s] = Null]
    /\ keys' = [keys EXCEPT ![s] = NoKeys]
    /\ state' = [state EXCEPT ![s] = "other"]
    /\ reported' = [reported EXCEPT ![s] = FALSE]
    /\ shot' = [shot EXCEPT ![s] = FALSE]
    /\ owed' = [owed EXCEPT ![s] = FALSE]
    /\ UNCHANGED <<aims, view>>

SetKeys(s, jump) ==
    keys' = [keys EXCEPT ![s] = [jump |-> jump, ignoreJump |-> @.ignoreJump /\ jump]]

(* A packet on foot; its keys take effect when the player is processed. *)
OnFootSync(s, jump) ==
    /\ Between /\ HasPed(s)
    /\ reported' = [reported EXCEPT ![s] = jump]
    /\ state' = [state EXCEPT ![s] = "onfoot"]
    /\ owed' = [owed EXCEPT ![s] = @ \/ (jump /\ ~reported[s])]
    /\ UNCHANGED <<peds, keys, shot, aims, view>>

InCarSync(s, jump) ==
    /\ Between /\ HasPed(s)
    /\ reported' = [reported EXCEPT ![s] = jump]
    /\ state' = [state EXCEPT ![s] = "driver"]
    /\ owed' = [owed EXCEPT ![s] = @ \/ (jump /\ ~reported[s])]
    /\ UNCHANGED <<peds, keys, shot, aims, view>>

PassengerSync(s) ==
    /\ Between /\ HasPed(s)
    /\ state' = [state EXCEPT ![s] = "passenger"]
    /\ UNCHANGED <<peds, keys, reported, shot, aims, view, owed>>

UpdateAimFromSyncData(s) ==
    /\ Between /\ HasPed(s)
    /\ aims' = [aims EXCEPT ![s] = s]
    /\ UNCHANGED <<peds, keys, state, reported, shot, view, owed>>

(* The player hit the local player with a bullet. *)
WeaponShot(s) ==
    /\ Between /\ HasPed(s) /\ s \in Active
    /\ shot' = [shot EXCEPT ![s] = TRUE]
    /\ UNCHANGED <<peds, keys, state, reported, aims, view, owed>>

(* EnterVehicle and ExitVehicle release the keys. *)
EnterOrExit(s) ==
    /\ Between /\ HasPed(s)
    /\ SetKeys(s, FALSE)
    /\ owed' = [owed EXCEPT ![s] = TRUE]
    /\ UNCHANGED <<peds, packets, view>>

HandleDeath(s) ==
    /\ Between /\ HasPed(s)
    /\ SetKeys(s, FALSE)
    /\ state' = [state EXCEPT ![s] = "other"]
    /\ reported' = [reported EXCEPT ![s] = FALSE]
    /\ owed' = [owed EXCEPT ![s] = TRUE]
    /\ view' = [view EXCEPT !.focus = Local]
    /\ UNCHANGED <<peds, shot, aims>>

(* CRemotePlayer::Process: the keys that the player's ped obeys.  A shot   *)
(* is played with the local player's aim, and with FIRE alone, which also  *)
(* lets a held jump key count again.                                       *)
ProcessOnFoot(s) ==
    /\ Between /\ HasPed(s) /\ state[s] = "onfoot"
    /\ IF shot[s]
       THEN /\ aims' = [aims EXCEPT ![s] = view.aim]
            /\ SetKeys(s, FALSE)
            /\ shot' = [shot EXCEPT ![s] = FALSE]
            /\ owed' = [owed EXCEPT ![s] = TRUE]
       ELSE /\ SetKeys(s, reported[s])
            /\ UNCHANGED <<aims, shot, owed>>
    /\ UNCHANGED <<peds, state, reported, view>>

ProcessDriver(s) ==
    /\ Between /\ HasPed(s) /\ state[s] = "driver"
    /\ SetKeys(s, reported[s])
    /\ UNCHANGED <<peds, packets, view, owed>>

(* Neither on foot nor at a wheel, as the game has it. *)
ProcessOther(s) ==
    /\ Between /\ HasPed(s) /\ state[s] # "passenger"
    /\ SetKeys(s, FALSE)
    /\ owed' = [owed EXCEPT ![s] = TRUE]
    /\ UNCHANGED <<peds, packets, view>>

(* The game's camera follows the local player, once a frame. *)
CameraLooks ==
    /\ stack = << >>
    /\ view' = [view EXCEPT !.aim = Local, !.zoom = Local]
    /\ muddled' = FALSE
    /\ UNCHANGED <<peds, keys, packets, savedAim, savedZoom, byteCurPlayer, byteCurDriver, stack, owed>>

-----------------------------------------------------------------------------
(* The hooks *)

(* FindPlayerNumFromPedPtr: the first number with that address, or the     *)
(* local player's.                                                         *)
FindPlayerNum(a) ==
    IF \E n \in Numbers : dwPlayerPedPtrs[n] = a
    THEN CHOOSE n \in Numbers : /\ dwPlayerPedPtrs[n] = a
                                /\ \A m \in Numbers : dwPlayerPedPtrs[m] = a => n <= m
    ELSE Local

PedOf(n) ==
    CASE n = Local -> LocalPed
      [] n = Actor -> ActorPed
      [] OTHER -> pedOf[n]
Present == {Local, Actor} \cup {s \in Slots : HasPed(s)}

(* Mutant: the remote aim is put in before the local one is saved. *)
PutIn_AimFirst(n) ==
    /\ view' = [aim |-> aims[n], zoom |-> n, mode |-> n, mode2 |-> n, focus |-> n]
    /\ savedAim' = aims[n]
    /\ savedZoom' = view.zoom

(* Player n's view replaces the local player's. *)
PutIn(n) ==
    /\ view' = [aim |-> aims[n], zoom |-> n, mode |-> n, mode2 |-> n, focus |-> n]
    /\ savedAim' = view.aim
    /\ savedZoom' = view.zoom

(* The game processes a ped, or a ped's gun: alone, or as part of the      *)
(* processing of that ped.                                                 *)
Begin(hook, n) ==
    LET found == FindPlayerNum(PedOf(n))
    IN  /\ byteCurPlayer' = found
        /\ stack' = <<[hook |-> hook, of |-> n, found |-> found,
                       mode |-> view.mode, mode2 |-> view.mode2]>> \o stack
        /\ IF found # Local THEN PutIn(found) ELSE UNCHANGED <<view, savedAim, savedZoom>>
        /\ UNCHANGED <<peds, keys, packets, byteCurDriver, owed>>

CPed__ProcessControl_hook(n) ==
    /\ stack = << >>
    /\ Begin("ped", n)
    /\ UNCHANGED muddled

TaskUseGun(n) ==
    /\ \/ stack = << >>
       \/ Len(stack) = 1 /\ Head(stack).hook = "ped" /\ Head(stack).of = n
    /\ Begin("gun", n)
    /\ muddled' = (muddled \/ (stack # << >> /\ n \in Slots))

(* A vehicle nobody drives keeps the driver of the one before. *)
AllVehicles__ProcessControl_hook(n) ==
    /\ stack = << >>
    /\ byteCurDriver' = IF n # NoDriver THEN FindPlayerNum(PedOf(n)) ELSE byteCurDriver
    /\ stack' = <<[hook |-> "vehicle", of |-> n, found |-> Local,
                   mode |-> view.mode, mode2 |-> view.mode2]>>
    /\ UNCHANGED <<peds, keys, packets, view, savedAim, savedZoom, byteCurPlayer, muddled, owed>>

(* The game is done; a hook that put a view in restores the one before. *)
Return ==
    /\ stack # << >>
    /\ stack' = Tail(stack)
    /\ view' = IF Head(stack).found # Local
               THEN [aim |-> savedAim, zoom |-> savedZoom, focus |-> Local,
                     mode |-> Head(stack).mode, mode2 |-> Head(stack).mode2]
               ELSE view
    /\ UNCHANGED <<peds, keys, packets, savedAim, savedZoom, byteCurPlayer, byteCurDriver, muddled, owed>>

(* The one query of the pad that changes something: a jump key held down   *)
(* is answered once.  The query comes when the game makes it and the       *)
(* player does not hold HANDBRAKE.                                         *)
CPad__JumpJustDown_hook ==
    /\ stack # << >> /\ Head(stack).hook \in {"ped", "gun"}
    /\ byteCurPlayer # Local
    /\ LET pad == keys[byteCurPlayer]
       IN  pad.jump /\ ~pad.ignoreJump
    /\ keys' = [keys EXCEPT ![byteCurPlayer].ignoreJump = TRUE]
    /\ owed' = [owed EXCEPT ![byteCurPlayer] = FALSE]
    /\ UNCHANGED <<peds, packets, context>>

-----------------------------------------------------------------------------
Network(s) ==
    \/ \E a \in Addrs : NewPed(s, a)
    \/ Destroy(s)
    \/ \E jump \in Keyed(s) : OnFootSync(s, jump) \/ InCarSync(s, jump)
    \/ s \in Active /\ PassengerSync(s)
    \/ UpdateAimFromSyncData(s) \/ WeaponShot(s)
    \/ EnterOrExit(s) \/ HandleDeath(s)

Process(s) == ProcessOnFoot(s) \/ ProcessDriver(s) \/ ProcessOther(s)

Game ==
    \/ \E n \in Present : CPed__ProcessControl_hook(n) \/ TaskUseGun(n)
    \/ \E n \in Present \cup {NoDriver} : AllVehicles__ProcessControl_hook(n)
    \/ Return
    \/ CPad__JumpJustDown_hook
    \/ CameraLooks

Next == (\E s \in Slots : Network(s) \/ Process(s)) \/ Game

Spec == Init /\ [][Next]_vars

-----------------------------------------------------------------------------
(* Properties *)

(* Addresses are interchangeable. *)
Symmetry == Permutations(Addrs)

(* Every variable holds one of its values. *)
TypeOK ==
    /\ dwPlayerPedPtrs \in [Numbers -> Addrs \cup {LocalPed, Null}]
    /\ pedOf \in [Slots -> Addrs \cup {Null}]
    /\ keys \in [Slots -> Pad]
    /\ state \in [Slots -> {"onfoot", "driver", "passenger", "other"}]
    /\ reported \in [Slots -> BOOLEAN]
    /\ shot \in [Slots -> BOOLEAN]
    /\ aims \in [Slots -> Numbers]
    /\ view \in View
    /\ {savedAim, savedZoom, byteCurPlayer, byteCurDriver} \subseteq Numbers
    /\ stack \in Seq(Frames) /\ Len(stack) <= 2
    /\ muddled \in BOOLEAN
    /\ owed \in [Slots -> BOOLEAN]

(* A ped that is no player's counts as the local player's. *)
Owner(n) == IF n = Actor THEN Local ELSE n

(* What the game sees of the camera is the local player's, except while it *)
(* processes another player's ped or gun: then all of it is that player's. *)
(* A gun used inside its ped's own processing overwrites the one saved aim *)
(* and zoom, until the camera looks again; the rest survives even that.    *)
(* SendAimSyncData and ProcessPedDamage send this view to the server as    *)
(* the local player's.                                                     *)
ViewFollowsPed ==
    /\ stack = << >> =>
           /\ view.focus = Local /\ view.mode = Local /\ view.mode2 = Local
           /\ ~muddled => view.aim = Local /\ view.zoom = Local
    /\ stack # << >> /\ ~muddled =>
           LET top == Head(stack)
               n == IF top.hook = "vehicle" THEN Local ELSE Owner(top.of)
           IN  /\ <<view.focus, view.mode, view.mode2, view.zoom>> = <<n, n, n, n>>
               /\ view.aim = IF n = Local THEN Local ELSE aims[n]

(* A ped, a gun or a driven vehicle obeys the keys of its own player, and  *)
(* an actor no other player's, with peds created and destroyed at any      *)
(* address and in any slot.                                                *)
OwnKeys ==
    stack # << >> =>
        LET top == Head(stack)
        IN  /\ top.hook \in {"ped", "gun"} => byteCurPlayer = Owner(top.of)
            /\ top.hook = "vehicle" /\ top.of # NoDriver => byteCurDriver = Owner(top.of)

(* A ped that would jump if the game asked has a jump to come: the key held *)
(* down makes it jump once, over any number of packets and frames and in    *)
(* and out of vehicles.                                                     *)
JumpOnce == \A s \in Slots : keys[s].jump /\ ~keys[s].ignoreJump => owed[s]

(* The keys a ped obeys are its own, and each press of them counts once.   *)
KeysTrue == OwnKeys /\ JumpOnce
=============================================================================
