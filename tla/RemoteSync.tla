----------------------------- MODULE RemoteSync -----------------------------
(***************************************************************************)
(* How the ped of a remote player comes to do what the player's packets    *)
(* say: a packet only stores its data, and one turn of                     *)
(* CRemotePlayer::Process in every frame makes the ped follow it.  The ped *)
(* is made and removed by calls of their own, the server plays animations  *)
(* on it past the packets, and the game moves it and ends its animations.  *)
(* Other players' bullets are packets too, and take health from the local  *)
(* player.                                                                 *)
(*                                                                         *)
(* Times are ages; a place is how far the ped is from the reported one.    *)
(***************************************************************************)
EXTENDS Integers, FiniteSetsExt

CONSTANTS
    Anims,          \* animations of the table
    NoSuch,         \* an index past its end
    Flagged,        \* "none", with the flag that says so (bit 31)
    Guns,           \* the weapons that have a model
    NoModel,        \* the numbers of those that have none; 0 is the fist
    Slot,           \* the slot of the ped that the game keeps each of them in
    Keys,           \* what GetExtendedKeys returns (0..3)
    Shotgun,        \* the one whose damage depends on the distance
    Hurts,          \* m_fWeaponDamages
    Awake, Still,   \* 1500 and 3000 ms
    Icons           \* bound: handles the game has for markers

ASSUME RemoteSyncAssumption ==
    /\ Guns \cup NoModel \subseteq 0 .. 63 /\ Guns \cap NoModel = {} /\ Keys \subseteq 0 .. 3
    /\ Slot \in [Guns \cup NoModel -> Nat]
    /\ Shotgun \in Guns /\ 0 \in NoModel /\ 0 \in Keys /\ 0 \notin Icons
    /\ Hurts \in [{0} \cup Guns -> Nat]
    /\ Awake \in Nat /\ Still \in Nat /\ Awake < Still
    /\ {0, NoSuch, Flagged} \cap Anims = {}

VARIABLES
    inPool,
    m_byteState,
    m_byteUpdateFromNetwork,
    m_ofSync,       \* of the last packet of a player on foot: the animation, the action, the weapon's byte
    seenCar,        \* m_pCurrentVehicle is not null
    m_usPlayingAnimIdx, m_bWasSettedFlag,
    m_byteWeaponShotID,     \* or NoShot
    m_bIsAFK,
    sinceRecv,      \* the age of m_dwLastRecvTick
    m_dwGlobalMarkerID,
    body,           \* m_pPlayerPed: what the ped does
    loaded,         \* the animations that are loaded
    icons,          \* the markers the game has
    health, armour, \* of the local player
    remotePart      \* what this behaviour is about

sync == <<m_byteState, m_byteUpdateFromNetwork, m_ofSync, seenCar, sinceRecv>>
shown == <<m_usPlayingAnimIdx, m_bWasSettedFlag, m_byteWeaponShotID, m_bIsAFK, body>>
remoteVars == <<inPool, sync, shown, m_dwGlobalMarkerID, loaded, icons, health, armour, remotePart>>

NoShot == 255
Entering == 3
Carried == {0} \cup Guns
PedSlots == {Slot[w] : w \in Guns \cup NoModel}
NoBody == [exists |-> FALSE, added |-> FALSE, seated |-> FALSE, anim |-> 0, scripted |-> FALSE,
           crouching |-> FALSE, slot |-> Slot[0], guns |-> [x \in PedSlots |-> 0], off |-> 0]
NoReport == [anim |-> 0, action |-> 0, weapon |-> 0]

RemoteSyncInit ==
    /\ remotePart \in {"animations", "weapons", "places"}
    /\ inPool = FALSE /\ m_byteState = "none" /\ m_byteUpdateFromNetwork = "none"
    /\ m_ofSync = NoReport /\ seenCar = FALSE
    /\ m_usPlayingAnimIdx = 0 /\ m_bWasSettedFlag = FALSE
    /\ m_byteWeaponShotID = NoShot /\ m_bIsAFK = TRUE /\ sinceRecv = Still + 1
    /\ m_dwGlobalMarkerID = 0 /\ icons = {}
    /\ body = NoBody /\ loaded = {}
    /\ health = 2 /\ armour = 0

-----------------------------------------------------------------------------
(* The player in the pool, his ped and his markers.                        *)

(* CPlayerPool::New makes a new CRemotePlayer. *)
Joins ==
    /\ ~inPool /\ inPool' = TRUE
    /\ m_byteState' = "none" /\ m_byteUpdateFromNetwork' = "none" /\ seenCar' = FALSE
    /\ m_usPlayingAnimIdx' = 0 /\ m_bWasSettedFlag' = FALSE
    /\ m_byteWeaponShotID' = NoShot /\ m_bIsAFK' = TRUE /\ sinceRecv' = Still + 1
    /\ m_dwGlobalMarkerID' = 0
    /\ UNCHANGED <<m_ofSync, body, loaded, icons, health, armour, remotePart>>

HideGlobalMarker == m_dwGlobalMarkerID' = 0 /\ icons' = icons \ {m_dwGlobalMarkerID}

(* What CRemotePlayer::Remove does of them; m_dwMarkerID is never set. *)
RemoveMarkers == HideGlobalMarker

RemoveRemote == RemoveMarkers /\ body' = NoBody

Quits ==
    /\ inPool /\ inPool' = FALSE
    /\ RemoveRemote
    /\ UNCHANGED <<sync, m_usPlayingAnimIdx, m_bWasSettedFlag, m_byteWeaponShotID, m_bIsAFK,
                   loaded, health, armour, remotePart>>

(* The call to show him.  The old ped goes first, and there may be none.   *)
StreamsIn ==
    /\ inPool
    /\ \/ body' = [NoBody EXCEPT !.exists = TRUE] /\ m_byteState' = "spawned"
       \/ body' = NoBody /\ m_byteState' = "none"
    /\ UNCHANGED <<inPool, m_byteUpdateFromNetwork, m_ofSync, seenCar, sinceRecv, m_usPlayingAnimIdx,
                   m_bWasSettedFlag, m_byteWeaponShotID, m_bIsAFK, m_dwGlobalMarkerID, loaded, icons,
                   health, armour, remotePart>>

StreamsOut ==
    /\ inPool /\ RemoveRemote
    /\ UNCHANGED <<inPool, sync, m_usPlayingAnimIdx, m_bWasSettedFlag, m_byteWeaponShotID, m_bIsAFK,
                   loaded, health, armour, remotePart>>

(* What SetDead leaves the ped doing, and TeleportTo: nothing. *)
Stopped(b) == [b EXCEPT !.anim = 0, !.scripted = FALSE]

PedDies ==
    /\ inPool
    /\ body' = Stopped(body)
    /\ m_byteState' = "wasted" /\ m_ofSync' = NoReport
    /\ HideGlobalMarker
    /\ UNCHANGED <<inPool, m_byteUpdateFromNetwork, seenCar, sinceRecv, m_usPlayingAnimIdx,
                   m_bWasSettedFlag, m_byteWeaponShotID, m_bIsAFK, loaded, health, armour, remotePart>>

(* One entry of the markers packet.  A marker that is shown is made anew,  *)
(* and only for a player without a ped.                                    *)
ShowGlobalMarker ==
    /\ inPool
    /\ LET rest == icons \ {m_dwGlobalMarkerID}
       IN IF body.exists THEN m_dwGlobalMarkerID' = 0 /\ icons' = rest
          ELSE \E i \in Icons \ rest : m_dwGlobalMarkerID' = i /\ icons' = rest \cup {i}
    /\ UNCHANGED <<inPool, sync, shown, loaded, health, armour, remotePart>>

Packet_MarkersSync(active) ==
    IF active THEN ShowGlobalMarker
    ELSE /\ inPool /\ HideGlobalMarker
         /\ UNCHANGED <<inPool, sync, shown, loaded, health, armour, remotePart>>

-----------------------------------------------------------------------------
(* The packets: what they say is stored.                                   *)

Stores(state, update, car) ==
    /\ inPool
    /\ m_byteState' = state /\ m_byteUpdateFromNetwork' = update /\ seenCar' = car
    /\ sinceRecv' = 0
    /\ UNCHANGED <<inPool, m_usPlayingAnimIdx, m_bWasSettedFlag, m_byteWeaponShotID, m_bIsAFK,
                   m_dwGlobalMarkerID, loaded, icons, health, armour, remotePart>>

(* A ped in a vehicle is taken out, unless its player is getting in or out.*)
(* The new report may be near where the ped is, or far away.               *)
StoreOnFootFullSyncData(data, off) ==
    /\ Stores("onfoot", "onfoot", seenCar)
    /\ m_ofSync' = data
    /\ body' = [body EXCEPT !.seated = @ /\ data.action = Entering, !.off = IF body.exists THEN off ELSE 0]

(* The vehicle of the packet is looked up, and the ped put in.             *)
StoreInCarFullSyncData(kind, car) ==
    /\ Stores(kind, kind, car)
    /\ \E in \in BOOLEAN :
           /\ in => body.exists /\ car
           /\ body' = [body EXCEPT !.seated = @ \/ in]
    /\ UNCHANGED m_ofSync

(* Only what has a model can be given.  The game puts it in its slot, over *)
(* what was there, and arms the ped by slot, whatever is in it; for a      *)
(* number that is no weapon's it takes some slot (stray).                  *)
HasModel(w) == w \in Guns
SetArmedWeapon(b, w, stray) == [b EXCEPT !.slot = IF w \in DOMAIN Slot THEN Slot[w] ELSE stray]
GiveWeapon(b, w) ==
    IF HasModel(w) THEN [b EXCEPT !.guns = [@ EXCEPT ![Slot[w]] = w], !.slot = Slot[w]] ELSE b
GetCurrentWeapon(b) == b.guns[b.slot]

(* What another client sends of a hit: with the player near, of the fist.  *)
SendBulletSyncData(w, near) == IF near THEN 0 ELSE w

(* What a bullet takes: a shotgun's less with the distance, and nothing of *)
(* what is not above zero.                                                 *)
Damages(w) == IF w = Shotgun THEN 0 .. Hurts[w] ELSE {Hurts[w]}

Wound(h, a, d) ==
    IF h > 0 /\ a > 0 THEN
        LET left == a - d IN <<Max({0, IF left <= 0 THEN h + left ELSE h}), Max({0, left})>>
    ELSE IF h > 0 THEN <<Max({0, h - d}), 0>>
    ELSE <<0, a>>

(* A bullet that hit the local player: the damage is done, and the ped is  *)
(* to shoot.                                                               *)
BulletSync(w) ==
    /\ inPool /\ body.exists /\ health > 0
    /\ \E d \in Damages(w) :
           LET left == Wound(health, armour, d) IN health' = left[1] /\ armour' = left[2]
    /\ m_byteWeaponShotID' = w /\ m_ofSync' = [m_ofSync EXCEPT !.weapon = w]
    /\ UNCHANGED <<inPool, m_byteState, m_byteUpdateFromNetwork, seenCar, sinceRecv, m_usPlayingAnimIdx,
                   m_bWasSettedFlag, m_bIsAFK, body, m_dwGlobalMarkerID, loaded, icons, remotePart>>

-----------------------------------------------------------------------------
(* The server's own animations, and the game.                              *)

(* ApplyAnimation gives up on a block that does not load in 15 ms, which   *)
(* may be loaded the next time.                                            *)
ApplyAnimation(b, a, ready, byServer) ==
    IF a \in ready THEN [b EXCEPT !.anim = a, !.scripted = byServer] ELSE b

Changes(b) ==
    /\ body' = b
    /\ UNCHANGED <<inPool, sync, m_usPlayingAnimIdx, m_bWasSettedFlag, m_byteWeaponShotID, m_bIsAFK,
                   m_dwGlobalMarkerID, icons, health, armour, remotePart>>

ScrApplyPlayerAnimation(a) ==
    /\ body.exists /\ Changes(ApplyAnimation(body, a, loaded, TRUE)) /\ UNCHANGED loaded

ScrClearPlayerAnimations == body.exists /\ Changes(Stopped(body)) /\ UNCHANGED loaded

AnimationEnds == body.anim # 0 /\ Changes(Stopped(body)) /\ UNCHANGED loaded
Loads(a) == loaded' = loaded \cup {a} /\ Changes(body)
StreamsNear(b) == body.exists /\ Changes([body EXCEPT !.added = b]) /\ UNCHANGED loaded
Walks(off) == body.exists /\ Changes([body EXCEPT !.off = off]) /\ UNCHANGED loaded
Boards(in) == body.exists /\ Changes([body EXCEPT !.seated = in]) /\ UNCHANGED loaded

Hurt(h, a) ==
    /\ health' = h /\ armour' = a
    /\ UNCHANGED <<inPool, sync, shown, m_dwGlobalMarkerID, loaded, icons, remotePart>>

-----------------------------------------------------------------------------
(* One turn of CRemotePlayer::Process, from and to the state s.            *)

(* HandleAnimations; index 0 and the flag stop the ped. *)
PlayAnimByIdx(s, a) ==
    IF a = 0 THEN [s EXCEPT !.body = Stopped(@)]
    ELSE [s EXCEPT !.body = ApplyAnimation(@, a, loaded, FALSE)]

(* Mutant: the index outlives the flag. *)
HandleAnimations_Forgets(s) ==
    LET a == m_ofSync.anim
    IN IF a = Flagged
       THEN IF s.set THEN [PlayAnimByIdx(s, 0) EXCEPT !.set = FALSE] ELSE s
       ELSE LET t == IF a # s.playing THEN [PlayAnimByIdx(s, a) EXCEPT !.playing = a] ELSE s
            IN [t EXCEPT !.set = TRUE]

HandleAnimations(s) ==
    LET a == m_ofSync.anim
    IN IF a = Flagged
       THEN IF s.set THEN [PlayAnimByIdx(s, 0) EXCEPT !.playing = 0, !.set = FALSE] ELSE s
       ELSE LET t == IF a # s.playing THEN [PlayAnimByIdx(s, a) EXCEPT !.playing = a] ELSE s
                u == IF a # 0 /\ t.body.anim # a THEN PlayAnimByIdx(t, a) ELSE t
            IN [u EXCEPT !.set = TRUE]

ProcessSpecialActions(s) ==
    IF ~s.body.added \/ m_ofSync.action \notin {0, 1} THEN s
    ELSE [s EXCEPT !.body.crouching = (m_ofSync.action = 1)]

(* The packet's byte is taken for a weapon, with the keys that are in it.  *)
UpdateWeapon(b, w, stray) ==
    IF GetCurrentWeapon(b) # w THEN SetArmedWeapon(GiveWeapon(b, w), w, stray) ELSE b

(* With a packet: the weapon, and the place unless it is near. *)
UpdateOnFoot(s) ==
    LET b == UpdateWeapon(s.body, m_ofSync.weapon, s.stray)
    IN [s EXCEPT !.body = [b EXCEPT !.off = IF @ = 2 \/ ~b.added THEN 0 ELSE @]]

(* In every frame: the shot, and a player who has not been heard of.       *)
OnFoot(s) ==
    LET t == HandleAnimations(ProcessSpecialActions(s))
        u == IF t.shot = NoShot THEN t
             ELSE [t EXCEPT !.body = SetArmedWeapon(@, t.shot, t.stray), !.weapon = t.shot, !.shot = NoShot]
        v == [u EXCEPT !.afk = @ \/ s.age > Awake]
    IN IF v.afk /\ v.age > Still THEN [v EXCEPT !.body.off = 0] ELSE v

Heard(s) == [s EXCEPT !.afk = @ /\ s.age >= Awake]

RemoteTurn(s) ==
    LET done == [s EXCEPT !.update = "none"]
    IN CASE m_byteState = "onfoot" /\ ~s.body.seated ->
              Heard(OnFoot(IF s.update = "onfoot" THEN UpdateOnFoot(done) ELSE done))
         [] m_byteState = "driver" /\ s.body.seated ->
              IF ~seenCar THEN [s EXCEPT !.update = IF @ = "driver" THEN @ ELSE "none"]
              ELSE Heard([done EXCEPT !.afk = @ \/ s.age > Awake])
         [] m_byteState = "passenger" ->
              IF s.update = "passenger" /\ ~seenCar THEN s
              ELSE Heard([done EXCEPT !.afk = @ \/ s.age >= Still])
         [] OTHER -> Heard(done)

(* A frame, after a moment. *)
RemoteFrame(moment) ==
    /\ inPool
    /\ \E stray \in PedSlots :
       LET age == Min({sinceRecv + moment, Still + 1})
           s == [body |-> body, weapon |-> m_ofSync.weapon, playing |-> m_usPlayingAnimIdx, set |-> m_bWasSettedFlag,
                 afk |-> m_bIsAFK, shot |-> m_byteWeaponShotID, update |-> m_byteUpdateFromNetwork, age |-> age,
                 stray |-> stray]
           t == IF body.exists /\ m_byteState # "none" THEN RemoteTurn(s) ELSE [s EXCEPT !.body = NoBody]
       IN /\ body' = t.body /\ m_usPlayingAnimIdx' = t.playing /\ m_bWasSettedFlag' = t.set
          /\ m_bIsAFK' = t.afk /\ m_byteWeaponShotID' = t.shot /\ m_byteUpdateFromNetwork' = t.update
          /\ m_ofSync' = [m_ofSync EXCEPT !.weapon = t.weapon] /\ sinceRecv' = age
    /\ UNCHANGED <<inPool, m_byteState, seenCar, m_dwGlobalMarkerID, loaded, icons,
                   health, armour, remotePart>>

(* SendOnFootFullSyncData: the weapon in hand and, over it, the keys.      *)
(* Packet_PlayerSync takes the byte as it is.                              *)
WeaponByte(w, keys) == 64 * keys + w

(* What packets say, of what the behaviour is about. *)
Reports ==
    CASE remotePart = "animations" -> {[NoReport EXCEPT !.anim = a] : a \in {0, NoSuch, Flagged} \cup Anims}
      [] remotePart = "weapons" -> {[anim |-> 0, action |-> c, weapon |-> WeaponByte(w, keys)] :
                                        c \in {0, 1, Entering}, w \in DOMAIN Slot, keys \in Keys}
      [] OTHER -> {NoReport}

Of(part) == remotePart = part

RemoteSyncNext ==
    \/ Joins \/ Quits \/ StreamsIn \/ StreamsOut \/ PedDies
    \/ RemoteFrame(IF Of("places") THEN 1 ELSE 0)
    \/ \E data \in Reports, off \in 0 .. 2 : (Of("places") \/ off = 0) /\ StoreOnFootFullSyncData(data, off)
    \/ \E kind \in {"driver", "passenger"}, car \in BOOLEAN :
           (Of("places") \/ (kind = "driver" /\ car)) /\ StoreInCarFullSyncData(kind, car)
    \/ \E in \in BOOLEAN : Boards(in)
    \/ Of("animations") /\ \E a \in Anims : ScrApplyPlayerAnimation(a) \/ Loads(a)
    \/ Of("animations") /\ (ScrClearPlayerAnimations \/ AnimationEnds)
    \/ ~Of("animations") /\ \E b \in BOOLEAN : StreamsNear(b)
    \/ Of("places") /\ \E off \in 0 .. 2 : Walks(off)
    \/ Of("places") /\ \E active \in BOOLEAN : Packet_MarkersSync(active)
    \/ Of("weapons") /\ \E w \in Carried, near \in BOOLEAN : BulletSync(SendBulletSyncData(w, near))
    \/ Of("weapons") /\ \E a \in {0, 1, 2} : Hurt(2, a)

-----------------------------------------------------------------------------

(* What a frame leaves the ped of a player on foot doing is what the last  *)
(* packet says: it plays the animation as soon as that is loaded, and none *)
(* of an earlier packet; it crouches or stands; with a new packet, if the  *)
(* player has not just shot, it has the reported weapon in hand, or, where *)
(* the number has no model, is given nothing and shows at most what shares *)
(* the slot; it is near the reported place; and a player not heard of is   *)
(* where he was.                                                           *)
InHand(w) ==
    /\ HasModel(w) => GetCurrentWeapon(body') = w
    /\ ~HasModel(w) => body'.guns = body.guns
    /\ w \in NoModel => GetCurrentWeapon(body') \in {0, body.guns[Slot[w]]}

FollowsPackets ==
    LET a == m_ofSync'.anim
    IN  /\ a \in loaded => body'.anim = a
        /\ a \in {0, Flagged} => body'.anim = 0 \/ body'.scripted
        /\ m_ofSync'.action \in {0, 1} /\ body'.added => body'.crouching = (m_ofSync'.action = 1)
        /\ m_byteUpdateFromNetwork = "onfoot" =>
               /\ m_byteWeaponShotID = NoShot => InHand(m_ofSync'.weapon)
               /\ body'.off <= 1
        /\ m_bIsAFK' = (sinceRecv' > Awake \/ (m_bIsAFK /\ sinceRecv' = Awake))
        /\ sinceRecv' > Still => body'.off = 0

(* A player is taken for away only if nothing was heard of him, unless he  *)
(* is in a vehicle the client does not have.                               *)
AwayUnheard == m_bIsAFK' => sinceRecv' >= Awake \/ (~seenCar /\ m_byteState \in {"driver", "passenger"})

(* A hit takes from the local player what the shooter tells the server, a  *)
(* shotgun's no more than that, the armour first.                          *)
TakesAsTold(w) ==
    LET taken == health + armour - (health' + armour')
        told == Min({Hurts[w], health + armour})
    IN  /\ taken <= told /\ (w # Shotgun => taken = told)
        /\ health' < health => armour' = 0
        /\ health' <= health /\ armour' <= armour

(* A remote player's ped follows his packets whatever comes between them   *)
(* and the frames, bullets cost what they should, and the map's marker of  *)
(* a player is never left behind.                                          *)
RemoteAsSent ==
    [][/\ (\E moment \in {0, 1} : RemoteFrame(moment)) /\ body'.exists =>
              AwayUnheard /\ (m_byteState = "onfoot" /\ ~body.seated => FollowsPackets)
       /\ \A w \in Carried : BulletSync(w) => TakesAsTold(w)
       /\ icons' = {m_dwGlobalMarkerID'} \ {0}]_remoteVars
=============================================================================
