----------------------------- MODULE PlayerSync -----------------------------
(***************************************************************************)
(* What the client tells the server of its own player, and how late: one   *)
(* turn of CLocalPlayer::Process in every frame, which sends the packet of *)
(* what the player is doing, at a rate shared by them all, but not a       *)
(* packet that says what the last one of its kind has said; and the aim of *)
(* a player on foot, at a rate of its own.                                 *)
(*                                                                         *)
(* Times are ages, in units of a few milliseconds.                         *)
(***************************************************************************)
EXTENDS Integers, FiniteSetsExt

CONSTANTS
    Looks,          \* what a packet says of the player: where he is, what he holds down
    SendRate,       \* 30 ms and one for each player near
    Refresh,        \* 500 ms: a packet that repeats the last one is sent after that long
    FireRate, AimRate, HeadRate,    \* 30, 100 and 1000 ms
    Longest         \* what a frame takes at most

ASSUME SyncAssumption ==
    /\ {SendRate, Refresh, FireRate, AimRate, HeadRate} \subseteq Nat
    /\ FireRate < AimRate /\ AimRate < HeadRate
    /\ Longest \in Nat \ {0} /\ Looks # {}

VARIABLES
    doing,          \* what the player does: on foot, driver, passenger, or neither
    looks,
    known,          \* the vehicle he is in, and what it tows, are in the pool
    m_bIsActive, m_bIsSpectating,
    buttons,        \* the buttons of the screen that LocalPlayerKeys remembers
    trigger,        \* he aims, fires, or both
    sinceSend,      \* the age of m_dwLastSendTick
    sinceSpec,      \* of m_dwLastSendSpecTick
    sinceAim,       \* of m_dwLastAimSendTick
    sinceUpdate,    \* of m_dwLastUpdateOnFootData, -InCarData, -PassengerData
    data,           \* m_OnFootData, m_InCarData, m_PassengerData
    told,           \* the last packet that was sent
    unseen,         \* for how long it has not been true
    volley,         \* how many turns he has been aiming and firing, up to two
    syncPart        \* what this behaviour is about: two things the player does, or his aim and buttons

stored == <<sinceUpdate, data>>
pace == <<sinceSend, sinceSpec, sinceAim>>
syncVars == <<doing, looks, known, m_bIsActive, m_bIsSpectating, buttons, trigger,
              pace, stored, told, unseen, volley, syncPart>>

Doings == {"foot", "driver", "passenger"}
Buttons == {"alt", "yes"}     \* of the first kind GetKeys takes all, of the second GetExtendedKeys
Steps == 1 .. Longest
NothingYet == [kind |-> "none", looks |-> CHOOSE l \in Looks : TRUE, keys |-> {}]

(* Ages are not told apart once they are past every limit. *)
Older(age, step, limit) == Min({age + step, limit + 1})

SyncInit ==
    /\ syncPart \in {{"foot", "driver"}, {"driver", "passenger"}, {}}
    /\ doing = IF "driver" \in syncPart THEN "driver" ELSE "foot"
    /\ looks \in Looks /\ known = TRUE
    /\ m_bIsActive = FALSE /\ m_bIsSpectating = FALSE
    /\ buttons = {} /\ trigger = {}
    /\ sinceSend = 0 /\ sinceSpec = 0 /\ sinceAim = 0
    /\ sinceUpdate = [k \in Doings |-> 0]
    /\ data = [k \in Doings |-> NothingYet]
    /\ told = NothingYet /\ unseen = 0 /\ volley = 0

-----------------------------------------------------------------------------
(* The game and the player, between two turns.                             *)

Moves(l) ==
    /\ l # looks
    /\ looks' = l
    /\ UNCHANGED <<doing, known, m_bIsActive, m_bIsSpectating, buttons, trigger, pace, stored, told,
                   unseen, volley, syncPart>>

Does(what, inPool) ==
    /\ what = "foot" => inPool
    /\ doing' = what /\ known' = inPool
    /\ unseen' = 0 /\ volley' = 0
    /\ UNCHANGED <<looks, m_bIsActive, m_bIsSpectating, buttons, trigger, pace, stored, told, syncPart>>

(* Spawn, death, and the calls about spectating (LocalPlayer has them). *)
Becomes(active, spectating) ==
    /\ m_bIsActive' = active /\ m_bIsSpectating' = spectating
    /\ unseen' = 0 /\ volley' = 0
    /\ UNCHANGED <<doing, looks, known, buttons, trigger, pace, stored, told, syncPart>>

(* A button of CGUI::Render. *)
Push(b) ==
    /\ buttons' = buttons \cup {b}
    /\ UNCHANGED <<doing, looks, known, m_bIsActive, m_bIsSpectating, trigger, pace, stored, told,
                   unseen, volley, syncPart>>

(* CPad__GetEnterTargeting_hook and CPad__GetWeapon_hook. *)
Aims(keys) ==
    /\ trigger' = keys /\ volley' = 0
    /\ UNCHANGED <<doing, looks, known, m_bIsActive, m_bIsSpectating, buttons, pace, stored, told,
                   unseen, syncPart>>

-----------------------------------------------------------------------------
(* One turn, from and to the state s of what it changes.                   *)

GetKeys(s) == [s EXCEPT !.buttons = @ \ {"alt"}]
GetExtendedKeys(s) == [s EXCEPT !.buttons = @ \ {"yes"}]

Packet(kind, keys) == [kind |-> kind, looks |-> looks, keys |-> keys]

(* Mutant: the packet is stored before it is compared. *)
SendUnlessRepeated_StoresFirst(s, p) ==
    IF s.sinceUpdate[p.kind] > Refresh
    THEN [s EXCEPT !.sinceUpdate[p.kind] = 0, !.data[p.kind] = p, !.told = p]
    ELSE [s EXCEPT !.data[p.kind] = p]

SendUnlessRepeated(s, p) ==
    IF s.sinceUpdate[p.kind] > Refresh \/ s.data[p.kind] # p
    THEN [s EXCEPT !.sinceUpdate[p.kind] = 0, !.data[p.kind] = p, !.told = p]
    ELSE s

SendOnFootFullSyncData(s) ==
    SendUnlessRepeated(GetExtendedKeys(GetKeys(s)), Packet("foot", s.buttons))

(* Without its vehicle in the pool, or with a trailer that is not, the     *)
(* keys are gone and nothing is sent.                                      *)
SendInCarFullSyncData(s) ==
    IF known THEN SendUnlessRepeated(GetExtendedKeys(GetKeys(s)), Packet("driver", s.buttons))
    ELSE GetKeys(s)

SendPassengerFullSyncData(s) ==
    IF known THEN SendUnlessRepeated(GetKeys(s), Packet("passenger", s.buttons \cap {"alt"}))
    ELSE GetKeys(s)

(* It sends nothing. *)
SendOnKeyFullSyncData(s) == GetExtendedKeys(s)

(* The branch of the on-foot turn that a button starts; the send rate      *)
(* starts again as if something had been sent.                             *)
OnKey(s) ==
    IF s.sinceSend > SendRate \/ s.buttons # {}
    THEN SendOnKeyFullSyncData([s EXCEPT !.sinceSend = 0, !.putOff = TRUE])
    ELSE s

(* What the aim's turn still finds of the keys: GetKeys takes them all,    *)
(* and looks at the camera itself to see whether he aims.                  *)
AimLimit(s) ==
    LET fires == "fire" \in trigger /\ ~s.taken
        aims == "aim" \in trigger
    IN IF aims THEN (IF fires THEN FireRate ELSE AimRate)
       ELSE IF fires THEN SendRate ELSE HeadRate

SendAimSyncData(s) ==
    LET t == GetKeys(s)
    IN IF s.sinceAim > AimLimit(s) THEN [t EXCEPT !.sinceAim = 0] ELSE t

Sync(s, kind) ==
    CASE kind = "foot" -> SendOnFootFullSyncData([s EXCEPT !.taken = TRUE])
      [] kind = "driver" -> SendInCarFullSyncData(s)
      [] kind = "passenger" -> SendPassengerFullSyncData(s)

WhenDue(s, kind) == IF s.sinceSend > SendRate THEN Sync([s EXCEPT !.sinceSend = 0], kind) ELSE s

ProcessSpectating(s) ==
    LET t == GetKeys(s)
    IN IF s.sinceSpec > SendRate
       THEN [t EXCEPT !.sinceSpec = 0, !.told = Packet("spectator", s.buttons \cap {"alt"})]
       ELSE t

Turn(s) ==
    IF m_bIsSpectating THEN ProcessSpectating(s)
    ELSE IF ~m_bIsActive \/ doing = "neither" THEN s
    ELSE IF doing = "foot" THEN SendAimSyncData(OnKey(WhenDue(s, "foot")))
    ELSE WhenDue(s, doing)

(* What the player is to the server, if he is anything to be sent. *)
Kind == IF m_bIsSpectating THEN "spectator" ELSE doing
Sends == m_bIsSpectating \/ (m_bIsActive /\ doing # "neither" /\ known)

(* The last packet says what the player is.  (Buttons are told once.) *)
Says(p) == p.kind = Kind /\ p.looks = looks

(* A frame: CLocalPlayer::Process after step. *)
Frame(step) ==
    LET s == Turn([buttons |-> buttons, told |-> told, data |-> data, taken |-> FALSE, putOff |-> FALSE,
                   sinceSend |-> Older(sinceSend, step, SendRate),
                   sinceSpec |-> Older(sinceSpec, step, SendRate),
                   sinceAim |-> Older(sinceAim, step, HeadRate),
                   sinceUpdate |-> [k \in Doings |-> Older(sinceUpdate[k], step, Refresh)]])
    IN /\ buttons' = s.buttons /\ told' = s.told /\ data' = s.data
       /\ sinceSend' = s.sinceSend /\ sinceSpec' = s.sinceSpec /\ sinceAim' = s.sinceAim
       /\ sinceUpdate' = s.sinceUpdate
       /\ unseen' = IF ~Sends \/ s.putOff \/ Says(s.told) THEN 0
                    ELSE Older(unseen, step, SendRate + Refresh + 2 * Longest)
       /\ volley' = IF Sends /\ Kind = "foot" /\ trigger = {"aim", "fire"} THEN Min({volley + 1, 2}) ELSE 0
       /\ UNCHANGED <<doing, looks, known, m_bIsActive, m_bIsSpectating, trigger, syncPart>>

(* A behaviour exercises two things the player does, and the packets of    *)
(* both, or a player on foot, his buttons and his aim.  Whether he is      *)
(* active makes no difference while he is a spectator, nor whether his     *)
(* vehicle is in the pool where he is in none.                             *)
SyncNext ==
    \/ syncPart # {} /\ \E l \in Looks : Moves(l)
    \/ \E what \in syncPart \cup {"neither"}, inPool \in BOOLEAN :
           syncPart # {} /\ (what = "neither" => inPool) /\ Does(what, inPool)
    \/ \E active, spectating \in BOOLEAN : ~(active /\ spectating) /\ Becomes(active, spectating)
    \/ syncPart = {} /\ \E b \in Buttons : Push(b)
    \/ syncPart = {} /\ \E keys \in SUBSET {"aim", "fire"} : Aims(keys)
    \/ \E step \in Steps : Frame(step)

-----------------------------------------------------------------------------

(* The server's picture of the player is never old: what he looks like     *)
(* reaches it with the next packet, and what he does, even where a packet  *)
(* repeats the one sent before he did something else, soon after Refresh.  *)
(* (A button on foot puts the next packet off.)                            *)
PictureFresh ==
    unseen <= IF told.kind = Kind THEN SendRate ELSE Refresh + SendRate + Longest

(* A shot is aimed: while he aims and fires, the aim the server has is no  *)
(* older than the fire rate and a frame, if frames are shorter than the    *)
(* send rate.  (The body's packet takes the keys before the aim's turn.)   *)
ShotsAimed ==
    volley = 2 /\ Longest <= SendRate => sinceAim <= FireRate + Longest

PlayerTold == PictureFresh /\ ShotsAimed
=============================================================================
