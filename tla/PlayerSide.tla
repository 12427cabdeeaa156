----------------------------- MODULE PlayerSide -----------------------------
(***************************************************************************)
(* The players: how remote ones share the game's camera and pad, what the  *)
(* server is told of the local one, how a remote player's ped follows what *)
(* is told of it, what peds carry, how the local player gets into          *)
(* vehicles, and what is said.  They meet in the packets, which each takes *)
(* as they may come: a behaviour exercises one of them (about).            *)
(***************************************************************************)
EXTENDS PlayerContext, PlayerSync, RemoteSync, Attachments, Boarding, Saying

VARIABLE about  \* what this behaviour is about

playerVars == <<vars, syncVars, remoteVars, attachVars, boardVars, sayVars, about>>

(* m_fWeaponDamages, in the order of the weapons. *)
HurtsMore == [w \in Carried |-> w + 2]

(* All but the fist share a slot. *)
WeaponSlots == [w \in Guns \cup NoModel |-> Min({w, 1})]

(* The other sides stay in one initial state. *)
PlayerInit ==
    /\ Init /\ SyncInit /\ RemoteSyncInit /\ AttachInit /\ BoardInit /\ SayInit
    /\ about \in {"context", "telling", "following", "carrying", "boarding", "saying"}
    /\ about # "telling" => syncPart = {} /\ looks = NothingYet.looks
    /\ about # "following" => remotePart = "places"
    /\ about # "carrying" => m_bEnabled /\ m_bParsed
    /\ about # "boarding" => boardPart = "seats"
    /\ about # "saying" => sayPart = "text"

PlayerNext ==
    \/ /\ about = "context" /\ Next
       /\ UNCHANGED <<syncVars, remoteVars, attachVars, boardVars, sayVars, about>>
    \/ /\ about = "telling" /\ SyncNext
       /\ UNCHANGED <<vars, remoteVars, attachVars, boardVars, sayVars, about>>
    \/ /\ about = "following" /\ RemoteSyncNext
       /\ UNCHANGED <<vars, syncVars, attachVars, boardVars, sayVars, about>>
    \/ /\ about = "carrying" /\ AttachNext
       /\ UNCHANGED <<vars, syncVars, remoteVars, boardVars, sayVars, about>>
    \/ /\ about = "boarding" /\ BoardNext
       /\ UNCHANGED <<vars, syncVars, remoteVars, attachVars, sayVars, about>>
    \/ /\ about = "saying" /\ SayNext
       /\ UNCHANGED <<vars, syncVars, remoteVars, attachVars, boardVars, about>>

PlayerSpec == PlayerInit /\ [][PlayerNext]_playerVars
=============================================================================
