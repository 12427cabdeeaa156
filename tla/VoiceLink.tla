------------------------------ MODULE VoiceLink ------------------------------
(***************************************************************************)
(* The connection of the voice chat: m_iNetworkState of CVoiceChatClient,  *)
(* a plain int that the game thread and the voice network thread both      *)
(* write, and the ENet host (CENetClient) that only the network thread     *)
(* touches.  Each read or write of the state is an action of its own, as   *)
(* the other thread may act between any two of them.  A peer of the host   *)
(* is the number of its slot.  The module starts where CNetGame::Process   *)
(* has just started the voice threads of a voice server.                   *)
(*                                                                         *)
(* Left out: what travels on the connection (VoiceStreams), the            *)
(* microphone, and m_bClearInputBuffer, which the network thread clears    *)
(* before every point that reads it.                                       *)
(***************************************************************************)
EXTENDS Naturals

CONSTANT HostPeers      \* the peers enet_host_create is asked for
ASSUME HostPeersAssumption == HostPeers \in Nat \ {0}

NoPeer == 0
Slots == 1..HostPeers

Down == {"NONE", "DISCONNECTED", "FULLDISCONNECTED"}
NetStates == Down \cup {"WAIT_CONNECT", "CONNECTING", "CONNECTED"}
Steps == {"top", "pause", "full", "down", "redial", "wait", "dial",
          "dialling", "answered", "failed", "net", "events"}

VARIABLES
    netState,       \* m_iNetworkState
    gameConnected,  \* pNetGame->GetGameState() = GAMESTATE_CONNECTED
    losing,         \* the game thread is inside Packet_ConnectionLost
    paused,         \* the menu is open, or nothing was drawn for 500 ms
    pc,             \* where the network thread is in Process
    client,         \* m_pClient is not null
    peer,           \* its m_pPeer
    inUse,          \* slots of its ENet host that hold a connection
    told            \* the user was told the voice chat is off (a ghost)

game == <<gameConnected, losing, paused, told>>
host == <<client, peer, inUse>>
vars == <<netState, game, pc, host>>

IsDisconnected == netState \in Down

(* InitGame created the client and called Connect. *)
Init ==
    /\ netState = "WAIT_CONNECT"
    /\ gameConnected = TRUE /\ losing = FALSE /\ paused = FALSE /\ told = FALSE
    /\ pc = "top"
    /\ client = TRUE /\ peer = NoPeer /\ inUse = {}

-----------------------------------------------------------------------------
(* The network thread: one turn of Process *)

Goto(from, to) == pc = from /\ pc' = to

(* Mutant: a full disconnect is left to the test further down. *)
TestDisconnected_NotFull ==
    /\ Goto("top", IF netState \in Down \ {"FULLDISCONNECTED"} THEN "top" ELSE "pause")
    /\ UNCHANGED <<netState, game, host>>

(* Mutant: a voice chat that waits is taken for one that is off. *)
TestDisconnected_Waits ==
    /\ Goto("top", IF netState \in Down \cup {"WAIT_CONNECT"} THEN "top" ELSE "pause")
    /\ UNCHANGED <<netState, game, host>>

(* Stay idle while the voice chat is off ... *)
TestDisconnected ==
    /\ Goto("top", IF IsDisconnected THEN "top" ELSE "pause")
    /\ UNCHANGED <<netState, game, host>>

(* ... or the game is paused. *)
TestPaused ==
    /\ Goto("pause", IF paused THEN "top" ELSE "full")
    /\ UNCHANGED <<netState, game, host>>

(* delete m_pClient: every connection goes with it. *)
DeleteClient == client' = FALSE /\ peer' = NoPeer /\ inUse' = {}

TestFullDisconnected ==
    \/ /\ netState = "FULLDISCONNECTED"
       /\ Goto("full", "top") /\ DeleteClient
       /\ UNCHANGED <<netState, game>>
    \/ /\ netState # "FULLDISCONNECTED"
       /\ Goto("full", "down")
       /\ UNCHANGED <<netState, game, host>>

TestDown ==
    \/ /\ netState = "DISCONNECTED"
       /\ Goto("down", "redial") /\ DeleteClient
       /\ UNCHANGED <<netState, game>>
    \/ /\ netState # "DISCONNECTED"
       /\ Goto("down", "wait")
       /\ UNCHANGED <<netState, game, host>>

Redial ==
    /\ Goto("redial", "wait")
    /\ netState' = "WAIT_CONNECT"
    /\ UNCHANGED <<game, host>>

TestWait ==
    /\ Goto("wait", IF netState = "WAIT_CONNECT" /\ gameConnected THEN "dial" ELSE "net")
    /\ UNCHANGED <<netState, game, host>>

(* CENetClient::Connect up to the wait: a free slot is taken, or there is  *)
(* none and the attempt has failed.                                        *)
Dial ==
    /\ netState' = "CONNECTING"
    /\ client' = TRUE
    /\ \/ \E p \in Slots \ inUse :
             Goto("dial", "dialling") /\ peer' = p /\ inUse' = inUse \cup {p}
       \/ inUse = Slots /\ Goto("dial", "failed") /\ peer' = NoPeer /\ UNCHANGED inUse
    /\ UNCHANGED game

(* The first event within five seconds is the connection's ... *)
DialAnswered ==
    /\ Goto("dialling", "answered")
    /\ UNCHANGED <<netState, game, host>>

(* ... or there is none, or it is another one, perhaps the end of an       *)
(* earlier connection of the host: the new peer is reset.                  *)
DialFailed ==
    /\ Goto("dialling", "failed")
    /\ \E gone \in {{}} \cup {{p} : p \in inUse \ {peer}} :
          inUse' = inUse \ ({peer} \cup gone)
    /\ peer' = NoPeer
    /\ UNCHANGED <<netState, game, client>>

(* The verdict overwrites whatever the game thread wrote meanwhile. *)
SetConnected ==
    /\ Goto("answered", "top")
    /\ netState' = "CONNECTED"
    /\ UNCHANGED <<game, host>>

SetWait ==
    /\ Goto("failed", "top")
    /\ netState' = "WAIT_CONNECT"
    /\ UNCHANGED <<game, host>>

TestConnected ==
    /\ Goto("net", IF netState = "CONNECTED" THEN "events" ELSE "top")
    /\ UNCHANGED <<netState, game, host>>

(* Mutant: OnClientDisconnected handles only the server's own code. *)
PeerGone_IgnoresTimeout ==
    /\ pc = "events"
    /\ \E p \in inUse, code228 \in BOOLEAN :
          /\ inUse' = inUse \ {p}
          /\ netState' = IF code228 THEN "NONE" ELSE netState
    /\ UNCHANGED <<pc, game, client, peer>>

(* ENET_EVENT_TYPE_DISCONNECT of any peer of the host runs                 *)
(* OnClientDisconnected: code 228 says do not come back.  m_pPeer still    *)
(* points to the slot.                                                     *)
PeerGone ==
    /\ pc = "events"
    /\ \E p \in inUse, code228 \in BOOLEAN :
          /\ inUse' = inUse \ {p}
          /\ netState' = IF code228 THEN "NONE" ELSE "WAIT_CONNECT"
    /\ UNCHANGED <<pc, game, client, peer>>

EventsDone ==
    /\ Goto("events", "top")
    /\ UNCHANGED <<netState, game, host>>

Process ==
    \/ TestDisconnected \/ TestPaused \/ TestFullDisconnected \/ TestDown
    \/ Redial \/ TestWait \/ Dial \/ DialAnswered \/ DialFailed
    \/ SetConnected \/ SetWait \/ TestConnected \/ PeerGone \/ EventsDone

-----------------------------------------------------------------------------
(* The game thread *)

(* Packet_ConnectionLost: Disconnect, and the game's own state only after  *)
(* the session is cleared.                                                 *)
Disconnect ==
    /\ ~losing
    /\ netState' = "DISCONNECTED" /\ losing' = TRUE
    /\ UNCHANGED <<gameConnected, paused, told, pc, host>>

SessionLost ==
    /\ losing
    /\ losing' = FALSE /\ gameConnected' = FALSE
    /\ UNCHANGED <<netState, paused, told, pc, host>>

(* Packet_DisconnectionNotification and /vdisconnect *)
FullDisconnect ==
    /\ ~losing
    /\ told' = TRUE
    /\ netState' = "FULLDISCONNECTED"
    /\ UNCHANGED <<gameConnected, losing, paused, pc, host>>

(* /vconnect *)
VConnect ==
    /\ ~losing
    /\ netState' = "WAIT_CONNECT" /\ told' = FALSE
    /\ UNCHANGED <<gameConnected, losing, paused, pc, host>>

(* A restart of the game mode leaves the connected state, InitGame enters  *)
(* it; a client that exists is not told of either.                         *)
GameState ==
    /\ ~losing
    /\ gameConnected' \in BOOLEAN
    /\ UNCHANGED <<netState, losing, paused, told, pc, host>>

Pause ==
    /\ paused' \in BOOLEAN
    /\ UNCHANGED <<netState, gameConnected, losing, told, pc, host>>

Game == Disconnect \/ SessionLost \/ FullDisconnect \/ VConnect \/ GameState \/ Pause

-----------------------------------------------------------------------------
Next == Process \/ Game

(* The network thread is never blocked for good: it sleeps 5 ms a turn and *)
(* waits at most five seconds for an answer.                               *)
Spec == Init /\ [][Next]_vars /\ WF_vars(Process)

-----------------------------------------------------------------------------
(* Properties *)

TypeOK ==
    /\ netState \in NetStates
    /\ {gameConnected, losing, paused, client, told} \subseteq BOOLEAN
    /\ pc \in Steps
    /\ peer \in Slots \cup {NoPeer}
    /\ inUse \subseteq Slots

(* CONNECTED is shown (the green light of gui.cpp) only while m_pPeer is a *)
(* connection of the host, whatever the game thread wrote while the dial   *)
(* or the callbacks ran: what ProcessNetwork sends has somewhere to go.    *)
ConnectedHasPeer == netState = "CONNECTED" => client /\ peer \in inUse

(* The state is CONNECTING only while the network thread is inside a dial: *)
(* no write of the game thread makes a dial end without its verdict.       *)
ConnectingIsDialling ==
    netState = "CONNECTING" => pc \in {"dialling", "answered", "failed"}

(* The lights of gui.cpp tell the truth: green only with a peer of the     *)
(* host to send to, yellow only while a verdict is under way.              *)
LightsTrue == ConnectedHasPeer /\ ConnectingIsDialling

(* Once the network thread has come back to the top of its loop and finds  *)
(* the voice chat off, it stays off until the user asks for it again: only *)
(* a turn in progress can undo FullDisconnect.                             *)
SettledStaysOff ==
    [][told /\ netState \in Down /\ pc = "top"
          => ~told' \/ (netState' \in Down /\ pc' = "top")]_vars

(* A voice chat that waits for its server is dialled, unless the game      *)
(* leaves its session, pauses, or writes another state first.              *)
VoiceRedials ==
    netState = "WAIT_CONNECT" /\ gameConnected /\ ~paused
       ~> netState # "WAIT_CONNECT" \/ ~gameConnected \/ paused

(* "You are disconnected from the voice chat" (FullDisconnect's message)   *)
(* holds until the user or the game asks for the voice chat again.         *)
ToldDisconnected == told => netState # "CONNECTED"
=============================================================================
