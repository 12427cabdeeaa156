----------------------------- MODULE WorldMarks -----------------------------
(***************************************************************************)
(* What the server marks on the map and takes out of the world: map icons  *)
(* (netgame.cpp), the checkpoint and the race checkpoint, whose markers    *)
(* follow them a frame later (game.cpp), and the buildings it removes,     *)
(* those that are there and those the game loads later (netrpc.cpp,        *)
(* hooks.cpp).  All of it runs on the game thread.  What a mark looks like *)
(* is left out, and that the radar may be full.                            *)
(***************************************************************************)
EXTENDS Naturals, Sequences

CONSTANTS
    IconIds,        \* the indexes of m_dwMapIcons, 100
    Places,
    Nowhere,
    Markers,          \* the game's handles of markers on the radar
    Gates,          \* and of race checkpoints
    NoMark,         \* no handle, 0
    Buildings,      \* the map's: what it is and where
    MaxRemoved,     \* bound: MAX_REMOVE_MODELS, which RemoveBuilding does not look at
    AnyModel        \* -1

ASSUME WorldMarksAssumption ==
    /\ Nowhere \notin Places /\ NoMark \notin Markers \cup Gates
    /\ AnyModel \notin {b.model : b \in Buildings}
    /\ \A b \in Buildings : b.at \in Places
    /\ MaxRemoved \in Nat

VARIABLES
    m_dwMapIcons,
    checkpoint,     \* m_bCheckpointsEnabled, m_dwCheckpointMarker and the place
    race,           \* the same of the race checkpoint, and m_dwRaceCheckpointHandle
    radar,          \* the game's markers, each at its place
    gates,          \* the game's race checkpoints, likewise
    placed,         \* what the server has put where
    framed,          \* no order about a checkpoint has come since the markers were last updated
    removals,       \* RemoveModelIDs, RemovePos and RemoveRad up to iTotalRemovedObjects
    building,       \* each building: not loaded, standing, sunk below the ground, or replaced
    marksPart       \* what this behaviour is about: "marks" or "buildings"

markVars == <<m_dwMapIcons, checkpoint, race, radar, gates, placed, framed>>
removalVars == <<removals, building>>
worldMarksVars == <<markVars, removalVars, marksPart>>

(* pos is not initialised: Nowhere stands for what it holds then.  Only a  *)
(* race checkpoint that comes first lets a frame read it, as that turns    *)
(* the other one on.                                                       *)
NoCheckpoint == [on |-> FALSE, marker |-> NoMark, pos |-> Nowhere]
NoRace == [on |-> FALSE, marker |-> NoMark, pos |-> Nowhere, gate |-> NoMark]

WorldMarksInit ==
    /\ m_dwMapIcons = [i \in IconIds |-> NoMark]
    /\ checkpoint = NoCheckpoint /\ race = NoRace
    /\ radar = <<>> /\ gates = <<>>
    /\ placed = [icon |-> [i \in IconIds |-> Nowhere], checkpoint |-> Nowhere, race |-> Nowhere,
                 dragged |-> FALSE, early |-> FALSE]
    /\ framed = TRUE
    /\ removals = <<>>
    /\ building = [b \in Buildings |-> "unloaded"]
    /\ marksPart \in {"marks", "buildings"}

-----------------------------------------------------------------------------
(* The game's tables of handles: what exists is the function's domain.     *)

Gone(table, handle) == [h \in DOMAIN table \ {handle} |-> table[h]]
Added(table, handle, place) ==
    [h \in DOMAIN table \cup {handle} |-> IF h = handle THEN place ELSE table[h]]

(* Mutant: an icon that is there is forgotten. *)
SetMapIcon_Forgets(i, m, place) ==
    /\ m \notin DOMAIN radar
    /\ radar' = Added(radar, m, place)
    /\ m_dwMapIcons' = [m_dwMapIcons EXCEPT ![i] = m]
    /\ placed' = [placed EXCEPT !.icon[i] = place]
    /\ UNCHANGED <<checkpoint, race, gates, framed>>

SetMapIcon(i, m, place) ==
    LET before == IF m_dwMapIcons[i] # NoMark THEN Gone(radar, m_dwMapIcons[i]) ELSE radar IN
    /\ m \notin DOMAIN before
    /\ radar' = Added(before, m, place)
    /\ m_dwMapIcons' = [m_dwMapIcons EXCEPT ![i] = m]
    /\ placed' = [placed EXCEPT !.icon[i] = place]
    /\ UNCHANGED <<checkpoint, race, gates, framed>>

(* The handle is not looked at: 0 is nobody's. *)
DisableMapIcon(i) ==
    /\ radar' = Gone(radar, m_dwMapIcons[i])
    /\ m_dwMapIcons' = [m_dwMapIcons EXCEPT ![i] = NoMark]
    /\ placed' = [placed EXCEPT !.icon[i] = Nowhere]
    /\ UNCHANGED <<checkpoint, race, gates, framed>>

(* SetCheckpointInformation and ToggleCheckpoints.  A marker that is there *)
(* is made anew; otherwise the next frame makes it.                        *)
SetCheckpoint(m, place) ==
    LET before == Gone(radar, checkpoint.marker) IN
    /\ m \notin DOMAIN before
    /\ IF checkpoint.marker # NoMark
       THEN /\ radar' = Added(before, m, place)
            /\ checkpoint' = [on |-> TRUE, marker |-> m, pos |-> place]
       ELSE /\ checkpoint' = [checkpoint EXCEPT !.on = TRUE, !.pos = place]
            /\ UNCHANGED radar
    /\ placed' = [placed EXCEPT !.checkpoint = place]
    /\ framed' = FALSE
    /\ UNCHANGED <<m_dwMapIcons, race, gates>>

DisableCheckpoint ==
    /\ checkpoint' = [checkpoint EXCEPT !.on = FALSE]
    /\ placed' = [placed EXCEPT !.checkpoint = Nowhere, !.dragged = FALSE]
    /\ framed' = FALSE
    /\ UNCHANGED <<m_dwMapIcons, race, radar, gates>>

(* SetRaceCheckpointInformation, MakeRaceCheckpoint and then               *)
(* ToggleCheckpoints, which is about the other checkpoint.                 *)
SetRaceCheckpoint(m, g, place) ==
    LET marked == race.marker # NoMark
        before == Gone(radar, race.marker)
        opened == Gone(gates, race.gate)
    IN
    /\ m \notin DOMAIN before /\ g \notin DOMAIN opened
    /\ radar' = IF marked THEN Added(before, m, place) ELSE radar
    /\ gates' = Added(opened, g, place)
    /\ race' = [on |-> TRUE, marker |-> IF marked THEN m ELSE NoMark, pos |-> place, gate |-> g]
    /\ checkpoint' = [checkpoint EXCEPT !.on = TRUE]
    /\ placed' = [placed EXCEPT !.race = place, !.early = FALSE,
                                !.dragged = @ \/ placed.checkpoint = Nowhere]
    /\ framed' = FALSE
    /\ UNCHANGED m_dwMapIcons

DisableRaceCheckpoint ==
    /\ race' = [race EXCEPT !.on = FALSE]
    /\ placed' = [placed EXCEPT !.race = Nowhere, !.early = @ \/ (race.on /\ race.marker = NoMark)]
    /\ framed' = FALSE
    /\ UNCHANGED <<m_dwMapIcons, checkpoint, radar, gates>>

(* UpdateCheckpoints, in every frame in which the player is spawned; m and *)
(* n are the handles new markers get.                                      *)
UpdateCheckpoints(m, n) ==
    LET makes == checkpoint.on /\ checkpoint.marker = NoMark
        first == CASE makes -> Added(radar, m, checkpoint.pos)
                   [] ~checkpoint.on -> Gone(radar, checkpoint.marker)
                   [] OTHER -> radar
        makesRace == race.on /\ race.marker = NoMark
    IN
    /\ makes => m \notin DOMAIN radar
    /\ makesRace => n \notin DOMAIN first
    /\ checkpoint' = [checkpoint EXCEPT !.marker = CASE makes -> m [] ~checkpoint.on -> NoMark [] OTHER -> @]
    /\ radar' = CASE makesRace -> Added(first, n, race.pos)
                  [] ~race.on -> Gone(first, race.marker)
                  [] OTHER -> first
    /\ IF ~race.on /\ race.marker # NoMark
       THEN gates' = Gone(gates, race.gate) /\ race' = [NoRace EXCEPT !.pos = race.pos]
       ELSE /\ UNCHANGED gates
            /\ race' = [race EXCEPT !.marker = IF makesRace THEN n ELSE @]
    /\ framed' = TRUE
    /\ UNCHANGED <<m_dwMapIcons, placed>>

MarksNext ==
    \/ \E i \in IconIds : DisableMapIcon(i) \/ \E m \in Markers, p \in Places : SetMapIcon(i, m, p)
    \/ \E m \in Markers, p \in Places : SetCheckpoint(m, p) \/ \E g \in Gates : SetRaceCheckpoint(m, g, p)
    \/ DisableCheckpoint \/ DisableRaceCheckpoint
    \/ \E m, n \in Markers : UpdateCheckpoints(m, n)

-----------------------------------------------------------------------------
(* Buildings                                                               *)

(* ProcessRemoveBuilding: of the three pools, those it is about are moved  *)
(* 2000 down.                                                              *)
Sinks(b, r) ==
    /\ building[b] = "standing"
    /\ r.model \in {b.model, AnyModel} /\ r.at = b.at

RemoveBuilding(r) ==
    /\ Len(removals) < MaxRemoved
    /\ removals' = Append(removals, r)
    /\ building' = [b \in Buildings |-> IF Sinks(b, r) THEN "sunk" ELSE building[b]]

(* CFileLoader__LoadObjectInstance_hook: model 19300 instead, which shows  *)
(* nothing.  AnyModel is compared like a model.                            *)
TakenAway(b) ==
    \E i \in 1 .. Len(removals) : removals[i].model = b.model /\ removals[i].at = b.at

LoadObjectInstance(b) ==
    /\ building[b] = "unloaded"
    /\ building' = [building EXCEPT ![b] = IF TakenAway(b) THEN "replaced" ELSE "standing"]
    /\ UNCHANGED removals

(* The game drops what is far away. *)
Unload(b) ==
    /\ building[b] # "unloaded"
    /\ building' = [building EXCEPT ![b] = "unloaded"]
    /\ UNCHANGED removals

(* ShutDownForGameRestart: the list is emptied; icons and checkpoints stay. *)
ForgetRemovals == removals' = <<>> /\ UNCHANGED building

BuildingsNext ==
    \/ \E b \in Buildings : LoadObjectInstance(b) \/ Unload(b)
    \/ \E model \in {b.model : b \in Buildings} \cup {AnyModel}, p \in Places :
          RemoveBuilding([model |-> model, at |-> p])
    \/ ForgetRemovals

WorldMarksNext ==
    \/ marksPart = "marks" /\ MarksNext /\ UNCHANGED <<removalVars, marksPart>>
    \/ marksPart = "buildings" /\ BuildingsNext /\ UNCHANGED <<markVars, marksPart>>

-----------------------------------------------------------------------------
(* The radar has a marker for every icon and for what is marked of the     *)
(* checkpoints, each at the place that was ordered last, and no other;     *)
(* once a frame has passed it has those of the checkpoints that are in     *)
(* force.  (A race checkpoint drags the other one along.)  There is a race *)
(* checkpoint in the world for just as long as the server wants one; one   *)
(* that is taken away before a frame has marked it stays until the next.   *)
MarksAsPlaced ==
    LET held == {m_dwMapIcons[i] : i \in IconIds} \cup {checkpoint.marker, race.marker} IN
    /\ DOMAIN radar = held \ {NoMark}
    /\ \A i \in IconIds : /\ (m_dwMapIcons[i] = NoMark) = (placed.icon[i] = Nowhere)
                         /\ m_dwMapIcons[i] # NoMark => radar[m_dwMapIcons[i]] = placed.icon[i]
    /\ framed => /\ (checkpoint.marker # NoMark) = (placed.checkpoint # Nowhere \/ placed.dragged)
                /\ (race.marker # NoMark) = (placed.race # Nowhere)
    /\ placed.checkpoint # Nowhere /\ checkpoint.marker # NoMark
          => radar[checkpoint.marker] = placed.checkpoint
    /\ placed.race # Nowhere =>
          /\ DOMAIN gates = {race.gate} /\ gates[race.gate] = placed.race
          /\ race.marker # NoMark => radar[race.marker] = placed.race
    /\ placed.race = Nowhere /\ framed /\ ~placed.early => DOMAIN gates = {}

(* No building stands that is removed, whether it was there when it was    *)
(* removed or was loaded since; unless it was removed by an order for all  *)
(* models, which the loading takes for none.                               *)
RemovedStayAway ==
    \A b \in Buildings : building[b] = "standing" =>
        ~ \E i \in 1 .. Len(removals) : removals[i].model = b.model /\ removals[i].at = b.at
=============================================================================
