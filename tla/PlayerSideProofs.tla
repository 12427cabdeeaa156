-------------------------- MODULE PlayerSideProofs --------------------------
(***************************************************************************)
(* The players: what the hooks keep apart for any number of ped slots and  *)
(* addresses, how the local player gets into any number of vehicles, how   *)
(* late the server hears of him at any rates, how a remote player's ped    *)
(* follows what is heard of him, what any peds carry, and how texts of any *)
(* length are read and shown.                                              *)
(***************************************************************************)
EXTENDS PlayerSide, FiniteSetTheorems, SequenceTheorems, WellFoundedInduction, TLAPS

States == {"onfoot", "driver", "passenger", "other"}

-----------------------------------------------------------------------------
(* Pushing and popping a hook *)

LEMMA PushFrame ==
    ASSUME NEW s \in Seq(Frames), NEW f \in Frames
    PROVE  /\ <<f>> \o s \in Seq(Frames) /\ <<f>> \o s # << >>
           /\ Len(<<f>> \o s) = Len(s) + 1
           /\ (<<f>> \o s)[1] = f /\ Head(<<f>> \o s) = f
           /\ \A i \in 1 .. Len(s) : (<<f>> \o s)[i + 1] = s[i]
  OBVIOUS

LEMMA OneOrTwo ==
    ASSUME NEW k \in Nat \ {0}, k <= 2
    PROVE  k \in {1, 2}
  OBVIOUS

LEMMA PopFrame ==
    ASSUME NEW s \in Seq(Frames), s # << >>
    PROVE  /\ Tail(s) \in Seq(Frames) /\ Len(s) \in Nat \ {0}
           /\ Len(Tail(s)) = Len(s) - 1
           /\ Head(s) = s[1] /\ s[1] \in Frames
           /\ \A i \in 1 .. Len(Tail(s)) : Tail(s)[i] = s[i + 1]
           /\ Tail(s) # << >> => Head(Tail(s)) = s[2] /\ Len(s) > 1
           /\ Tail(s) = << >> => Len(s) = 1
<1>1. Len(s) \in Nat \ {0}  OBVIOUS
<1>2. Tail(s) \in Seq(Frames) /\ Len(Tail(s)) = Len(s) - 1  OBVIOUS
<1>3. Head(s) = s[1] /\ s[1] \in Frames  BY <1>1
<1>4. \A i \in 1 .. Len(Tail(s)) : Tail(s)[i] = s[i + 1]  OBVIOUS
<1>5. ASSUME Tail(s) # << >> PROVE Head(Tail(s)) = s[2] /\ Len(s) > 1
  <2>1. Len(Tail(s)) # 0  BY <1>2, <1>5
  <2>2. Len(s) > 1  BY <2>1, <1>1, <1>2
  <2>3. Head(Tail(s)) = Tail(s)[1]  BY <1>2, <1>5
  <2>4. QED  BY <2>1, <2>2, <2>3, <1>1, <1>2, <1>4
<1>6. ASSUME Tail(s) = << >> PROVE Len(s) = 1
  <2>0. Len(<< >>) = 0  OBVIOUS
  <2>1. Len(Tail(s)) = 0  BY <2>0, <1>6, Zenon
  <2>2. QED  BY <2>1, <1>1, <1>2
<1>7. QED  BY <1>1, <1>2, <1>3, <1>4, <1>5, <1>6

-----------------------------------------------------------------------------
(* Types *)

LEMMA FindType == ASSUME NEW a PROVE FindPlayerNum(a) \in Numbers
  BY DEF FindPlayerNum, Numbers

LEMMA SetKeysType ==
    ASSUME TypeOK, NEW s \in Slots, NEW jump \in BOOLEAN, SetKeys(s, jump)
    PROVE  keys' \in [Slots -> Pad]
<1>1. keys[s] \in Pad  BY DEF TypeOK
<1>2. [jump |-> jump, ignoreJump |-> keys[s].ignoreJump /\ jump] \in Pad
  BY <1>1 DEF Pad
<1>3. QED  BY <1>2 DEF SetKeys, TypeOK

LEMMA InitType == Init => TypeOK
<1>1. Local \in Numbers /\ Slots \subseteq Numbers  BY DEF Numbers
<1>2. NoKeys \in Pad  BY DEF NoKeys, Pad
<1>3. [aim |-> Local, zoom |-> Local, mode |-> Local, mode2 |-> Local, focus |-> Local] \in View
  BY <1>1 DEF View
<1>4. << >> \in Seq(Frames) /\ Len(<< >>) <= 2  OBVIOUS
<1>5. Init => dwPlayerPedPtrs \in [Numbers -> Addrs \cup {LocalPed, Null}]
  BY DEF Init
<1>6. ASSUME Init
      PROVE  /\ pedOf \in [Slots -> Addrs \cup {Null}] /\ keys \in [Slots -> Pad]
             /\ state \in [Slots -> States]
             /\ reported \in [Slots -> BOOLEAN] /\ shot \in [Slots -> BOOLEAN]
             /\ owed \in [Slots -> BOOLEAN] /\ aims \in [Slots -> Numbers]
  BY <1>1, <1>2, <1>6 DEF Init, States
<1>7. Init => {savedAim, savedZoom, byteCurPlayer, byteCurDriver} \subseteq Numbers /\ view \in View
  BY <1>1, <1>3 DEF Init
<1>8. QED  BY <1>4, <1>5, <1>6, <1>7 DEF Init, TypeOK, States

LEMMA NetworkType ==
    ASSUME TypeOK, NEW s \in Slots, Network(s)
    PROVE  TypeOK'
<1> USE DEF TypeOK, Between
<1>0. NoKeys \in Pad /\ s \in Numbers /\ FALSE \in BOOLEAN
  BY DEF NoKeys, Pad, Numbers
<1>1. CASE \E a \in Addrs : NewPed(s, a)
  <2>1. PICK a \in Addrs : NewPed(s, a)  BY <1>1
  <2>2. PICK b \in BOOLEAN : shot' = [shot EXCEPT ![s] = b]  BY <2>1 DEF NewPed, May
  <2>3. shot' \in [Slots -> BOOLEAN] /\ owed' \in [Slots -> BOOLEAN]  BY <2>1, <2>2 DEF NewPed
  <2>4. /\ dwPlayerPedPtrs' \in [Numbers -> Addrs \cup {LocalPed, Null}]
        /\ pedOf' \in [Slots -> Addrs \cup {Null}] /\ keys' \in [Slots -> Pad]
    BY <1>0, <2>1 DEF NewPed
  <2>5. QED  BY <2>1, <2>3, <2>4 DEF NewPed
<1>2. CASE Destroy(s)  BY <1>0, <1>2 DEF Destroy
<1>3. CASE \E jump \in Keyed(s) : OnFootSync(s, jump) \/ InCarSync(s, jump)
  <2>1. PICK jump \in BOOLEAN : OnFootSync(s, jump) \/ InCarSync(s, jump)  BY <1>3 DEF Keyed
  <2>2. (owed[s] \/ (jump /\ ~reported[s])) \in BOOLEAN  OBVIOUS
  <2>3. reported' \in [Slots -> BOOLEAN] /\ owed' \in [Slots -> BOOLEAN]
    BY <2>1, <2>2 DEF OnFootSync, InCarSync
  <2>4. state' \in [Slots -> {"onfoot", "driver", "passenger", "other"}]
    BY <2>1 DEF OnFootSync, InCarSync
  <2>5. QED  BY <2>1, <2>3, <2>4 DEF OnFootSync, InCarSync, peds
<1>4. CASE s \in Active /\ PassengerSync(s)  BY <1>4 DEF PassengerSync, peds
<1>5. CASE UpdateAimFromSyncData(s)  BY <1>0, <1>5 DEF UpdateAimFromSyncData, peds
<1>6. CASE WeaponShot(s)  BY <1>6 DEF WeaponShot, peds
<1>7. CASE EnterOrExit(s)
  <2>1. keys' \in [Slots -> Pad]  BY <1>7, SetKeysType DEF EnterOrExit
  <2>2. QED  BY <1>7, <2>1 DEF EnterOrExit, peds, packets
<1>8. CASE HandleDeath(s)
  <2>1. keys' \in [Slots -> Pad]  BY <1>8, SetKeysType DEF HandleDeath
  <2>2. view' \in View  BY <1>8 DEF HandleDeath, View, Numbers
  <2>3. QED  BY <1>8, <2>1, <2>2 DEF HandleDeath, peds
<1>9. QED
  BY <1>1, <1>2, <1>3, <1>4, <1>5, <1>6, <1>7, <1>8 DEF Network

LEMMA ProcessType ==
    ASSUME TypeOK, NEW s \in Slots, Process(s)
    PROVE  TypeOK'
<1>0. reported[s] \in BOOLEAN /\ view.aim \in Numbers  BY DEF TypeOK, View
<1>1. keys' \in [Slots -> Pad]
  BY <1>0, SetKeysType DEF Process, ProcessOnFoot, ProcessDriver, ProcessOther
<1> USE DEF TypeOK, Between
<1>2. CASE ProcessOnFoot(s)  BY <1>0, <1>1, <1>2 DEF ProcessOnFoot, peds
<1>3. CASE ProcessDriver(s)  BY <1>1, <1>3 DEF ProcessDriver, peds, packets
<1>4. CASE ProcessOther(s)  BY <1>1, <1>4 DEF ProcessOther, peds, packets
<1>5. QED  BY <1>2, <1>3, <1>4 DEF Process

LEMMA FrameType ==
    ASSUME TypeOK, NEW hook \in {"ped", "gun", "vehicle"},
           NEW n \in Present \cup {NoDriver}, NEW found \in Numbers
    PROVE  [hook |-> hook, of |-> n, found |-> found,
            mode |-> view.mode, mode2 |-> view.mode2] \in Frames
<1>1. n \in Numbers \cup {Actor, NoDriver}  BY DEF Present, Numbers
<1>2. view.mode \in Numbers /\ view.mode2 \in Numbers  BY DEF TypeOK, View
<1>3. QED  BY <1>1, <1>2 DEF Frames

LEMMA PutInType ==
    ASSUME TypeOK, NEW n \in Numbers, n # Local, PutIn(n)
    PROVE  view' \in View /\ savedAim' \in Numbers /\ savedZoom' \in Numbers
<1>1. n \in Slots /\ aims[n] \in Numbers  BY DEF TypeOK, Numbers
<1>2. QED  BY <1>1 DEF PutIn, TypeOK, View

LEMMA BeginType ==
    ASSUME TypeOK, NEW hook \in {"ped", "gun"}, NEW n \in Present,
           Len(stack) <= 1, Begin(hook, n), muddled' \in BOOLEAN
    PROVE  TypeOK'
<1> DEFINE found == FindPlayerNum(PedOf(n))
           frame == [hook |-> hook, of |-> n, found |-> found,
                     mode |-> view.mode, mode2 |-> view.mode2]
<1>1. found \in Numbers  BY FindType
<1>2. frame \in Frames  BY <1>1, FrameType
<1>3. stack' = <<frame>> \o stack /\ byteCurPlayer' = found  BY DEF Begin
<1>4. stack' \in Seq(Frames) /\ Len(stack') <= 2  BY <1>2, <1>3, PushFrame DEF TypeOK
<1>5. view' \in View /\ savedAim' \in Numbers /\ savedZoom' \in Numbers
  <2>1. CASE found # Local  BY <1>1, <2>1, PutInType DEF Begin
  <2>2. CASE found = Local  BY <2>2 DEF Begin, TypeOK
  <2>3. QED  BY <2>1, <2>2
<1>6. QED  BY <1>1, <1>3, <1>4, <1>5 DEF TypeOK, Begin, peds, packets

LEMMA GameType ==
    ASSUME TypeOK, Game
    PROVE  TypeOK'
<1>1. CASE \E n \in Present : CPed__ProcessControl_hook(n)
  BY <1>1, BeginType DEF CPed__ProcessControl_hook, TypeOK
<1>2. CASE \E n \in Present : TaskUseGun(n)
  <2>1. PICK n \in Present : TaskUseGun(n)  BY <1>2
  <2>2. Len(stack) <= 1 /\ Begin("gun", n)  BY <2>1 DEF TaskUseGun
  <2>3. (muddled \/ (stack # << >> /\ n \in Slots)) \in BOOLEAN  OBVIOUS
  <2>4. muddled' \in BOOLEAN  BY <2>1, <2>3 DEF TaskUseGun
  <2>5. QED  BY <2>2, <2>4, BeginType
<1>3. CASE \E n \in Present \cup {NoDriver} : AllVehicles__ProcessControl_hook(n)
  <2>1. PICK n \in Present \cup {NoDriver} : AllVehicles__ProcessControl_hook(n)  BY <1>3
  <2>2. Local \in Numbers  BY DEF Numbers
  <2>3. stack' \in Seq(Frames) /\ Len(stack') <= 2
    BY <2>1, <2>2, FrameType DEF AllVehicles__ProcessControl_hook
  <2>4. byteCurDriver' \in Numbers
    BY <2>1, FindType DEF AllVehicles__ProcessControl_hook, TypeOK
  <2>5. QED  BY <2>1, <2>3, <2>4 DEF AllVehicles__ProcessControl_hook, TypeOK, peds, packets
<1>4. CASE Return
  <2>1. stack[1] \in Frames /\ Head(stack) = stack[1] /\ stack' \in Seq(Frames) /\ Len(stack') <= 2
    BY <1>4, PopFrame DEF Return, TypeOK
  <2>2. view' \in View  BY <1>4, <2>1 DEF Return, TypeOK, View, Frames, Numbers
  <2>3. QED  BY <1>4, <2>1, <2>2 DEF Return, TypeOK, peds, packets
<1>5. CASE CPad__JumpJustDown_hook
  <2>1. byteCurPlayer \in Slots  BY <1>5 DEF CPad__JumpJustDown_hook, TypeOK, Numbers
  <2>2. keys' \in [Slots -> Pad]  BY <1>5, <2>1 DEF CPad__JumpJustDown_hook, TypeOK, Pad
  <2>3. QED  BY <1>5, <2>2 DEF CPad__JumpJustDown_hook, TypeOK, peds, packets, context
<1>6. CASE CameraLooks
  BY <1>6 DEF CameraLooks, TypeOK, View, Numbers, peds, packets
<1>7. QED  BY <1>1, <1>2, <1>3, <1>4, <1>5, <1>6 DEF Game

LEMMA NextType == TypeOK /\ [Next]_vars => TypeOK'
<1> SUFFICES ASSUME TypeOK, [Next]_vars PROVE TypeOK'  OBVIOUS
<1>1. CASE \E s \in Slots : Network(s) \/ Process(s)  BY <1>1, NetworkType, ProcessType
<1>2. CASE Game  BY <1>2, GameType
<1>3. CASE UNCHANGED vars  BY <1>3 DEF vars, peds, packets, context, TypeOK
<1>4. QED  BY <1>1, <1>2, <1>3 DEF Next

(* Every variable of the hooks and of the reported keys has its type. *)
THEOREM TypeCorrect == Spec => []TypeOK
<1>1. QED  BY InitType, NextType, PTL DEF Spec

-----------------------------------------------------------------------------
(* Whose keys *)

(* The records name each player's ped, and no two peds share an address. *)
Records ==
    /\ dwPlayerPedPtrs[Local] = LocalPed
    /\ \A s \in Slots : dwPlayerPedPtrs[s] = pedOf[s]
    /\ \A s, t \in Slots : s # t /\ HasPed(s) => pedOf[s] # pedOf[t]

(* A hook found the player of what it processes; only a gun is nested, in  *)
(* the hook of its own ped.                                                *)
Nested ==
    /\ \A i \in 1 .. Len(stack) :
           /\ stack[i].hook # "vehicle" =>
                  stack[i].of \in Present /\ stack[i].found = Owner(stack[i].of)
           /\ stack[i].hook = "vehicle" => stack[i].found = Local /\ Len(stack) = 1
    /\ Len(stack) = 2 =>
           stack[1].hook = "gun" /\ stack[2].hook = "ped" /\ stack[1].of = stack[2].of

Current ==
    stack # << >> =>
        /\ stack[1].hook # "vehicle" => byteCurPlayer = stack[1].found
        /\ stack[1].hook = "vehicle" /\ stack[1].of # NoDriver =>
               byteCurDriver = Owner(stack[1].of)

KeysInv == TypeOK /\ Records /\ Nested /\ Current

LEMMA FindOwner ==
    ASSUME TypeOK, Records, NEW n \in Present
    PROVE  FindPlayerNum(PedOf(n)) = Owner(n)
<1> DEFINE a == PedOf(n)
<1>0. Local # Actor /\ Actor \notin Slots /\ Local \notin Slots
  BY ContextAssumption DEF Local, Actor, Slots
<1>1. \A m \in Numbers : dwPlayerPedPtrs[m] \in Addrs \cup {LocalPed, Null}  BY DEF TypeOK
<1>2. \A s \in Slots : pedOf[s] \in Addrs \cup {Null}  BY DEF TypeOK
<1>3. CASE n = Actor
  <2>1. a = ActorPed  BY <1>0, <1>3 DEF PedOf
  <2>2. \A m \in Numbers : dwPlayerPedPtrs[m] # a  BY <1>1, <2>1, ContextAssumption
  <2>3. QED  BY <2>2, <1>3 DEF FindPlayerNum, Owner
<1>4. CASE n = Local
  <2>0. a = LocalPed  BY <1>0, <1>4 DEF PedOf
  <2>1. a = LocalPed /\ Local \in Numbers /\ dwPlayerPedPtrs[Local] = a
    BY <2>0 DEF Numbers, Records
  <2>2. \A s \in Slots : dwPlayerPedPtrs[s] # a  BY <1>2, <2>1, ContextAssumption DEF Records
  <2>3. \A m \in Numbers : dwPlayerPedPtrs[m] = a <=> m = Local  BY <2>1, <2>2 DEF Numbers
  <2>4. Local <= Local  BY DEF Local
  <2>5. FindPlayerNum(a) = CHOOSE m \in Numbers : /\ dwPlayerPedPtrs[m] = a
                                                 /\ \A k \in Numbers : dwPlayerPedPtrs[k] = a => m <= k
    BY <2>1 DEF FindPlayerNum
  <2>6. FindPlayerNum(a) = Local  BY <2>1, <2>3, <2>4, <2>5
  <2>7. QED  BY <2>6, <1>0, <1>4 DEF Owner
<1>5. CASE n \in Slots /\ HasPed(n)
  <2>1. a = pedOf[n] /\ a \in Addrs /\ n \in Numbers /\ dwPlayerPedPtrs[n] = a
    BY <1>0, <1>2, <1>5 DEF PedOf, Numbers, Records, HasPed
  <2>2. \A s \in Slots : dwPlayerPedPtrs[s] = a => s = n  BY <2>1, <1>5 DEF Records
  <2>3. dwPlayerPedPtrs[Local] # a  BY <2>1, ContextAssumption DEF Records
  <2>4. \A m \in Numbers : dwPlayerPedPtrs[m] = a <=> m = n  BY <2>1, <2>2, <2>3 DEF Numbers
  <2>5. n <= n  BY <1>5 DEF Slots
  <2>6. FindPlayerNum(a) = CHOOSE m \in Numbers : /\ dwPlayerPedPtrs[m] = a
                                                 /\ \A k \in Numbers : dwPlayerPedPtrs[k] = a => m <= k
    BY <2>1 DEF FindPlayerNum
  <2>7. FindPlayerNum(a) = n  BY <2>1, <2>4, <2>5, <2>6
  <2>8. QED  BY <2>7, <1>0, <1>5 DEF Owner
<1>6. QED  BY <1>3, <1>4, <1>5 DEF Present

(* A packet, a call or a turn of the player comes between the hooks, and   *)
(* only creating and destroying a ped changes the records.                 *)
LEMMA BetweenKeys ==
    ASSUME KeysInv, NEW s \in Slots, Network(s) \/ Process(s)
    PROVE  Records' /\ Nested' /\ Current'
<1>1. stack = << >> /\ stack' = << >>
  BY DEF Network, Process, NewPed, Destroy, OnFootSync, InCarSync, PassengerSync,
         UpdateAimFromSyncData, WeaponShot, EnterOrExit, HandleDeath, ProcessOnFoot,
         ProcessDriver, ProcessOther, Between
<1>2. Nested' /\ Current'  BY <1>1 DEF Nested, Current
<1>3. s \in Numbers /\ Local # s /\ Local \in Numbers  BY DEF Numbers, Slots, Local
<1>4. CASE \E a \in Addrs : NewPed(s, a)
  <2>1. PICK a \in Addrs : NewPed(s, a)  BY <1>4
  <2>2. /\ dwPlayerPedPtrs' = [dwPlayerPedPtrs EXCEPT ![s] = a]
        /\ pedOf' = [pedOf EXCEPT ![s] = a]
        /\ \A t \in Slots : pedOf[t] # a
    BY <2>1 DEF NewPed
  <2>3. \A t \in Slots : t \in Numbers  BY DEF Numbers
  <2>4. QED  BY <1>2, <1>3, <2>2, <2>3 DEF KeysInv, TypeOK, Records, HasPed
<1>5. CASE Destroy(s)
  <2>1. /\ dwPlayerPedPtrs' = [dwPlayerPedPtrs EXCEPT ![s] = Null]
        /\ pedOf' = [pedOf EXCEPT ![s] = Null]
    BY <1>5 DEF Destroy
  <2>2. \A t \in Slots : t \in Numbers  BY DEF Numbers
  <2>3. QED  BY <1>2, <1>3, <2>1, <2>2 DEF KeysInv, TypeOK, Records, HasPed
<1>6. CASE UNCHANGED peds  BY <1>2, <1>6 DEF KeysInv, Records, HasPed, peds
<1>7. QED
  BY <1>4, <1>5, <1>6
  DEF Network, Process, OnFootSync, InCarSync, PassengerSync, UpdateAimFromSyncData,
      WeaponShot, EnterOrExit, HandleDeath, ProcessOnFoot, ProcessDriver, ProcessOther

LEMMA BeginKeys ==
    ASSUME KeysInv, NEW hook \in {"ped", "gun"}, NEW n \in Present, Begin(hook, n),
           \/ stack = << >>
           \/ hook = "gun" /\ Len(stack) = 1 /\ stack[1].hook = "ped" /\ stack[1].of = n
    PROVE  Nested' /\ Current'
<1> DEFINE frame == [hook |-> hook, of |-> n, found |-> Owner(n),
                     mode |-> view.mode, mode2 |-> view.mode2]
<1>1. FindPlayerNum(PedOf(n)) = Owner(n)  BY FindOwner DEF KeysInv
<1>2. stack' = <<frame>> \o stack /\ byteCurPlayer' = Owner(n) /\ UNCHANGED pedOf
  BY <1>1 DEF Begin, peds
<1>3. Owner(n) \in Numbers  BY <1>1, FindType
<1>4. frame \in Frames  BY <1>3, FrameType DEF KeysInv
<1>5. /\ stack' # << >> /\ Len(stack') = Len(stack) + 1 /\ stack'[1] = frame
      /\ \A i \in 1 .. Len(stack) : stack'[i + 1] = stack[i]
  BY <1>2, <1>4, PushFrame DEF KeysInv, TypeOK
<1>6. Current'  BY <1>2, <1>5 DEF Current
<1>7. Present' = Present  BY <1>2 DEF Present, HasPed
<1>8. CASE stack = << >>
  <2>1. Len(stack') = 1  BY <1>5, <1>8
  <2>2. QED  BY <1>5, <1>6, <1>7, <2>1 DEF Nested
<1>9. CASE hook = "gun" /\ Len(stack) = 1 /\ stack[1].hook = "ped" /\ stack[1].of = n
  <2>1. Len(stack') = 2 /\ stack'[2] = stack[1] /\ \A i \in 1 .. 2 : i = 1 \/ i = 2
    BY <1>5, <1>9
  <2>2. stack[1].of \in Present /\ stack[1].found = Owner(stack[1].of)
    BY <1>9 DEF KeysInv, Nested
  <2>3. QED  BY <1>5, <1>6, <1>7, <1>9, <2>1, <2>2 DEF Nested
<1>10. QED  BY <1>8, <1>9

LEMMA GameKeys ==
    ASSUME KeysInv, Game
    PROVE  Records' /\ Nested' /\ Current'
<1>1. UNCHANGED peds
  BY DEF Game, CPed__ProcessControl_hook, TaskUseGun, Begin, AllVehicles__ProcessControl_hook,
         Return, CPad__JumpJustDown_hook, CameraLooks
<1>2. Records' /\ Present' = Present
  BY <1>1 DEF KeysInv, Records, HasPed, peds, Present
<1>3. CASE \E n \in Present : CPed__ProcessControl_hook(n)
  BY <1>2, <1>3, BeginKeys DEF CPed__ProcessControl_hook
<1>4. CASE \E n \in Present : TaskUseGun(n)
  <2>1. PICK n \in Present : TaskUseGun(n)  BY <1>4
  <2>2. Len(stack) = 1 => Head(stack) = stack[1]  OBVIOUS
  <2>3. QED  BY <1>2, <2>1, <2>2, BeginKeys DEF TaskUseGun
<1>5. CASE \E n \in Present \cup {NoDriver} : AllVehicles__ProcessControl_hook(n)
  <2>1. PICK n \in Present \cup {NoDriver} : AllVehicles__ProcessControl_hook(n)  BY <1>5
  <2>2. n # NoDriver => FindPlayerNum(PedOf(n)) = Owner(n)  BY <2>1, FindOwner DEF KeysInv
  <2>3. /\ Len(stack') = 1 /\ stack'[1].hook = "vehicle" /\ stack'[1].of = n
        /\ stack'[1].found = Local
        /\ n # NoDriver => byteCurDriver' = Owner(n)
    BY <2>1, <2>2 DEF AllVehicles__ProcessControl_hook
  <2>4. QED  BY <1>2, <2>3 DEF Nested, Current
<1>6. CASE Return
  <2>1. stack # << >> /\ stack' = Tail(stack) /\ UNCHANGED <<byteCurPlayer, byteCurDriver>>
    BY <1>6 DEF Return
  <2>2. /\ Len(stack) \in {1, 2} /\ Len(stack') = Len(stack) - 1
        /\ \A i \in 1 .. Len(stack') : stack'[i] = stack[i + 1]
        /\ stack' # << >> => Len(stack) > 1
    <3>1. stack \in Seq(Frames) /\ Len(stack) <= 2  BY DEF KeysInv, TypeOK
    <3>0. Len(stack) \in Nat \ {0}  BY <2>1, <3>1, PopFrame
    <3>2. Len(stack) \in {1, 2}  BY <3>0, <3>1, OneOrTwo
    <3>3. QED  BY <2>1, <3>1, <3>2, PopFrame
  <2>3. CASE Len(stack) = 1  BY <1>2, <2>2, <2>3 DEF Nested, Current
  <2>4. CASE Len(stack) = 2
    <3>1. Len(stack') = 1 /\ stack'[1] = stack[2] /\ stack[2].hook = "ped"
      BY <2>2, <2>4 DEF KeysInv, Nested
    <3>2. /\ stack[2].of \in Present /\ stack[2].found = Owner(stack[2].of)
          /\ stack[1].found = Owner(stack[1].of) /\ stack[1].of = stack[2].of
          /\ byteCurPlayer = stack[1].found
      BY <2>1, <2>4 DEF KeysInv, Nested, Current
    <3>3. \A i \in 1 .. Len(stack') : i = 1  BY <3>1
    <3>4. Nested'  BY <1>2, <3>1, <3>2, <3>3 DEF Nested
    <3>5. Current'  BY <2>1, <3>1, <3>2 DEF Current
    <3>6. QED  BY <1>2, <3>4, <3>5
  <2>5. QED  BY <2>2, <2>3, <2>4
<1>7. CASE CPad__JumpJustDown_hook
  BY <1>2, <1>7 DEF CPad__JumpJustDown_hook, context, KeysInv, Nested, Current
<1>8. CASE CameraLooks
  BY <1>2, <1>8 DEF CameraLooks, KeysInv, Nested, Current
<1>9. QED  BY <1>3, <1>4, <1>5, <1>6, <1>7, <1>8 DEF Game

LEMMA InitKeys == Init => KeysInv
<1> SUFFICES ASSUME Init PROVE KeysInv  OBVIOUS
<1>1. TypeOK  BY InitType
<1>2. \A s \in Slots : s \in Numbers /\ s # Local  BY DEF Numbers, Slots, Local
<1>3. Records  BY <1>2 DEF Init, Records, HasPed, Numbers
<1>4. Nested /\ Current  BY DEF Init, Nested, Current
<1>5. QED  BY <1>1, <1>3, <1>4 DEF KeysInv

LEMMA NextKeys == KeysInv /\ [Next]_vars => KeysInv'
<1> SUFFICES ASSUME KeysInv, [Next]_vars PROVE KeysInv'  OBVIOUS
<1>1. TypeOK'  BY NextType DEF KeysInv
<1>2. CASE \E s \in Slots : Network(s) \/ Process(s)  BY <1>1, <1>2, BetweenKeys DEF KeysInv
<1>3. CASE Game  BY <1>1, <1>3, GameKeys DEF KeysInv
<1>4. CASE UNCHANGED vars
  BY <1>1, <1>4 DEF vars, peds, packets, context, KeysInv, Records, Nested, Current, HasPed, Present
<1>5. QED  BY <1>2, <1>3, <1>4 DEF Next

(* Whatever address the heap gives a ped and however often slots change    *)
(* hands, the hooks find the player whose ped, gun or vehicle it is.       *)
THEOREM KeysAreOwn == Spec => []OwnKeys
<1>1. KeysInv => OwnKeys
  <2> SUFFICES ASSUME KeysInv, stack # << >> PROVE OwnKeys  BY DEF OwnKeys
  <2>1. Head(stack) = stack[1] /\ stack[1] \in Frames /\ 1 \in 1 .. Len(stack)
    BY PopFrame DEF KeysInv, TypeOK
  <2>2. QED  BY <2>1 DEF KeysInv, Nested, Current, OwnKeys, Frames
<1>2. QED  BY <1>1, InitKeys, NextKeys, PTL DEF Spec

-----------------------------------------------------------------------------
(* What the camera shows *)

Shows(n) == view.focus = n /\ view.mode = n /\ view.mode2 = n
AimsOwn(n) == view.zoom = n /\ view.aim = IF n = Local THEN Local ELSE aims[n]

(* The outermost hook saved the local modes, and unless a gun was nested   *)
(* the local aim too; a nested gun of another player leaves its mark.      *)
Saved ==
    /\ stack = << >> => Shows(Local) /\ (~muddled => AimsOwn(Local))
    /\ Len(stack) = 1 =>
           /\ stack[1].mode = Local /\ stack[1].mode2 = Local
           /\ stack[1].found = Local => Shows(Local)
           /\ ~muddled =>
                  /\ Shows(stack[1].found) /\ AimsOwn(stack[1].found)
                  /\ stack[1].found # Local => savedAim = Local /\ savedZoom = Local
    /\ Len(stack) = 2 =>
           /\ stack[2].mode = Local /\ stack[2].mode2 = Local
           /\ stack[1].found = Local => Shows(Local)
           /\ ~muddled => stack[1].found = Local /\ AimsOwn(Local)

ViewInv == KeysInv /\ Saved

LEMMA BetweenView ==
    ASSUME ViewInv, NEW s \in Slots, Network(s) \/ Process(s)
    PROVE  Saved'
<1>1. stack = << >> /\ stack' = << >> /\ muddled' = muddled
  BY DEF Network, Process, NewPed, Destroy, OnFootSync, InCarSync, PassengerSync,
         UpdateAimFromSyncData, WeaponShot, EnterOrExit, HandleDeath, ProcessOnFoot,
         ProcessDriver, ProcessOther, Between
<1>2. view' = view \/ view' = [view EXCEPT !.focus = Local]
  BY DEF Network, Process, NewPed, Destroy, OnFootSync, InCarSync, PassengerSync,
         UpdateAimFromSyncData, WeaponShot, EnterOrExit, HandleDeath, ProcessOnFoot,
         ProcessDriver, ProcessOther
<1>3. Shows(Local) /\ (~muddled => view.zoom = Local /\ view.aim = Local) /\ view \in View
  BY <1>1 DEF ViewInv, KeysInv, TypeOK, Saved, AimsOwn
<1>4. Shows(Local)' /\ (~muddled => view'.zoom = Local /\ view'.aim = Local)
  BY <1>2, <1>3 DEF View, Shows
<1>5. Len(stack') = 0  BY <1>1
<1>6. QED  BY <1>1, <1>4, <1>5 DEF Saved, AimsOwn

LEMMA BeginView ==
    ASSUME ViewInv, NEW hook \in {"ped", "gun"}, NEW n \in Present, Begin(hook, n),
           \/ stack = << >> /\ muddled' = muddled
           \/ /\ hook = "gun" /\ Len(stack) = 1 /\ stack[1].hook = "ped" /\ stack[1].of = n
              /\ muddled' = (muddled \/ n \in Slots)
    PROVE  Saved'
<1> DEFINE m == Owner(n)
           frame == [hook |-> hook, of |-> n, found |-> m,
                     mode |-> view.mode, mode2 |-> view.mode2]
<1>1. FindPlayerNum(PedOf(n)) = m  BY FindOwner DEF ViewInv, KeysInv
<1>2. /\ stack' = <<frame>> \o stack /\ aims' = aims
      /\ m # Local => PutIn(m)
      /\ m = Local => UNCHANGED <<view, savedAim, savedZoom>>
  BY <1>1 DEF Begin, packets
<1>3. m \in Numbers /\ (m # Local => n \in Slots /\ m = n)
  BY <1>1, FindType DEF Owner, Present
<1>4. frame \in Frames  BY <1>3, FrameType DEF ViewInv, KeysInv
<1>5. /\ stack' # << >> /\ Len(stack') = Len(stack) + 1 /\ stack'[1] = frame
      /\ \A i \in 1 .. Len(stack) : stack'[i + 1] = stack[i]
  BY <1>2, <1>4, PushFrame DEF ViewInv, KeysInv, TypeOK
<1>6. m # Local => Shows(m)' /\ AimsOwn(m)' /\ savedAim' = view.aim /\ savedZoom' = view.zoom
  BY <1>2, <1>3 DEF PutIn, Shows, AimsOwn, View
<1>7. m = Local => (Shows(m) => Shows(m)') /\ (AimsOwn(m) => AimsOwn(m)')
  BY <1>2 DEF Shows, AimsOwn
<1>8. CASE stack = << >> /\ muddled' = muddled
  <2>1. Len(stack') = 1  BY <1>5, <1>8
  <2>2. Shows(Local) /\ (~muddled => AimsOwn(Local))  BY <1>8 DEF ViewInv, Saved
  <2>3. stack'[1].mode = Local /\ stack'[1].mode2 = Local /\ stack'[1].found = m
    BY <1>5, <2>2 DEF Shows
  <2>4. ~muddled' => Shows(m)' /\ AimsOwn(m)'  BY <1>6, <1>7, <1>8, <2>2
  <2>5. ~muddled' /\ m # Local => savedAim' = Local /\ savedZoom' = Local
    BY <1>6, <1>8, <2>2 DEF AimsOwn
  <2>6. m = Local => Shows(Local)'  BY <1>7, <2>2
  <2>7. QED  BY <1>5, <2>1, <2>3, <2>4, <2>5, <2>6 DEF Saved
<1>9. CASE /\ hook = "gun" /\ Len(stack) = 1 /\ stack[1].hook = "ped" /\ stack[1].of = n
           /\ muddled' = (muddled \/ n \in Slots)
  <2>1. Len(stack') = 2 /\ stack'[2] = stack[1]  BY <1>5, <1>9
  <2>2. stack[1].found = m  BY <1>9 DEF ViewInv, KeysInv, Nested
  <2>3. /\ stack[1].mode = Local /\ stack[1].mode2 = Local
        /\ m = Local => Shows(Local)
        /\ ~muddled => AimsOwn(m)
    BY <1>9, <2>2 DEF ViewInv, Saved
  <2>4. ~muddled' => m = Local /\ ~muddled  BY <1>3, <1>9
  <2>5. QED  BY <1>5, <1>7, <2>1, <2>3, <2>4 DEF Saved
<1>10. QED  BY <1>8, <1>9

LEMMA GameView ==
    ASSUME ViewInv, Game
    PROVE  Saved'
<1>1. CASE \E n \in Present : CPed__ProcessControl_hook(n)
  <2>1. PICK n \in Present : CPed__ProcessControl_hook(n)  BY <1>1
  <2>2. stack = << >> /\ Begin("ped", n) /\ muddled' = muddled
    BY <2>1 DEF CPed__ProcessControl_hook
  <2>3. QED  BY <2>2, BeginView
<1>2. CASE \E n \in Present : TaskUseGun(n)
  <2>1. PICK n \in Present : TaskUseGun(n)  BY <1>2
  <2>2. Len(stack) = 1 => Head(stack) = stack[1] /\ stack # << >>  OBVIOUS
  <2>3. /\ Begin("gun", n) /\ muddled \in BOOLEAN
        /\ muddled' = (muddled \/ (stack # << >> /\ n \in Slots))
        /\ stack = << >> \/ (Len(stack) = 1 /\ Head(stack).hook = "ped" /\ Head(stack).of = n)
    BY <2>1 DEF TaskUseGun, ViewInv, KeysInv, TypeOK
  <2>4. CASE stack = << >>
    <3>1. muddled' = muddled  BY <2>3, <2>4, Zenon
    <3>2. QED  BY <2>3, <2>4, <3>1, BeginView
  <2>5. CASE stack # << >>
    <3>1. muddled' = (muddled \/ n \in Slots)  BY <2>3, <2>5, Zenon
    <3>2. QED  BY <2>2, <2>3, <2>5, <3>1, BeginView
  <2>6. QED  BY <2>4, <2>5
<1>3. CASE \E n \in Present \cup {NoDriver} : AllVehicles__ProcessControl_hook(n)
  <2>1. PICK n \in Present \cup {NoDriver} : AllVehicles__ProcessControl_hook(n)  BY <1>3
  <2>2. /\ stack = << >> /\ UNCHANGED <<view, muddled, aims>>
        /\ Len(stack') = 1 /\ stack' # << >> /\ stack'[1].found = Local
        /\ stack'[1].mode = view.mode /\ stack'[1].mode2 = view.mode2
    BY <2>1 DEF AllVehicles__ProcessControl_hook, packets
  <2>3. Shows(Local) /\ (~muddled => AimsOwn(Local))  BY <2>2 DEF ViewInv, Saved
  <2>4. Shows(Local)' /\ (~muddled' => AimsOwn(Local)')  BY <2>2, <2>3 DEF Shows, AimsOwn
  <2>5. QED  BY <2>2, <2>3, <2>4 DEF Saved, Shows
<1>4. CASE Return
  <2>1. /\ stack # << >> /\ stack' = Tail(stack) /\ UNCHANGED <<savedAim, savedZoom, muddled, aims>>
        /\ stack \in Seq(Frames) /\ Len(stack) <= 2
    BY <1>4 DEF Return, ViewInv, KeysInv, TypeOK, packets
  <2>2. Len(stack) \in Nat \ {0}  BY <2>1, PopFrame
  <2>3. /\ Len(stack) \in {1, 2} /\ Len(stack') = Len(stack) - 1
        /\ \A i \in 1 .. Len(stack') : stack'[i] = stack[i + 1]
        /\ Head(stack) = stack[1]
        /\ stack' # << >> => Len(stack) > 1
        /\ stack' = << >> => Len(stack) = 1
    BY <2>1, <2>2, OneOrTwo, PopFrame
  <2>4. /\ stack[1].found = Local => view' = view
        /\ stack[1].found # Local =>
               view' = [aim |-> savedAim, zoom |-> savedZoom, focus |-> Local,
                        mode |-> stack[1].mode, mode2 |-> stack[1].mode2]
    BY <1>4, <2>3 DEF Return
  <2>5. CASE Len(stack) = 1
    <3>1. stack' = << >> /\ Len(stack') = 0  BY <2>3, <2>5
    <3>2. /\ stack[1].mode = Local /\ stack[1].mode2 = Local
          /\ stack[1].found = Local => Shows(Local) /\ (~muddled => AimsOwn(Local))
          /\ ~muddled /\ stack[1].found # Local => savedAim = Local /\ savedZoom = Local
      BY <2>5 DEF ViewInv, Saved
    <3>3. Shows(Local)'  BY <2>4, <3>2 DEF Shows
    <3>4. ~muddled' => AimsOwn(Local)'  BY <2>1, <2>4, <3>2 DEF AimsOwn
    <3>5. QED  BY <3>1, <3>3, <3>4 DEF Saved
  <2>6. CASE Len(stack) = 2
    <3>1. Len(stack') = 1 /\ stack'[1] = stack[2] /\ stack' # << >>  BY <2>3, <2>6
    <3>2. stack[2].found = stack[1].found
      BY <2>6 DEF ViewInv, KeysInv, Nested
    <3>3. /\ stack[2].mode = Local /\ stack[2].mode2 = Local
          /\ stack[1].found = Local => Shows(Local)
          /\ ~muddled => stack[1].found = Local /\ AimsOwn(Local)
      BY <2>6 DEF ViewInv, Saved
    <3>4. stack[1].found = Local => Shows(Local)'  BY <2>4, <3>3 DEF Shows
    <3>5. ~muddled' => stack[1].found = Local /\ AimsOwn(Local)'  BY <2>1, <2>4, <3>3 DEF AimsOwn
    <3>6. QED  BY <3>1, <3>2, <3>3, <3>4, <3>5 DEF Saved
  <2>7. QED  BY <2>3, <2>5, <2>6
<1>5. CASE CPad__JumpJustDown_hook
  BY <1>5 DEF CPad__JumpJustDown_hook, context, packets, ViewInv, Saved, Shows, AimsOwn
<1>6. CASE CameraLooks
  <2>1. /\ stack = << >> /\ stack' = << >> /\ Len(stack') = 0
        /\ view' = [view EXCEPT !.aim = Local, !.zoom = Local] /\ view \in View
    BY <1>6 DEF CameraLooks, ViewInv, KeysInv, TypeOK
  <2>2. Shows(Local)  BY <2>1 DEF ViewInv, Saved
  <2>3. Shows(Local)' /\ AimsOwn(Local)'  BY <2>1, <2>2 DEF Shows, AimsOwn, View
  <2>4. QED  BY <2>1, <2>3 DEF Saved
<1>7. QED  BY <1>1, <1>2, <1>3, <1>4, <1>5, <1>6 DEF Game

LEMMA InitView == Init => ViewInv
<1>1. Init => Saved  BY DEF Init, Saved, Shows, AimsOwn
<1>2. QED  BY <1>1, InitKeys DEF ViewInv

LEMMA NextView == ViewInv /\ [Next]_vars => ViewInv'
<1> SUFFICES ASSUME ViewInv, [Next]_vars PROVE ViewInv'  OBVIOUS
<1>1. KeysInv'  BY NextKeys DEF ViewInv
<1>2. CASE \E s \in Slots : Network(s) \/ Process(s)  BY <1>1, <1>2, BetweenView DEF ViewInv
<1>3. CASE Game  BY <1>1, <1>3, GameView DEF ViewInv
<1>4. CASE UNCHANGED vars
  BY <1>1, <1>4 DEF vars, packets, context, ViewInv, Saved, Shows, AimsOwn
<1>5. QED  BY <1>2, <1>3, <1>4 DEF Next

(* Every ped is processed under its own player's view, and the local       *)
(* player's comes back; a nested gun costs no more than its aim and zoom.  *)
THEOREM ViewIsOwn == Spec => []ViewFollowsPed
<1>1. ViewInv => ViewFollowsPed
  <2> SUFFICES ASSUME ViewInv PROVE ViewFollowsPed  OBVIOUS
  <2>1. CASE stack = << >>  BY <2>1 DEF ViewInv, Saved, Shows, AimsOwn, ViewFollowsPed
  <2>2. CASE stack # << >>
    <3>1. /\ Head(stack) = stack[1] /\ stack[1] \in Frames /\ Len(stack) \in Nat \ {0}
          /\ Len(stack) <= 2
      BY <2>2, PopFrame DEF ViewInv, KeysInv, TypeOK
    <3>2. Len(stack) \in {1, 2}  BY <3>1, OneOrTwo
    <3>3. /\ stack[1].hook # "vehicle" => stack[1].found = Owner(stack[1].of)
          /\ stack[1].hook = "vehicle" => stack[1].found = Local
      BY <3>1 DEF ViewInv, KeysInv, Nested
    <3>4. ~muddled => Shows(stack[1].found) /\ AimsOwn(stack[1].found)
      BY <3>2 DEF ViewInv, Saved
    <3>5. QED  BY <2>2, <3>1, <3>3, <3>4 DEF ViewFollowsPed, Shows, AimsOwn
  <2>3. QED  BY <2>1, <2>2
<1>2. QED  BY <1>1, InitView, NextView, PTL DEF Spec

-----------------------------------------------------------------------------
(* Jumps *)

(* A key still reported after its jump is ignored until it is let go.      *)
Ignored == \A s \in Slots : reported[s] /\ ~owed[s] => keys[s].ignoreJump

JumpInv == TypeOK /\ JumpOnce /\ Ignored

LEMMA SetKeysJump ==
    ASSUME JumpInv, NEW s \in Slots, NEW jump \in BOOLEAN, SetKeys(s, jump)
    PROVE  /\ \A t \in Slots \ {s} : keys'[t] = keys[t]
           /\ keys'[s].jump = jump
           /\ keys'[s].ignoreJump = (keys[s].ignoreJump /\ jump)
  BY DEF SetKeys, JumpInv, TypeOK

LEMMA NetworkJump ==
    ASSUME JumpInv, NEW s \in Slots, Network(s)
    PROVE  JumpOnce' /\ Ignored'
<1> USE DEF JumpInv, TypeOK, JumpOnce, Ignored
<1>1. CASE \E a \in Addrs : NewPed(s, a)  BY <1>1 DEF NewPed, NoKeys
<1>2. CASE Destroy(s)  BY <1>2 DEF Destroy, NoKeys
<1>3. CASE \E jump \in Keyed(s) : OnFootSync(s, jump) \/ InCarSync(s, jump)
  <2>1. PICK jump \in BOOLEAN : OnFootSync(s, jump) \/ InCarSync(s, jump)  BY <1>3 DEF Keyed
  <2>2. /\ reported' = [reported EXCEPT ![s] = jump] /\ keys' = keys
        /\ owed' = [owed EXCEPT ![s] = owed[s] \/ (jump /\ ~reported[s])]
    BY <2>1 DEF OnFootSync, InCarSync
  <2>3. QED  BY <2>2
<1>4. CASE s \in Active /\ PassengerSync(s)  BY <1>4 DEF PassengerSync
<1>5. CASE UpdateAimFromSyncData(s)  BY <1>5 DEF UpdateAimFromSyncData
<1>6. CASE WeaponShot(s)  BY <1>6 DEF WeaponShot
<1>7. CASE EnterOrExit(s)  BY <1>7, SetKeysJump DEF EnterOrExit, packets
<1>8. CASE HandleDeath(s)  BY <1>8, SetKeysJump DEF HandleDeath
<1>9. QED
  BY <1>1, <1>2, <1>3, <1>4, <1>5, <1>6, <1>7, <1>8 DEF Network

LEMMA ProcessJump ==
    ASSUME JumpInv, NEW s \in Slots, Process(s)
    PROVE  JumpOnce' /\ Ignored'
<1>1. reported[s] \in BOOLEAN  BY DEF JumpInv, TypeOK
<1>2. CASE SetKeys(s, reported[s]) /\ UNCHANGED <<reported, owed>>
  BY <1>1, <1>2, SetKeysJump DEF JumpInv, JumpOnce, Ignored
<1>3. CASE SetKeys(s, FALSE) /\ owed' = [owed EXCEPT ![s] = TRUE] /\ UNCHANGED reported
  BY <1>3, SetKeysJump DEF JumpInv, TypeOK, JumpOnce, Ignored
<1>4. QED
  BY <1>2, <1>3 DEF Process, ProcessOnFoot, ProcessDriver, ProcessOther, packets

LEMMA GameJump ==
    ASSUME JumpInv, Game
    PROVE  JumpOnce' /\ Ignored'
<1>1. CASE CPad__JumpJustDown_hook
  <2>1. byteCurPlayer \in Slots
    BY <1>1 DEF CPad__JumpJustDown_hook, JumpInv, TypeOK, Numbers
  <2>2. /\ \A t \in Slots \ {byteCurPlayer} : keys'[t] = keys[t] /\ owed'[t] = owed[t]
        /\ keys'[byteCurPlayer].ignoreJump /\ ~owed'[byteCurPlayer]
        /\ UNCHANGED reported
    BY <1>1, <2>1 DEF CPad__JumpJustDown_hook, JumpInv, TypeOK, packets, Pad
  <2>3. QED  BY <2>1, <2>2 DEF JumpInv, JumpOnce, Ignored
<1>2. CASE UNCHANGED <<keys, owed, reported>>
  BY <1>2 DEF JumpInv, JumpOnce, Ignored
<1>3. QED
  BY <1>1, <1>2
  DEF Game, CPed__ProcessControl_hook, TaskUseGun, Begin, AllVehicles__ProcessControl_hook,
      Return, CameraLooks, packets

(* A jump key held down makes its ped jump once, over any packets, frames, *)
(* vehicles and deaths.                                                    *)
THEOREM JumpsOnce == Spec => []JumpOnce
<1>1. Init => JumpInv
  <2>1. Init => JumpOnce /\ Ignored  BY DEF Init, JumpOnce, Ignored, NoKeys
  <2>2. QED  BY <2>1, InitType DEF JumpInv
<1>2. JumpInv /\ [Next]_vars => JumpInv'
  <2> SUFFICES ASSUME JumpInv, [Next]_vars PROVE JumpInv'  OBVIOUS
  <2>1. TypeOK'  BY NextType DEF JumpInv
  <2>2. CASE \E s \in Slots : Network(s) \/ Process(s)
    BY <2>1, <2>2, NetworkJump, ProcessJump DEF JumpInv
  <2>3. CASE Game  BY <2>1, <2>3, GameJump DEF JumpInv
  <2>4. CASE UNCHANGED vars
    BY <2>1, <2>4 DEF vars, packets, JumpInv, JumpOnce, Ignored
  <2>5. QED  BY <2>2, <2>3, <2>4 DEF Next
<1>3. QED  BY <1>1, <1>2, PTL DEF Spec, JumpInv

(* Both together, as the run states them.                                  *)
THEOREM KeysAreTrue == Spec => []KeysTrue
<1>1. OwnKeys /\ JumpOnce => KeysTrue  BY DEF KeysTrue
<1>2. QED  BY <1>1, KeysAreOwn, JumpsOnce, PTL

-----------------------------------------------------------------------------
(* Getting into vehicles and out of them                                   *)

Car == [driver : {"nobody", "player", "actor"}, locked : BOOLEAN, on : SUBSET Switches]
Seat == [car : Cars \cup {NoCar}, at : {"none", "driver", "passenger"}, own : BOOLEAN, barred : BOOLEAN]
Errand == [what : {"none", "drive", "ride", "leave"}, car : Cars \cup {NoCar}, told : BOOLEAN, barred : BOOLEAN]

BoardTypeOK ==
    /\ fleet \in [Cars -> Car \cup {Gone}]
    /\ ordered \in [Cars -> [Switches -> SwitchValues]]
    /\ seat \in Seat /\ errand \in Errand
    /\ coming \in Cars \cup {NoCar}
    /\ pause \in 0..Second

(* A task is about a vehicle that is there, he leaves the one he sits in,  *)
(* and is said to get in unless the vehicle is barred.                     *)
Errands ==
    /\ errand.what \in {"drive", "ride"} => errand.car \in Cars /\ Pooled(errand.car)
    /\ errand.what = "drive" => errand.told = ~errand.barred
    /\ errand.what = "leave" => errand.car = seat.car /\ Seated

(* The second of the button that is held down is the one that counts. *)
Clocks == calm = pause /\ ~hasty

Arrivals == coming # NoCar => Pooled(coming)

Announced ==
    /\ seat.own => <<seat.car, seat.at>> \in heard \/ seat.barred
    /\ errand.what = "drive" /\ errand.told => <<errand.car, "driver">> \in heard
    /\ errand.what = "ride" => <<errand.car, "passenger">> \in heard
    /\ errand.what = "leave" /\ errand.told => news = [what |-> "exit", car |-> seat.car]

Obeyed ==
    \A v \in Cars : Pooled(v) =>
        /\ fleet[v].locked = (ordered[v]["doors"] # 0)
        /\ \A s \in Switches : ordered[v][s] # 255 => (s \in fleet[v].on <=> ordered[v][s] = 1)

BoardInv == BoardTypeOK /\ Errands /\ Clocks /\ Arrivals /\ Announced /\ Obeyed

LEMMA BoardStart == BoardInit => BoardInv
<1> SUFFICES ASSUME BoardInit PROVE BoardInv
  OBVIOUS
<1>1. Outside \in Seat /\ Idling \in Errand  BY DEF Outside, Idling, Seat, Errand
<1>2. BoardTypeOK  BY <1>1, BoardingAssumption DEF BoardInit, BoardTypeOK, SwitchValues
<1>3. \A v \in Cars : ~Pooled(v)  BY DEF BoardInit, Pooled
<1>4. QED
  BY <1>2, <1>3 DEF BoardInit, BoardInv, Errands, Clocks, Arrivals, Announced, Obeyed, Idling, Outside

(* Who sits in a vehicle changes nothing of what the invariant says of it. *)
LEMMA DriverChanges ==
    ASSUME BoardInv, NEW v \in Cars, NEW who \in {"nobody", "player", "actor"}, Pooled(v),
           fleet' = [fleet EXCEPT ![v].driver = who], ordered' = ordered
    PROVE  /\ fleet' \in [Cars -> Car \cup {Gone}] /\ Obeyed'
           /\ \A w \in Cars : Pooled(w) => Pooled(w)'
<1>1. /\ fleet \in [Cars -> Car \cup {Gone}] /\ fleet[v] \in Car
  BY DEF BoardInv, BoardTypeOK, Pooled
<1>2. /\ fleet'[v] = [driver |-> who, locked |-> fleet[v].locked, on |-> fleet[v].on]
      /\ \A w \in Cars : w # v => fleet'[w] = fleet[w]
      /\ DOMAIN fleet' = Cars
  BY <1>1 DEF Car
<1>3. fleet'[v] \in Car /\ fleet'[v] # Gone
  <2>1. fleet'[v] \in Car  BY <1>1, <1>2 DEF Car
  <2>2. \A c \in Car : c # Gone
    <3>1. \A c \in Car : "on" \in DOMAIN c  BY DEF Car
    <3>2. "on" \notin DOMAIN Gone  BY DEF Gone
    <3>3. QED  BY <3>1, <3>2
  <2>3. QED  BY <2>1, <2>2
<1>4. fleet' \in [Cars -> Car \cup {Gone}]
  <2>1. \A w \in Cars : fleet'[w] \in Car \cup {Gone}  BY <1>1, <1>2, <1>3
  <2>2. fleet' = [w \in Cars |-> fleet'[w]]  BY <1>2
  <2>3. QED  BY <2>1, <2>2
<1>5. \A w \in Cars : Pooled(w) => Pooled(w)'  BY <1>2, <1>3 DEF Pooled
<1>6. \A w \in Cars : Pooled(w)' => /\ Pooled(w) /\ fleet'[w].locked = fleet[w].locked
                                   /\ fleet'[w].on = fleet[w].on
  BY <1>2 DEF Pooled
<1>7. Obeyed'  BY <1>6 DEF BoardInv, Obeyed
<1>8. QED  BY <1>4, <1>5, <1>7

(* The player's own steps. *)
LEMMA PlayerBoards ==
    ASSUME BoardInv,
           \/ \E v \in Cars : \/ CTaskComplexEnterCarAsDriver_hook(v)
                              \/ HandlePassengerEntry(v) \/ HandlePassengerEntryEx(v)
           \/ CTaskComplexLeaveCar_hook \/ NextFrame
    PROVE  BoardInv'
<1> USE BoardingAssumption
<1>1. /\ BoardTypeOK /\ Errands /\ Clocks /\ Arrivals /\ Announced /\ Obeyed
  BY DEF BoardInv
<1>2. ASSUME NEW v \in Cars, CTaskComplexEnterCarAsDriver_hook(v) PROVE BoardInv'
  <2>1. /\ Pooled(v) /\ ~Seated
        /\ errand' = [what |-> "drive", car |-> v, told |-> ~Barred(v), barred |-> Barred(v)]
        /\ Barred(v) => news' = news /\ heard' = heard
        /\ ~Barred(v) => heard' = heard \cup {<<v, "driver">>}
        /\ UNCHANGED <<carVars, seat, coming, pause, calm, hasty>>
    BY <1>2 DEF CTaskComplexEnterCarAsDriver_hook, SendEnterVehicleNotification
  <2>2. Barred(v) \in BOOLEAN  BY <1>1, <2>1 DEF Barred, BoardTypeOK, Pooled, Car
  <2>3. errand' \in Errand  BY <2>1, <2>2 DEF Errand
  <2>4. BoardTypeOK'  BY <1>1, <2>1, <2>3 DEF BoardTypeOK, carVars
  <2>5. Errands'  BY <2>1, <2>2 DEF Errands, Pooled, carVars
  <2>6. Announced'  BY <1>1, <2>1 DEF Announced
  <2>7. Clocks' /\ Arrivals' /\ Obeyed'  BY <1>1, <2>1 DEF Clocks, Arrivals, Obeyed, Pooled, carVars
  <2>8. QED  BY <2>4, <2>5, <2>6, <2>7 DEF BoardInv
<1>3. ASSUME NEW v \in Cars, HandlePassengerEntry(v) PROVE BoardInv'
  <2>1. /\ Pooled(v) /\ pause = Second
        /\ errand' = [what |-> "ride", car |-> v, told |-> TRUE, barred |-> FALSE]
        /\ heard' = heard \cup {<<v, "passenger">>}
        /\ pause' = 0 /\ calm' = 0 /\ hasty' = (hasty \/ calm < Second)
        /\ UNCHANGED <<carVars, seat, coming>>
    BY <1>3 DEF HandlePassengerEntry, SendEnterVehicleNotification, EnterVehicle, FindNearestToLocalPlayerPed
  <2>2. errand' \in Errand  BY <2>1 DEF Errand
  <2>3. BoardTypeOK'  BY <1>1, <2>1, <2>2 DEF BoardTypeOK, carVars
  <2>4. Errands'  BY <2>1 DEF Errands, Pooled, carVars
  <2>5. Announced'  BY <1>1, <2>1 DEF Announced
  <2>6. Clocks'
    <3>1. calm = Second /\ hasty = FALSE  BY <1>1, <2>1 DEF Clocks
    <3>2. ~(calm < Second)  BY <3>1, BoardingAssumption
    <3>3. QED  BY <3>1, <3>2, <2>1 DEF Clocks
  <2>7. Arrivals' /\ Obeyed'  BY <1>1, <2>1 DEF Arrivals, Obeyed, Pooled, carVars
  <2>8. QED  BY <2>3, <2>4, <2>5, <2>6, <2>7 DEF BoardInv
<1>4. ASSUME CTaskComplexLeaveCar_hook PROVE BoardInv'
  <2>1. /\ Seated /\ errand' = [what |-> "leave", car |-> seat.car, told |-> TRUE, barred |-> FALSE]
        /\ news' = [what |-> "exit", car |-> seat.car] /\ heard' = heard
        /\ UNCHANGED <<carVars, seat, coming, pause, calm, hasty>>
    BY <1>4 DEF CTaskComplexLeaveCar_hook, SendExitVehicleNotification, Idling
  <2>2. errand' \in Errand  BY <1>1, <2>1 DEF Errand, BoardTypeOK, Seat
  <2>3. BoardTypeOK'  BY <1>1, <2>1, <2>2 DEF BoardTypeOK, carVars
  <2>4. Errands' /\ Announced'  BY <1>1, <2>1 DEF Errands, Announced, Seated
  <2>5. Clocks' /\ Arrivals' /\ Obeyed'  BY <1>1, <2>1 DEF Clocks, Arrivals, Obeyed, Pooled, carVars
  <2>6. QED  BY <2>3, <2>4, <2>5 DEF BoardInv
<1>5. ASSUME NextFrame PROVE BoardInv'
  <2>1. pause' \in 0..Second /\ calm' = pause' /\ hasty' = hasty
    BY <1>1, <1>5 DEF NextFrame, Clocks, BoardTypeOK
  <2>2. UNCHANGED <<carVars, seat, errand, coming, news, heard>>  BY <1>5 DEF NextFrame
  <2>3. QED
    BY <1>1, <2>1, <2>2
    DEF BoardInv, BoardTypeOK, Errands, Clocks, Arrivals, Announced, Obeyed, Pooled, Seated, carVars
<1>6. QED  BY <1>2, <1>3, <1>4, <1>5 DEF HandlePassengerEntryEx

(* What the game makes of the tasks, and the server's orders about seats. *)
LEMMA SeatChanges ==
    ASSUME BoardInv,
           \/ GetsIn \/ GivesUp \/ GetsOut \/ ScrRemovePlayerFromVehicle
           \/ \E v \in Cars, at \in {"driver", "passenger"} : ScrPutPlayerInVehicle(v, at)
    PROVE  BoardInv'
<1>1. /\ BoardTypeOK /\ Errands /\ Clocks /\ Arrivals /\ Announced /\ Obeyed
  BY DEF BoardInv
<1>2. Idling \in Errand /\ Outside \in Seat  BY DEF Idling, Errand, Outside, Seat
<1>3. ASSUME GetsIn PROVE BoardInv'
  <2>1. /\ errand.what \in {"drive", "ride"} /\ errand' = Idling
        /\ seat' = [car |-> errand.car, own |-> TRUE, barred |-> errand.barred,
                    at |-> IF errand.what = "drive" THEN "driver" ELSE "passenger"]
        /\ errand.what = "drive" => fleet' = [fleet EXCEPT ![errand.car].driver = "nobody"]
        /\ errand.what # "drive" => fleet' = fleet
        /\ UNCHANGED <<ordered, coming, tellVars>>
    BY <1>3 DEF GetsIn
  <2>2. errand.car \in Cars /\ Pooled(errand.car)  BY <1>1, <2>1 DEF Errands
  <2>3. /\ fleet' \in [Cars -> Car \cup {Gone}] /\ Obeyed'
        /\ \A w \in Cars : Pooled(w) => Pooled(w)'
    <3>1. CASE errand.what = "drive"
      BY <3>1, <2>1, <2>2, DriverChanges
    <3>2. CASE errand.what # "drive"
      BY <3>2, <1>1, <2>1 DEF BoardTypeOK, Obeyed, Pooled
    <3>3. QED  BY <3>1, <3>2
  <2>4. seat' \in Seat  BY <1>1, <2>1, <2>2 DEF Seat, BoardTypeOK, Errand
  <2>5. BoardTypeOK'  BY <1>1, <1>2, <2>1, <2>3, <2>4 DEF BoardTypeOK, tellVars
  <2>6. Errands' /\ Announced'
    BY <1>1, <2>1 DEF Errands, Announced, Idling, tellVars
  <2>7. Clocks' /\ Arrivals'  BY <1>1, <2>1, <2>3 DEF Clocks, Arrivals, BoardTypeOK, tellVars
  <2>8. QED  BY <2>3, <2>5, <2>6, <2>7 DEF BoardInv
<1>4. ASSUME GivesUp PROVE BoardInv'
  BY <1>1, <1>2, <1>4
  DEF GivesUp, BoardInv, BoardTypeOK, Errands, Clocks, Arrivals, Announced, Obeyed, Pooled, Idling,
      carVars, tellVars
<1>5. ASSUME GetsOut PROVE BoardInv'
  BY <1>1, <1>2, <1>5
  DEF GetsOut, BoardInv, BoardTypeOK, Errands, Clocks, Arrivals, Announced, Obeyed, Pooled, Idling,
      Outside, carVars
<1>6. ASSUME ScrRemovePlayerFromVehicle PROVE BoardInv'
  <2>1. /\ Seated /\ errand' = [what |-> "leave", car |-> seat.car, told |-> FALSE, barred |-> FALSE]
        /\ UNCHANGED <<carVars, seat, coming, tellVars>>
    BY <1>6 DEF ScrRemovePlayerFromVehicle, ExitCurrentVehicle, Idling
  <2>2. errand' \in Errand  BY <1>1, <2>1 DEF Errand, BoardTypeOK, Seat
  <2>3. BoardTypeOK'  BY <1>1, <2>1, <2>2 DEF BoardTypeOK, carVars, tellVars
  <2>4. Errands' /\ Announced'  BY <1>1, <2>1 DEF Errands, Announced, Seated, tellVars
  <2>5. Clocks' /\ Arrivals' /\ Obeyed'  BY <1>1, <2>1 DEF Clocks, Arrivals, Obeyed, Pooled, carVars, tellVars
  <2>6. QED  BY <2>3, <2>4, <2>5 DEF BoardInv
<1>7. ASSUME NEW v \in Cars, NEW at \in {"driver", "passenger"}, ScrPutPlayerInVehicle(v, at)
      PROVE  BoardInv'
  <2>1. /\ seat' = [car |-> v, at |-> at, own |-> FALSE, barred |-> FALSE]
        /\ errand' = Idling /\ heard' = {}
        /\ UNCHANGED <<carVars, coming, news, pause, calm, hasty>>
    BY <1>7 DEF ScrPutPlayerInVehicle, PutDirectlyInVehicle, Outside
  <2>2. seat' \in Seat  BY <2>1 DEF Seat
  <2>3. BoardTypeOK'  BY <1>1, <1>2, <2>1, <2>2 DEF BoardTypeOK, carVars
  <2>4. Errands' /\ Announced'  BY <2>1 DEF Errands, Announced, Idling
  <2>5. Clocks' /\ Arrivals' /\ Obeyed'  BY <1>1, <2>1 DEF Clocks, Arrivals, Obeyed, Pooled, carVars
  <2>6. QED  BY <2>3, <2>4, <2>5 DEF BoardInv
<1>8. QED  BY <1>3, <1>4, <1>5, <1>6, <1>7

(* The other drivers. *)
LEMMA OthersDrive ==
    ASSUME BoardInv,
           \/ RemoteArrives
           \/ \E v \in Cars : RemoteEnters(v) \/ RemoteExits(v) \/ ActorPutIn(v) \/ ActorRemoved(v)
    PROVE  BoardInv'
<1>1. /\ BoardTypeOK /\ Errands /\ Clocks /\ Arrivals /\ Announced /\ Obeyed
  BY DEF BoardInv
<1>2. Idling \in Errand /\ Outside \in Seat  BY DEF Idling, Errand, Outside, Seat
<1>3. ASSUME NEW v \in Cars, NEW who \in {"nobody", "player", "actor"}, Pooled(v),
             fleet' = [fleet EXCEPT ![v].driver = who],
             UNCHANGED <<ordered, seat, errand, coming, tellVars>>
      PROVE  BoardInv'
  <2>1. /\ fleet' \in [Cars -> Car \cup {Gone}] /\ Obeyed'
        /\ \A w \in Cars : Pooled(w) => Pooled(w)'
    BY <1>3, DriverChanges
  <2>2. BoardTypeOK' /\ Clocks' /\ Announced'
    BY <1>1, <1>3, <2>1 DEF BoardTypeOK, Clocks, Announced, tellVars
  <2>3. Errands' /\ Arrivals'
    BY <1>1, <1>3, <2>1 DEF Errands, Arrivals, Seated, BoardTypeOK
  <2>4. QED  BY <2>1, <2>2, <2>3 DEF BoardInv
<1>4. ASSUME NEW v \in Cars, RemoteEnters(v) PROVE BoardInv'
  <2>1. Pooled(v) /\ coming' = v /\ UNCHANGED <<carVars, seat, errand, tellVars>>
    BY <1>4 DEF RemoteEnters
  <2>2. QED
    BY <1>1, <2>1
    DEF BoardInv, BoardTypeOK, Errands, Clocks, Arrivals, Announced, Obeyed, Pooled, Seated, carVars, tellVars
<1>5. ASSUME NEW v \in Cars, RemoteExits(v) PROVE BoardInv'
  <2>1. Pooled(v)  BY <1>5 DEF RemoteExits, Pooled, Gone
  <2>2. QED  BY <1>3, <1>5, <2>1 DEF RemoteExits
<1>6. ASSUME NEW v \in Cars, ActorPutIn(v) PROVE BoardInv'
  BY <1>3, <1>6 DEF ActorPutIn, PutActorDirectlyInVehicle
<1>7. ASSUME NEW v \in Cars, ActorRemoved(v) PROVE BoardInv'
  <2>1. Pooled(v)  BY <1>7 DEF ActorRemoved, Pooled, Gone
  <2>2. QED  BY <1>3, <1>7, <2>1 DEF ActorRemoved
<1>8. ASSUME RemoteArrives PROVE BoardInv'
  <2>1. /\ coming # NoCar /\ fleet' = [fleet EXCEPT ![coming].driver = "player"] /\ coming' = NoCar
        /\ Drives(coming) => seat' = Outside /\ errand' = Idling /\ heard' = {}
        /\ ~Drives(coming) => UNCHANGED <<seat, errand, heard>>
        /\ UNCHANGED <<ordered, news, pause, calm, hasty>>
    BY <1>8 DEF RemoteArrives
  <2>2. coming \in Cars /\ Pooled(coming)  BY <1>1, <2>1 DEF Arrivals, BoardTypeOK
  <2>3. /\ fleet' \in [Cars -> Car \cup {Gone}] /\ Obeyed'
        /\ \A w \in Cars : Pooled(w) => Pooled(w)'
    BY <2>1, <2>2, DriverChanges
  <2>4. BoardTypeOK' /\ Clocks' /\ Arrivals'
    BY <1>1, <1>2, <2>1, <2>3 DEF BoardTypeOK, Clocks, Arrivals
  <2>5. Errands' /\ Announced'
    <3>1. CASE Drives(coming)
      BY <3>1, <2>1 DEF Errands, Announced, Idling, Outside
    <3>2. CASE ~Drives(coming)
      BY <3>2, <1>1, <2>1, <2>3 DEF Errands, Announced, Seated
    <3>3. QED  BY <3>1, <3>2
  <2>6. QED  BY <2>3, <2>4, <2>5 DEF BoardInv
<1>9. QED  BY <1>4, <1>5, <1>6, <1>7, <1>8

(* A vehicle comes or goes, with the task and the seat that were its. *)
LEMMA DeleteKeeps ==
    ASSUME BoardInv, NEW v \in Cars, NEW goesOn \in BOOLEAN, Delete(v, goesOn),
           NEW new \in Car \cup {Gone}, fleet' = [fleet EXCEPT ![v] = new],
           ordered' \in [Cars -> [Switches -> SwitchValues]],
           \A w \in Cars : w # v => ordered'[w] = ordered[w],
           new # Gone => /\ new.locked = (ordered'[v]["doors"] # 0)
                         /\ \A s \in Switches : ordered'[v][s] # 255 =>
                                                   (s \in new.on <=> ordered'[v][s] = 1)
    PROVE  BoardInv'
<1>1. /\ BoardTypeOK /\ Errands /\ Clocks /\ Arrivals /\ Announced /\ Obeyed
  BY DEF BoardInv
<1>2. Idling \in Errand /\ Outside \in Seat  BY DEF Idling, Errand, Outside, Seat
<1>3. PICK left : /\ left = IF errand.car # v /\ (goesOn \/ seat.car # v) THEN errand ELSE Idling
                  /\ errand' = left
                  /\ coming' = IF coming = v THEN NoCar ELSE coming
                  /\ seat.car = v => seat' = Outside /\ heard' = {h \in heard : h[1] = left.car}
                  /\ seat.car # v => UNCHANGED <<seat, heard>>
                  /\ UNCHANGED <<news, pause, calm, hasty>>
  BY DEF Delete, HeardFor
<1>4. fleet'[v] = new /\ \A w \in Cars : w # v => fleet'[w] = fleet[w]
  BY <1>1 DEF BoardTypeOK
<1>5. BoardTypeOK'
  <2>1. fleet' \in [Cars -> Car \cup {Gone}]  BY <1>1 DEF BoardTypeOK
  <2>2. errand' \in Errand /\ seat' \in Seat  BY <1>1, <1>2, <1>3 DEF BoardTypeOK
  <2>3. coming' \in Cars \cup {NoCar}  BY <1>1, <1>3 DEF BoardTypeOK
  <2>4. QED  BY <1>1, <1>3, <2>1, <2>2, <2>3 DEF BoardTypeOK
<1>6. Clocks' /\ Arrivals'
  BY <1>1, <1>3, <1>4 DEF Clocks, Arrivals, BoardTypeOK, Pooled
<1>7. Obeyed'
  <2> SUFFICES ASSUME NEW w \in Cars, Pooled(w)'
               PROVE  /\ fleet'[w].locked = (ordered'[w]["doors"] # 0)
                      /\ \A s \in Switches : ordered'[w][s] # 255 =>
                                                (s \in fleet'[w].on <=> ordered'[w][s] = 1)
    BY DEF Obeyed
  <2>1. CASE w = v  BY <2>1, <1>4 DEF Pooled
  <2>2. CASE w # v
    <3>1. Pooled(w) /\ fleet'[w] = fleet[w] /\ ordered'[w] = ordered[w]  BY <2>2, <1>4 DEF Pooled
    <3>2. QED  BY <3>1, <1>1 DEF Obeyed
  <2>3. QED  BY <2>1, <2>2
<1>8. Errands' /\ Announced'
  <2>1. CASE left = Idling
    <3>1. errand'.what = "none"  BY <2>1, <1>3 DEF Idling
    <3>4. Errands'  BY <3>1 DEF Errands
    <3>2. Announced'  BY <2>1, <1>1, <1>3 DEF Announced, Idling, Outside
    <3>3. QED  BY <3>4, <3>2
  <2>2. CASE left # Idling
    <3>1. errand' = errand /\ left = errand /\ errand.car # v  BY <2>2, <1>3
    <3>2. errand.what = "leave" => seat.car # v  BY <3>1, <1>1 DEF Errands
    <3>3. Errands'  BY <3>1, <3>2, <1>1, <1>3, <1>4 DEF Errands, Pooled, Seated
    <3>4. CASE seat.car = v
      <4>1. ~seat'.own  BY <3>4, <1>3 DEF Outside
      <4>2. errand.what = "drive" /\ errand.told => <<errand.car, "driver">> \in heard'
        BY <3>1, <3>4, <1>1, <1>3 DEF Announced
      <4>3. errand.what = "ride" => <<errand.car, "passenger">> \in heard'
        BY <3>1, <3>4, <1>1, <1>3 DEF Announced
      <4>4. QED  BY <3>1, <3>2, <3>3, <3>4, <4>1, <4>2, <4>3 DEF Announced
    <3>5. CASE seat.car # v
      BY <3>1, <3>3, <3>5, <1>1, <1>3 DEF Announced
    <3>6. QED  BY <3>4, <3>5
  <2>3. QED  BY <2>1, <2>2
<1>9. QED  BY <1>5, <1>6, <1>7, <1>8 DEF BoardInv

LEMMA VehicleComesOrGoes ==
    ASSUME BoardInv, NEW v \in Cars, NEW goesOn \in BOOLEAN,
           WorldVehicleAdd(v, goesOn) \/ WorldVehicleRemove(v, goesOn)
    PROVE  BoardInv'
<1>1. ordered \in [Cars -> [Switches -> SwitchValues]]  BY DEF BoardInv, BoardTypeOK
<1>2. CASE WorldVehicleAdd(v, goesOn)
  <2>1. /\ Delete(v, goesOn) /\ fleet' = [fleet EXCEPT ![v] = NewCar]
        /\ ordered' = [ordered EXCEPT ![v] = [s \in Switches |-> 0]]
    BY <1>2 DEF WorldVehicleAdd
  <2>2. [s \in Switches |-> 0] \in [Switches -> SwitchValues]  BY DEF SwitchValues
  <2>3. /\ ordered' \in [Cars -> [Switches -> SwitchValues]]
        /\ \A w \in Cars : w # v => ordered'[w] = ordered[w]
        /\ \A s \in Switches : ordered'[v][s] = 0
    BY <1>1, <2>1, <2>2
  <2>4. NewCar \in Car /\ NewCar.locked = FALSE /\ NewCar.on = {}  BY DEF NewCar, Car
  <2>5. ordered'[v]["doors"] = 0  BY <2>3 DEF Switches
  <2>6. QED
    <3>1. NewCar.locked = (ordered'[v]["doors"] # 0)  BY <2>4, <2>5
    <3>2. \A s \in Switches : ordered'[v][s] # 255 => (s \in NewCar.on <=> ordered'[v][s] = 1)
      BY <2>3, <2>4
    <3>3. QED  BY <2>1, <2>3, <2>4, <3>1, <3>2, DeleteKeeps
<1>3. CASE WorldVehicleRemove(v, goesOn)
  <2>1. Delete(v, goesOn) /\ fleet' = [fleet EXCEPT ![v] = Gone] /\ ordered' = ordered
    BY <1>3 DEF WorldVehicleRemove
  <2>2. QED  BY <1>1, <2>1, DeleteKeeps
<1>4. QED  BY <1>2, <1>3

(* The switches of one vehicle are set as the server says. *)
Fits(new, set) ==
    /\ new \in Car /\ set \in [Switches -> SwitchValues]
    /\ new.locked = (set["doors"] # 0)
    /\ \A s \in Switches : set[s] # 255 => (s \in new.on <=> set[s] = 1)

LEMMA OneSet ==
    ASSUME BoardInv, NEW v \in Cars, NEW new, NEW set, Fits(new, set), Pooled(v),
           fleet' = [fleet EXCEPT ![v] = new], ordered' = [ordered EXCEPT ![v] = set],
           UNCHANGED <<seat, errand, coming, tellVars>>
    PROVE  BoardInv'
<1>1. /\ BoardTypeOK /\ Errands /\ Clocks /\ Arrivals /\ Announced /\ Obeyed
      /\ new \in Car /\ set \in [Switches -> SwitchValues]
      /\ new.locked = (set["doors"] # 0)
      /\ \A s \in Switches : set[s] # 255 => (s \in new.on <=> set[s] = 1)
  BY DEF BoardInv, Fits
<1>2. /\ fleet'[v] = new /\ ordered'[v] = set
      /\ \A w \in Cars : w # v => fleet'[w] = fleet[w] /\ ordered'[w] = ordered[w]
  BY <1>1 DEF BoardTypeOK
<1>3. new # Gone
  <2>1. "on" \in DOMAIN new  BY <1>1 DEF Car
  <2>2. "on" \notin DOMAIN Gone  BY DEF Gone
  <2>3. QED  BY <2>1, <2>2
<1>4. \A w \in Cars : Pooled(w)' <=> Pooled(w)  BY <1>1, <1>2, <1>3 DEF Pooled
<1>5. BoardTypeOK'  BY <1>1 DEF BoardTypeOK, tellVars
<1>6. Errands' /\ Clocks' /\ Arrivals' /\ Announced'
  BY <1>1, <1>4 DEF BoardTypeOK, Errands, Clocks, Arrivals, Announced, Seated, tellVars
<1>7. Obeyed'
  <2> SUFFICES ASSUME NEW w \in Cars, Pooled(w)'
               PROVE  /\ fleet'[w].locked = (ordered'[w]["doors"] # 0)
                      /\ \A s \in Switches : ordered'[w][s] # 255 =>
                                                (s \in fleet'[w].on <=> ordered'[w][s] = 1)
    BY DEF Obeyed
  <2>1. CASE w = v  BY <2>1, <1>1, <1>2
  <2>2. CASE w # v  BY <2>2, <1>1, <1>2, <1>4 DEF Obeyed
  <2>3. QED  BY <2>1, <2>2
<1>8. QED  BY <1>5, <1>6, <1>7 DEF BoardInv

(* The switches are as they were set last. *)
LEMMA SwitchesSet ==
    ASSUME BoardInv, NEW v \in Cars,
           \/ \E doors \in SwitchValues : ScrVehicleParams(v, doors)
           \/ \E positions \in [Switches -> SwitchValues] : ScrVehicleParamsEx(v, positions)
    PROVE  BoardInv'
<1>1. /\ BoardTypeOK /\ Errands /\ Clocks /\ Arrivals /\ Announced /\ Obeyed
  BY DEF BoardInv
<1>2. ASSUME NEW doors \in SwitchValues, ScrVehicleParams(v, doors) PROVE BoardInv'
  <2>1. /\ Pooled(v) /\ ordered' = [ordered EXCEPT ![v]["doors"] = doors]
        /\ fleet' = [fleet EXCEPT ![v].locked = SetDoorState(doors),
                                  ![v].on = IF SetDoorState(doors)
                                            THEN @ \cup {"doors"} ELSE @ \ {"doors"}]
        /\ UNCHANGED <<seat, errand, coming, tellVars>>
    BY <1>2 DEF ScrVehicleParams, AssignSpecialParamsToVehicle
  <2>2. fleet[v] \in Car /\ ordered[v] \in [Switches -> SwitchValues] /\ "doors" \in Switches
    BY <1>1, <2>1 DEF BoardTypeOK, Pooled, Switches
  <2>3. PICK set : set = [ordered[v] EXCEPT !["doors"] = doors]
    OBVIOUS
  <2>4. PICK new : new = [driver |-> fleet[v].driver, locked |-> doors # 0,
                          on |-> IF doors # 0 THEN fleet[v].on \cup {"doors"} ELSE fleet[v].on \ {"doors"}]
    OBVIOUS
  <2>5. set \in [Switches -> SwitchValues] /\ ordered' = [ordered EXCEPT ![v] = set]
    BY <1>1, <2>1, <2>2, <2>3 DEF BoardTypeOK
  <2>6. new \in Car  BY <2>2, <2>4 DEF Car
  <2>7. fleet' = [fleet EXCEPT ![v] = new]
    <3>1. /\ fleet \in [Cars -> Car \cup {Gone}]
          /\ fleet[v] = [driver |-> fleet[v].driver, locked |-> fleet[v].locked, on |-> fleet[v].on]
      BY <1>1, <2>2 DEF BoardTypeOK, Car
    <3>2. /\ fleet'[v] = [driver |-> fleet[v].driver, locked |-> new.locked, on |-> new.on]
          /\ \A w \in Cars : w # v => fleet'[w] = fleet[w]
          /\ fleet' = [w \in Cars |-> fleet'[w]]
      BY <3>1, <2>1, <2>2, <2>4 DEF SetDoorState
    <3>3. fleet'[v] = new  BY <3>2, <2>1, <2>2, <2>4
    <3>4. QED  BY <3>1, <3>2, <3>3
  <2>8. new.locked = (set["doors"] # 0)  BY <2>2, <2>3, <2>4
  <2>9. \A s \in Switches : set[s] # 255 => (s \in new.on <=> set[s] = 1)
    <3>1. \A s \in Switches : ordered[v][s] # 255 => (s \in fleet[v].on <=> ordered[v][s] = 1)
      BY <1>1, <2>1 DEF Obeyed
    <3>2. doors \in {0, 1, 255}  BY DEF SwitchValues
    <3>3. QED  BY <3>1, <3>2, <2>2, <2>3, <2>4
  <2>10. Fits(new, set)  BY <2>5, <2>6, <2>8, <2>9 DEF Fits
  <2>11. QED  BY <2>1, <2>5, <2>7, <2>10, OneSet
<1>3. ASSUME NEW positions \in [Switches -> SwitchValues], ScrVehicleParamsEx(v, positions) PROVE BoardInv'
  <2>1. /\ Pooled(v) /\ ordered' = [ordered EXCEPT ![v] = positions]
        /\ fleet' = [fleet EXCEPT ![v].locked = SetDoorState(positions["doors"]),
                                  ![v].on = SwitchedOn(positions)]
        /\ UNCHANGED <<seat, errand, coming, tellVars>>
    BY <1>3 DEF ScrVehicleParamsEx
  <2>2. fleet[v] \in Car  BY <1>1, <2>1 DEF BoardTypeOK, Pooled
  <2>3. PICK new : new = [driver |-> fleet[v].driver, locked |-> positions["doors"] # 0, on |-> SwitchedOn(positions)]
    OBVIOUS
  <2>4. new \in Car
    <3>1. SwitchedOn(positions) \in SUBSET Switches  BY DEF SwitchedOn
    <3>2. QED  BY <3>1, <2>2, <2>3 DEF Car
  <2>5. fleet' = [fleet EXCEPT ![v] = new]
    <3>1. /\ fleet \in [Cars -> Car \cup {Gone}]
          /\ fleet[v] = [driver |-> fleet[v].driver, locked |-> fleet[v].locked, on |-> fleet[v].on]
      BY <1>1, <2>2 DEF BoardTypeOK, Car
    <3>2. /\ fleet'[v] = [driver |-> fleet[v].driver, locked |-> new.locked, on |-> new.on]
          /\ \A w \in Cars : w # v => fleet'[w] = fleet[w]
          /\ fleet' = [w \in Cars |-> fleet'[w]]
      BY <3>1, <2>1, <2>2, <2>3 DEF SetDoorState
    <3>3. fleet'[v] = new  BY <3>2, <2>1, <2>2, <2>3
    <3>4. QED  BY <3>1, <3>2, <3>3
  <2>6. \A s \in Switches : positions[s] # 255 => (s \in new.on <=> positions[s] = 1)
    <3>1. \A s \in Switches : positions[s] \in {0, 1, 255}  BY DEF SwitchValues
    <3>2. \A s \in Switches : s \in SwitchedOn(positions) <=>
             IF s \in {"boot", "bonnet"} THEN positions[s] = 1 ELSE positions[s] # 0
      BY DEF SwitchedOn, Switches, SetDoorState, SetEngineState, SetLightsState, SetBootAndBonnetState
    <3>3. new.on = SwitchedOn(positions)  BY <2>3
    <3>4. QED  BY <3>1, <3>2, <3>3
  <2>7. new.locked = (positions["doors"] # 0)  BY <2>3
  <2>8. Fits(new, positions)  BY <2>4, <2>6, <2>7 DEF Fits
  <2>9. QED  BY <2>1, <2>5, <2>8, OneSet
<1>4. QED  BY <1>2, <1>3

LEMMA BoardStep == ASSUME BoardInv, BoardNext PROVE BoardInv'
<1>1. ASSUME SeatsNext PROVE BoardInv'
  <2>1. ASSUME NEW v \in Cars, NEW doors \in {0, 1}, ScrVehicleParams(v, doors) PROVE BoardInv'
    <3>1. doors \in SwitchValues  BY DEF SwitchValues
    <3>2. QED  BY <2>1, <3>1, SwitchesSet
  <2>2. QED
    BY <1>1, <2>1, PlayerBoards, SeatChanges, OthersDrive, VehicleComesOrGoes DEF SeatsNext
<1>2. ASSUME SwitchesNext PROVE BoardInv'
  <2>1. SharedCars \subseteq Cars  BY BoardingAssumption
  <2>2. QED  BY <1>2, <2>1, VehicleComesOrGoes, SwitchesSet DEF SwitchesNext
<1>3. QED  BY <1>1, <1>2 DEF BoardNext


(* Over any vehicles, seats, orders and other drivers: what the player     *)
(* does of his own was announced as it was done, no two passenger's        *)
(* entries within a second, and the doors are as the server set them.      *)
THEOREM BoardsAsTold == PlayerSpec => []BoardedAsTold
<1>1. PlayerInit => BoardInv  BY BoardStart DEF PlayerInit
<1>2. BoardInv /\ [PlayerNext]_playerVars => BoardInv'
  <2> SUFFICES ASSUME BoardInv, [PlayerNext]_playerVars PROVE BoardInv'
    OBVIOUS
  <2>1. CASE BoardNext  BY <2>1, BoardStep
  <2>2. CASE UNCHANGED boardVars
    BY <2>2
    DEF boardVars, carVars, tellVars, BoardInv, BoardTypeOK, Errands, Clocks, Arrivals, Announced,
        Obeyed, Pooled, Seated
  <2>3. QED  BY <2>1, <2>2 DEF PlayerNext, playerVars
<1>3. BoardInv => BoardedAsTold
  BY DEF BoardInv, Clocks, Announced, Obeyed, BoardedAsTold
<1>4. QED  BY <1>1, <1>2, <1>3, PTL DEF PlayerSpec

-----------------------------------------------------------------------------
(* What the server is told *)

LEMMA MinOfTwo == \A a, b \in Int : Min({a, b}) = IF a <= b THEN a ELSE b
<1> TAKE a, b \in Int
<1>1. PICK m : m = IF a <= b THEN a ELSE b  OBVIOUS
<1>2. m \in {a, b} /\ \A y \in {a, b} : m <= y  BY <1>1
<1>3. \A x \in {a, b} : (\A y \in {a, b} : x <= y) => x = m  BY <1>1, <1>2
<1>4. QED  BY <1>1, <1>2, <1>3 DEF Min

LEMMA MaxOfTwo == \A a, b \in Int : Max({a, b}) = IF a >= b THEN a ELSE b
<1> TAKE a, b \in Int
<1>1. PICK m : m = IF a >= b THEN a ELSE b  OBVIOUS
<1>2. m \in {a, b} /\ \A y \in {a, b} : m >= y  BY <1>1
<1>3. \A x \in {a, b} : (\A y \in {a, b} : x >= y) => x = m  BY <1>1, <1>2
<1>4. QED  BY <1>1, <1>2, <1>3 DEF Max

LEMMA OlderIs ==
    \A was, step, limit \in Nat :
        /\ Older(was, step, limit) \in Nat
        /\ Older(was, step, limit) <= was + step
        /\ Older(was, step, limit) = IF was + step <= limit THEN was + step ELSE limit + 1
<1> TAKE was, step, limit \in Nat
<1>1. Older(was, step, limit) = IF was + step <= limit + 1 THEN was + step ELSE limit + 1
  BY MinOfTwo DEF Older
<1>2. QED  BY <1>1

Packets == [kind : Doings \cup {"none", "spectator"}, looks : Looks, keys : SUBSET Buttons]
TurnStates ==
    [buttons : SUBSET Buttons, told : Packets, data : [Doings -> Packets], taken : BOOLEAN, putOff : BOOLEAN,
     sinceSend : Nat, sinceSpec : Nat, sinceAim : Nat, sinceUpdate : [Doings -> Nat]]

SyncTypeOK ==
    /\ doing \in Doings \cup {"neither"} /\ looks \in Looks /\ known \in BOOLEAN
    /\ m_bIsActive \in BOOLEAN /\ m_bIsSpectating \in BOOLEAN
    /\ buttons \in SUBSET Buttons /\ trigger \in SUBSET {"aim", "fire"}
    /\ sinceSend \in Nat /\ sinceSpec \in Nat /\ sinceAim \in Nat
    /\ sinceUpdate \in [Doings -> Nat]
    /\ data \in [Doings -> Packets] /\ told \in Packets
    /\ unseen \in Nat /\ volley \in 0 .. 2
    /\ syncPart \in SUBSET Doings

(* The last packet is the one stored of its kind. *)
ToldIsStored == told.kind \in Doings => told = data[told.kind]

(* How old the picture may be, by the ages of what sends the next packet:  *)
(* one that is like the last of its kind waits for Refresh, and every one  *)
(* for its turn.                                                           *)
Waits ==
    /\ ~Sends => unseen = 0
    /\ m_bIsSpectating => unseen <= sinceSpec /\ (unseen = 0 \/ sinceSpec <= SendRate)
    /\ ~m_bIsSpectating => unseen = 0 \/ sinceSend <= SendRate
    /\ ~m_bIsSpectating /\ told.kind = doing => unseen <= sinceSend
    /\ ~m_bIsSpectating /\ told.kind # doing /\ doing \in Doings =>
          unseen <= IF sinceUpdate[doing] <= Refresh THEN sinceUpdate[doing] ELSE Refresh + Longest + sinceSend

(* Of two turns one leaves the aim's its keys: the body's packet takes     *)
(* them only when it is due.                                               *)
AimWaits ==
    Longest <= SendRate /\ volley # 0 =>
        \/ sinceAim <= FireRate
        \/ sinceSend = 0 /\ (volley = 2 => sinceAim <= FireRate + Longest)

TellInv == SyncTypeOK /\ ToldIsStored /\ Waits /\ AimWaits

LEMMA TellHolds == TellInv => PlayerTold
<1> SUFFICES ASSUME TellInv PROVE PlayerTold  OBVIOUS
<1> USE SyncAssumption
<1>1. PictureFresh
  BY DEF TellInv, SyncTypeOK, Waits, PictureFresh, Kind, Sends, Doings
<1>2. ShotsAimed  BY DEF TellInv, SyncTypeOK, AimWaits, ShotsAimed
<1>3. QED  BY <1>1, <1>2 DEF PlayerTold

LEMMA NothingIsPacket == NothingYet \in Packets /\ NothingYet.kind = "none"
<1>1. (CHOOSE l \in Looks : TRUE) \in Looks  BY SyncAssumption
<1>2. QED  BY <1>1 DEF NothingYet, Packets

LEMMA TellStart == SyncInit => TellInv
<1> SUFFICES ASSUME SyncInit PROVE TellInv  OBVIOUS
<1> USE SyncAssumption
<1>1. SyncTypeOK
  <2>1. doing \in Doings /\ syncPart \in SUBSET Doings  BY DEF SyncInit, Doings
  <2>2. sinceUpdate \in [Doings -> Nat] /\ data \in [Doings -> Packets] /\ told \in Packets
    BY NothingIsPacket DEF SyncInit
  <2>3. looks \in Looks /\ known \in BOOLEAN /\ m_bIsActive \in BOOLEAN /\ m_bIsSpectating \in BOOLEAN
    BY DEF SyncInit
  <2>4. buttons \in SUBSET Buttons /\ trigger \in SUBSET {"aim", "fire"}  BY DEF SyncInit
  <2>5. /\ sinceSend \in Nat /\ sinceSpec \in Nat /\ sinceAim \in Nat /\ unseen \in Nat /\ volley \in 0 .. 2
    BY DEF SyncInit
  <2>6. QED  BY <2>1, <2>2, <2>3, <2>4, <2>5 DEF SyncTypeOK
<1>2. ToldIsStored  BY NothingIsPacket DEF SyncInit, ToldIsStored, Doings
<1>3. Waits  BY <1>1 DEF SyncInit, Waits, SyncTypeOK
<1>4. AimWaits  BY DEF SyncInit, AimWaits
<1>5. QED  BY <1>1, <1>2, <1>3, <1>4 DEF TellInv

-----------------------------------------------------------------------------
(* One turn *)

(* What a turn with a packet of the given kind does: it is sent and        *)
(* stored, or it is like the stored one, which was sent not long ago.      *)
SameClocks(s, t) ==
    /\ t.sinceSend = s.sinceSend /\ t.sinceSpec = s.sinceSpec /\ t.sinceAim = s.sinceAim
    /\ t.putOff = s.putOff
SamePackets(s, t) == t.told = s.told /\ t.data = s.data /\ t.sinceUpdate = s.sinceUpdate

Answers(s, t, kind) ==
    \/ t.told.kind = kind /\ t.told.looks = looks /\ t.data[kind] = t.told
    \/ /\ SamePackets(s, t) /\ s.sinceUpdate[kind] <= Refresh
       /\ s.data[kind].kind = kind /\ s.data[kind].looks = looks
Delivers(s, t, kind) == t \in TurnStates /\ SameClocks(s, t) /\ Answers(s, t, kind)

LEMMA SendSends ==
    ASSUME NEW s \in TurnStates, NEW kind \in Doings, NEW down \in SUBSET Buttons, looks \in Looks
    PROVE  /\ Delivers(s, SendUnlessRepeated(s, Packet(kind, down)), kind)
           /\ SendUnlessRepeated(s, Packet(kind, down)).taken = s.taken
<1> USE SyncAssumption
<1> DEFINE p == Packet(kind, down)
<1>1. p \in Packets /\ p.kind = kind /\ p.looks = looks  BY DEF Packet, Packets
<1> HIDE DEF p
<1>2. CASE s.sinceUpdate[kind] > Refresh \/ s.data[kind] # p
  <2>1. SendUnlessRepeated(s, p) = [s EXCEPT !.sinceUpdate = [s.sinceUpdate EXCEPT ![kind] = 0],
                                             !.data = [s.data EXCEPT ![kind] = p], !.told = p]
    BY <1>1, <1>2 DEF SendUnlessRepeated
  <2>2. /\ [s.sinceUpdate EXCEPT ![kind] = 0] \in [Doings -> Nat]
        /\ [s.data EXCEPT ![kind] = p] \in [Doings -> Packets]
        /\ [s.data EXCEPT ![kind] = p][kind] = p
    BY <1>1 DEF TurnStates
  <2>3. QED  BY <1>1, <2>1, <2>2 DEF Delivers, Answers, SameClocks, TurnStates, p
<1>3. CASE ~(s.sinceUpdate[kind] > Refresh \/ s.data[kind] # p)
  <2>1. SendUnlessRepeated(s, p) = s  BY <1>1, <1>3 DEF SendUnlessRepeated
  <2>2. s.sinceUpdate[kind] \in Nat  BY DEF TurnStates
  <2>3. QED  BY <1>1, <1>3, <2>1, <2>2 DEF Delivers, Answers, SameClocks, SamePackets, p
<1>4. QED  BY <1>2, <1>3

(* Taking the keys leaves the rest. *)
LEMMA KeysTaken ==
    ASSUME NEW s \in TurnStates
    PROVE  \A t \in {GetKeys(s), GetExtendedKeys(s)} :
              t \in TurnStates /\ SameClocks(s, t) /\ SamePackets(s, t) /\ t.taken = s.taken
<1>1. /\ GetKeys(s) = [s EXCEPT !.buttons = s.buttons \ {"alt"}]
      /\ GetExtendedKeys(s) = [s EXCEPT !.buttons = s.buttons \ {"yes"}]
  BY DEF GetKeys, GetExtendedKeys
<1>2. s.buttons \ {"alt"} \in SUBSET Buttons /\ s.buttons \ {"yes"} \in SUBSET Buttons  BY DEF TurnStates
<1>3. QED  BY <1>1, <1>2 DEF TurnStates, SameClocks, SamePackets

(* The packet of what the player is doing, if there is one to send.        *)
LEMMA SyncSends ==
    ASSUME NEW s \in TurnStates, NEW kind \in Doings, looks \in Looks
    PROVE  /\ kind = "foot" \/ known => Delivers(s, Sync(s, kind), kind)
           /\ Sync(s, kind) \in TurnStates /\ SameClocks(s, Sync(s, kind))
           /\ ~(kind = "foot" \/ known) => SamePackets(s, Sync(s, kind))
           /\ kind = "foot" => Sync(s, kind).taken = TRUE
<1>1. CASE kind = "foot"
  <2>1. PICK a : a = [s EXCEPT !.taken = TRUE]  OBVIOUS
  <2>2. a \in TurnStates /\ SameClocks(s, a) /\ SamePackets(s, a) /\ a.taken = TRUE
    BY <2>1 DEF TurnStates, SameClocks, SamePackets
  <2>3. PICK b : b = GetKeys(a)  OBVIOUS
  <2>4. b \in TurnStates /\ SameClocks(a, b) /\ SamePackets(a, b) /\ b.taken = a.taken  BY <2>2, <2>3, KeysTaken
  <2>5. PICK c : c = GetExtendedKeys(b)  OBVIOUS
  <2>6. c \in TurnStates /\ SameClocks(b, c) /\ SamePackets(b, c) /\ c.taken = b.taken  BY <2>4, <2>5, KeysTaken
  <2>7. a.buttons \in SUBSET Buttons  BY <2>2 DEF TurnStates
  <2>8. Sync(s, kind) = SendUnlessRepeated(c, Packet("foot", a.buttons))
    BY <1>1, <2>1, <2>3, <2>5 DEF Sync, SendOnFootFullSyncData
  <2>9. Delivers(c, Sync(s, kind), "foot") /\ Sync(s, kind).taken = c.taken
    BY <2>6, <2>7, <2>8, SendSends DEF Doings
  <2>10. QED  BY <1>1, <2>2, <2>4, <2>6, <2>9 DEF Delivers, Answers, SameClocks, SamePackets
<1>2. CASE kind # "foot" /\ known
  <2>1. PICK b : b = GetKeys(s)  OBVIOUS
  <2>2. b \in TurnStates /\ SameClocks(s, b) /\ SamePackets(s, b)  BY <2>1, KeysTaken
  <2>3. PICK c : c = IF kind = "driver" THEN GetExtendedKeys(b) ELSE b  OBVIOUS
  <2>4. c \in TurnStates /\ SameClocks(b, c) /\ SamePackets(b, c)
    <3>1. CASE kind = "driver"  BY <2>2, <2>3, <3>1, KeysTaken
    <3>2. CASE kind # "driver"  BY <2>2, <2>3, <3>2 DEF SameClocks, SamePackets
    <3>3. QED  BY <3>1, <3>2
  <2>5. PICK down : down = IF kind = "driver" THEN s.buttons ELSE s.buttons \cap {"alt"}  OBVIOUS
  <2>6. down \in SUBSET Buttons  BY <2>5 DEF TurnStates
  <2>7. Sync(s, kind) = SendUnlessRepeated(c, Packet(kind, down))
    BY <1>2, <2>1, <2>3, <2>5 DEF Sync, SendInCarFullSyncData, SendPassengerFullSyncData, Doings
  <2>8. Delivers(c, Sync(s, kind), kind)  BY <2>4, <2>6, <2>7, SendSends
  <2>9. QED  BY <1>2, <2>2, <2>4, <2>8 DEF Delivers, Answers, SameClocks, SamePackets
<1>3. CASE kind # "foot" /\ ~known
  <2>1. Sync(s, kind) = GetKeys(s)
    BY <1>3 DEF Sync, SendInCarFullSyncData, SendPassengerFullSyncData, Doings
  <2>2. QED  BY <1>3, <2>1, KeysTaken
<1>4. QED  BY <1>1, <1>2, <1>3

(* The same at the send rate. *)
LEMMA DueSends ==
    ASSUME NEW s \in TurnStates, NEW kind \in Doings, looks \in Looks
    PROVE  LET t == WhenDue(s, kind)
               sent == [s EXCEPT !.sinceSend = 0]
           IN  /\ t \in TurnStates
               /\ s.sinceSend <= SendRate => t = s
               /\ s.sinceSend > SendRate =>
                     /\ SameClocks(sent, t)
                     /\ kind = "foot" \/ known => Delivers(sent, t, kind)
                     /\ ~(kind = "foot" \/ known) => SamePackets(sent, t)
                     /\ kind = "foot" => t.taken = TRUE
<1> USE SyncAssumption
<1>1. s.sinceSend \in Nat  BY DEF TurnStates
<1>2. PICK sent : sent = [s EXCEPT !.sinceSend = 0]  OBVIOUS
<1>3. sent \in TurnStates  BY <1>2 DEF TurnStates
<1>4. WhenDue(s, kind) = IF s.sinceSend > SendRate THEN Sync(sent, kind) ELSE s  BY <1>2 DEF WhenDue
<1>5. CASE s.sinceSend > SendRate
  <2>1. WhenDue(s, kind) = Sync(sent, kind) /\ ~(s.sinceSend <= SendRate)  BY <1>1, <1>4, <1>5
  <2>2. /\ kind = "foot" \/ known => Delivers(sent, Sync(sent, kind), kind)
        /\ Sync(sent, kind) \in TurnStates /\ SameClocks(sent, Sync(sent, kind))
        /\ ~(kind = "foot" \/ known) => SamePackets(sent, Sync(sent, kind))
        /\ kind = "foot" => Sync(sent, kind).taken = TRUE
    BY <1>3, SyncSends
  <2>3. QED  BY <1>2, <2>1, <2>2
<1>6. CASE ~(s.sinceSend > SendRate)  BY <1>1, <1>4, <1>6
<1>7. QED  BY <1>5, <1>6

(* A button on foot puts the next packet off and sends nothing. *)
LEMMA OnKeyPutsOff ==
    ASSUME NEW s \in TurnStates
    PROVE  LET t == OnKey(s) IN
           /\ t \in TurnStates /\ SamePackets(s, t) /\ t.taken = s.taken
           /\ t.sinceSpec = s.sinceSpec /\ t.sinceAim = s.sinceAim
           /\ \/ t = s /\ s.sinceSend <= SendRate
              \/ t.putOff = TRUE /\ t.sinceSend = 0
<1> USE SyncAssumption
<1>1. s.sinceSend \in Nat  BY DEF TurnStates
<1>2. PICK a : a = [s EXCEPT !.sinceSend = 0, !.putOff = TRUE]  OBVIOUS
<1>3. a \in TurnStates /\ SamePackets(s, a) /\ a.taken = s.taken
      /\ a.sinceSpec = s.sinceSpec /\ a.sinceAim = s.sinceAim /\ a.putOff = TRUE /\ a.sinceSend = 0
  BY <1>2 DEF TurnStates, SamePackets
<1>4. OnKey(s) = GetExtendedKeys(a) \/ (OnKey(s) = s /\ s.sinceSend <= SendRate)
  BY <1>1, <1>2 DEF OnKey, SendOnKeyFullSyncData
<1>5. CASE OnKey(s) = GetExtendedKeys(a)
  BY <1>3, <1>5, KeysTaken DEF SameClocks, SamePackets
<1>6. CASE OnKey(s) = s /\ s.sinceSend <= SendRate  BY <1>6 DEF SamePackets
<1>7. QED  BY <1>4, <1>5, <1>6

(* The aim's turn changes the aim's clock alone. *)
LEMMA AimSends ==
    ASSUME NEW s \in TurnStates
    PROVE  LET t == SendAimSyncData(s) IN
           /\ t \in TurnStates /\ SamePackets(s, t)
           /\ t.sinceSend = s.sinceSend /\ t.sinceSpec = s.sinceSpec /\ t.putOff = s.putOff
           /\ t.sinceAim = IF s.sinceAim > AimLimit(s) THEN 0 ELSE s.sinceAim
<1>1. PICK a : a = GetKeys(s)  OBVIOUS
<1>2. a \in TurnStates /\ SameClocks(s, a) /\ SamePackets(s, a)  BY <1>1, KeysTaken
<1>3. SendAimSyncData(s) = IF s.sinceAim > AimLimit(s) THEN [a EXCEPT !.sinceAim = 0] ELSE a
  BY <1>1 DEF SendAimSyncData
<1>4. QED  BY <1>2, <1>3 DEF TurnStates, SameClocks, SamePackets

(* While he aims and fires, it waits for the fire rate, or for the aim's   *)
(* where the body's packet has taken the keys.                             *)
LEMMA LimitOfAim ==
    ASSUME trigger = {"aim", "fire"}, NEW s \in TurnStates
    PROVE  AimLimit(s) = IF s.taken THEN AimRate ELSE FireRate
BY DEF AimLimit, TurnStates

-----------------------------------------------------------------------------
(* One turn of a player who is active and no spectator *)

Turned(f, t) ==
    /\ t \in TurnStates /\ t.sinceSpec = f.sinceSpec
    /\ \/ /\ f.sinceSend <= SendRate /\ SamePackets(f, t)
          /\ t.sinceSend = f.sinceSend \/ (t.putOff = TRUE /\ t.sinceSend = 0)
       \/ /\ f.sinceSend > SendRate /\ t.sinceSend = 0
          /\ Answers(f, t, doing) \/ (~known /\ SamePackets(f, t))

(* The due part, for every kind. *)
LEMMA DueTurns ==
    ASSUME NEW f \in TurnStates, doing \in Doings, looks \in Looks
    PROVE  Turned(f, WhenDue(f, doing)) /\ WhenDue(f, doing).sinceAim = f.sinceAim
<1> USE SyncAssumption
<1>1. f.sinceSend \in Nat  BY DEF TurnStates
<1>2. PICK sent : sent = [f EXCEPT !.sinceSend = 0]  OBVIOUS
<1>3. /\ sent.sinceSpec = f.sinceSpec /\ sent.sinceAim = f.sinceAim /\ sent.sinceSend = 0
      /\ SamePackets(f, sent) /\ sent.sinceUpdate = f.sinceUpdate /\ sent.data = f.data
  BY <1>2 DEF TurnStates, SamePackets
<1>4. PICK t : t = WhenDue(f, doing)  OBVIOUS
<1>5. /\ t \in TurnStates
      /\ f.sinceSend <= SendRate => t = f
      /\ f.sinceSend > SendRate =>
            /\ SameClocks(sent, t)
            /\ doing = "foot" \/ known => Delivers(sent, t, doing)
            /\ ~(doing = "foot" \/ known) => SamePackets(sent, t)
  BY <1>2, <1>4, DueSends
<1>6. CASE f.sinceSend > SendRate
  <2>1. t.sinceSend = 0 /\ t.sinceSpec = f.sinceSpec /\ t.sinceAim = f.sinceAim
    BY <1>3, <1>5, <1>6 DEF SameClocks
  <2>2. SamePackets(sent, t) => SamePackets(f, t)  BY <1>3 DEF SamePackets
  <2>3. Answers(sent, t, doing) => Answers(f, t, doing)  BY <1>3, <2>2 DEF Answers
  <2>4. QED  BY <1>4, <1>5, <1>6, <2>1, <2>2, <2>3 DEF Turned, Delivers
<1>7. CASE f.sinceSend <= SendRate  BY <1>4, <1>5, <1>7 DEF Turned, SamePackets
<1>8. QED  BY <1>1, <1>6, <1>7

(* On foot, with the button's branch and the aim. *)
LEMMA FootTurns ==
    ASSUME NEW f \in TurnStates, doing = "foot", looks \in Looks, f.taken = FALSE
    PROVE  LET t == SendAimSyncData(OnKey(WhenDue(f, "foot")))
           IN  /\ Turned(f, t)
               /\ trigger = {"aim", "fire"} =>
                     t.sinceAim <= FireRate \/ (f.sinceSend > SendRate /\ t.sinceAim <= f.sinceAim)
<1> USE SyncAssumption
<1>1. f.sinceSend \in Nat /\ f.sinceAim \in Nat  BY DEF TurnStates
<1>2. PICK a : a = WhenDue(f, "foot")  OBVIOUS
<1>3. Turned(f, a) /\ a.sinceAim = f.sinceAim  BY <1>2, DueTurns DEF Doings
<1>4. a \in TurnStates  BY <1>3 DEF Turned
<1>5. f.sinceSend <= SendRate => a.taken = FALSE  BY <1>2, DueSends DEF Doings
<1>6. PICK b : b = OnKey(a)  OBVIOUS
<1>7. /\ b \in TurnStates /\ SamePackets(a, b) /\ b.taken = a.taken
      /\ b.sinceSpec = a.sinceSpec /\ b.sinceAim = a.sinceAim
      /\ b = a \/ (b.putOff = TRUE /\ b.sinceSend = 0)
  BY <1>4, <1>6, OnKeyPutsOff
<1>8. PICK t : t = SendAimSyncData(b)  OBVIOUS
<1>9. /\ t \in TurnStates /\ SamePackets(b, t)
      /\ t.sinceSend = b.sinceSend /\ t.sinceSpec = b.sinceSpec /\ t.putOff = b.putOff
      /\ t.sinceAim = IF b.sinceAim > AimLimit(b) THEN 0 ELSE b.sinceAim
  BY <1>7, <1>8, AimSends
<1>10. SamePackets(a, t)  BY <1>7, <1>9 DEF SamePackets
<1>11. t.sinceSend = a.sinceSend \/ (t.putOff = TRUE /\ t.sinceSend = 0)  BY <1>7, <1>9
<1>12. Turned(f, t)
  <2>1. SamePackets(f, a) => SamePackets(f, t)  BY <1>10 DEF SamePackets
  <2>2. Answers(f, a, doing) => Answers(f, t, doing)  BY <1>10, <2>1 DEF Answers, SamePackets
  <2>3. t \in TurnStates /\ t.sinceSpec = f.sinceSpec  BY <1>3, <1>7, <1>9 DEF Turned
  <2>4. CASE f.sinceSend <= SendRate
    <3>1. SamePackets(f, a) /\ (a.sinceSend = f.sinceSend \/ (a.putOff = TRUE /\ a.sinceSend = 0))
      BY <1>1, <1>3, <2>4 DEF Turned
    <3>2. a = f  BY <1>2, <2>4, DueSends DEF Doings
    <3>3. QED  BY <1>11, <2>1, <2>3, <2>4, <3>1, <3>2 DEF Turned
  <2>5. CASE f.sinceSend > SendRate
    <3>1. a.sinceSend = 0 /\ (Answers(f, a, doing) \/ (~known /\ SamePackets(f, a)))
      BY <1>1, <1>3, <2>5 DEF Turned
    <3>2. QED  BY <1>11, <2>1, <2>2, <2>3, <2>5, <3>1 DEF Turned
  <2>6. QED  BY <1>1, <2>4, <2>5
<1>13. ASSUME trigger = {"aim", "fire"}
       PROVE  t.sinceAim <= FireRate \/ (f.sinceSend > SendRate /\ t.sinceAim <= f.sinceAim)
  <2>1. AimLimit(b) = IF b.taken THEN AimRate ELSE FireRate  BY <1>7, <1>13, LimitOfAim
  <2>2. b.sinceAim = f.sinceAim  BY <1>3, <1>7
  <2>3. CASE f.sinceSend > SendRate  BY <1>1, <1>9, <2>2, <2>3
  <2>4. CASE f.sinceSend <= SendRate
    <3>1. AimLimit(b) = FireRate  BY <1>5, <1>7, <2>1, <2>4
    <3>2. QED  BY <1>1, <1>9, <2>2, <3>1
  <2>5. QED  BY <1>1, <2>3, <2>4
<1>14. QED  BY <1>2, <1>6, <1>8, <1>12, <1>13

LEMMA ActiveTurns ==
    ASSUME NEW f \in TurnStates, SyncTypeOK, f.taken = FALSE,
           ~m_bIsSpectating, m_bIsActive, doing # "neither"
    PROVE  /\ Turned(f, Turn(f))
           /\ doing = "foot" /\ trigger = {"aim", "fire"} =>
                 Turn(f).sinceAim <= FireRate \/ (f.sinceSend > SendRate /\ Turn(f).sinceAim <= f.sinceAim)
<1>1. doing \in Doings /\ looks \in Looks  BY DEF SyncTypeOK
<1>2. CASE doing = "foot"
  <2>1. Turn(f) = SendAimSyncData(OnKey(WhenDue(f, "foot")))  BY <1>2 DEF Turn
  <2>2. QED  BY <1>1, <1>2, <2>1, FootTurns
<1>3. CASE doing # "foot"
  <2>1. Turn(f) = WhenDue(f, doing)  BY <1>3 DEF Turn
  <2>2. QED  BY <1>1, <1>3, <2>1, DueTurns
<1>4. QED  BY <1>2, <1>3

LEMMA SpectatorTurns ==
    ASSUME NEW f \in TurnStates, SyncTypeOK, m_bIsSpectating
    PROVE  LET t == Turn(f)
           IN  /\ t \in TurnStates /\ t.data = f.data /\ t.sinceUpdate = f.sinceUpdate
               /\ \/ t.told.kind = "spectator" /\ t.told.looks = looks
                  \/ f.sinceSpec <= SendRate /\ t.sinceSpec = f.sinceSpec /\ t.told = f.told
<1> USE SyncAssumption
<1>1. PICK a : a = GetKeys(f)  OBVIOUS
<1>2. a \in TurnStates /\ SameClocks(f, a) /\ SamePackets(f, a)  BY <1>1, KeysTaken
<1>3. f.sinceSpec \in Nat  BY DEF TurnStates
<1>4. PICK p : p = Packet("spectator", f.buttons \cap {"alt"})  OBVIOUS
<1>5. p \in Packets /\ p.kind = "spectator" /\ p.looks = looks
  BY <1>4 DEF Packet, Packets, SyncTypeOK, TurnStates
<1>6. Turn(f) = IF f.sinceSpec > SendRate THEN [a EXCEPT !.sinceSpec = 0, !.told = p] ELSE a
  BY <1>1, <1>4 DEF Turn, ProcessSpectating
<1>7. CASE f.sinceSpec > SendRate
  <2>1. Turn(f) = [a EXCEPT !.sinceSpec = 0, !.told = p]  BY <1>6, <1>7
  <2>2. PICK t : t = Turn(f)  OBVIOUS
  <2>3. t.told = p /\ t.data = a.data /\ t.sinceUpdate = a.sinceUpdate
    BY <1>2, <2>1, <2>2 DEF TurnStates
  <2>5. t \in TurnStates
    <3>1. t = [buttons |-> a.buttons, told |-> p, data |-> a.data, taken |-> a.taken, putOff |-> a.putOff,
               sinceSend |-> a.sinceSend, sinceSpec |-> 0, sinceAim |-> a.sinceAim,
               sinceUpdate |-> a.sinceUpdate]
      BY <1>2, <2>1, <2>2 DEF TurnStates
    <3>2. /\ a.buttons \in SUBSET Buttons /\ a.data \in [Doings -> Packets] /\ a.taken \in BOOLEAN
          /\ a.putOff \in BOOLEAN /\ a.sinceSend \in Nat /\ a.sinceAim \in Nat
          /\ a.sinceUpdate \in [Doings -> Nat]
      BY <1>2 DEF TurnStates
    <3>3. QED  BY <1>5, <3>1, <3>2 DEF TurnStates
  <2>4. QED  BY <1>2, <1>5, <2>2, <2>3, <2>5 DEF SamePackets
<1>8. CASE ~(f.sinceSpec > SendRate)
  <2>1. Turn(f) = a  BY <1>6, <1>8
  <2>2. QED  BY <1>2, <1>3, <1>8, <2>1 DEF SameClocks, SamePackets
<1>9. QED  BY <1>7, <1>8

-----------------------------------------------------------------------------
(* A frame *)

(* What a turn makes of the ages and the packets is what the frame does.   *)
LEMMA FrameKeeps == ASSUME TellInv, NEW step \in Steps, Frame(step) PROVE TellInv'
<1> USE SyncAssumption
<1>0. SendRate \in Nat /\ Refresh \in Nat /\ HeadRate \in Nat /\ FireRate \in Nat /\ Longest \in Nat
  OBVIOUS
<1> USE <1>0
<1>1. step \in Nat /\ step <= Longest  BY DEF Steps
<1>2. /\ sinceSend \in Nat /\ sinceSpec \in Nat /\ sinceAim \in Nat /\ unseen \in Nat /\ volley \in 0 .. 2
      /\ sinceUpdate \in [Doings -> Nat] /\ data \in [Doings -> Packets] /\ told \in Packets
      /\ buttons \in SUBSET Buttons /\ SyncTypeOK
  BY DEF TellInv, SyncTypeOK
<1>3. PICK u \in [Doings -> Nat] : u = [k \in Doings |-> Older(sinceUpdate[k], step, Refresh)]
  BY <1>1, <1>2, OlderIs
<1>4. PICK f : f = [buttons |-> buttons, told |-> told, data |-> data, taken |-> FALSE, putOff |-> FALSE,
                    sinceSend |-> Older(sinceSend, step, SendRate),
                    sinceSpec |-> Older(sinceSpec, step, SendRate),
                    sinceAim |-> Older(sinceAim, step, HeadRate),
                    sinceUpdate |-> u]
  OBVIOUS
<1>5. /\ f.sinceSend = Older(sinceSend, step, SendRate) /\ f.sinceSpec = Older(sinceSpec, step, SendRate)
      /\ f.sinceAim = Older(sinceAim, step, HeadRate) /\ f.sinceUpdate = u
      /\ f.told = told /\ f.data = data /\ f.taken = FALSE /\ f.putOff = FALSE
  BY <1>4
<1>6. f \in TurnStates
  <2>1. /\ Older(sinceSend, step, SendRate) \in Nat /\ Older(sinceSpec, step, SendRate) \in Nat
        /\ Older(sinceAim, step, HeadRate) \in Nat
    BY <1>1, <1>2, OlderIs
  <2>2. QED  BY <1>2, <1>3, <1>4, <2>1 DEF TurnStates
<1>7. PICK t : t = Turn(f)  OBVIOUS
<1>8. /\ buttons' = t.buttons /\ told' = t.told /\ data' = t.data
      /\ sinceSend' = t.sinceSend /\ sinceSpec' = t.sinceSpec /\ sinceAim' = t.sinceAim
      /\ sinceUpdate' = t.sinceUpdate
      /\ unseen' = IF ~Sends \/ t.putOff \/ Says(t.told) THEN 0
                   ELSE Older(unseen, step, SendRate + Refresh + 2 * Longest)
      /\ volley' = IF Sends /\ Kind = "foot" /\ trigger = {"aim", "fire"} THEN Min({volley + 1, 2}) ELSE 0
      /\ UNCHANGED <<doing, looks, known, m_bIsActive, m_bIsSpectating, trigger, syncPart>>
  BY <1>3, <1>4, <1>7 DEF Frame
<1>9. /\ unseen' \in Nat /\ unseen' <= unseen + step
      /\ ~Sends \/ t.putOff \/ Says(t.told) => unseen' = 0
  <2>0. SendRate + Refresh + 2 * Longest \in Nat  OBVIOUS
  <2>1. /\ Older(unseen, step, SendRate + Refresh + 2 * Longest) \in Nat
        /\ Older(unseen, step, SendRate + Refresh + 2 * Longest) <= unseen + step
    BY <1>1, <1>2, <2>0, OlderIs
  <2>2. QED  BY <1>1, <1>2, <1>8, <2>1
<1>10. /\ volley' \in 0 .. 2
       /\ volley' # 0 => Sends /\ Kind = "foot" /\ trigger = {"aim", "fire"}
       /\ volley' = 2 => volley # 0
  BY <1>2, <1>8, MinOfTwo
<1>11. ~Sends /\ ~m_bIsSpectating /\ ~(m_bIsActive /\ doing # "neither") => t = f  BY <1>7 DEF Turn
<1>12. ~m_bIsSpectating /\ m_bIsActive /\ doing # "neither" =>
         /\ Turned(f, t)
         /\ doing = "foot" /\ trigger = {"aim", "fire"} =>
               t.sinceAim <= FireRate \/ (f.sinceSend > SendRate /\ t.sinceAim <= f.sinceAim)
  BY <1>2, <1>5, <1>6, <1>7, ActiveTurns
<1>13. m_bIsSpectating =>
         /\ t \in TurnStates /\ t.data = f.data /\ t.sinceUpdate = f.sinceUpdate
         /\ \/ t.told.kind = "spectator" /\ t.told.looks = looks
            \/ f.sinceSpec <= SendRate /\ t.sinceSpec = f.sinceSpec /\ t.told = f.told
  BY <1>2, <1>6, <1>7, SpectatorTurns
<1>14. t \in TurnStates  BY <1>6, <1>11, <1>12, <1>13 DEF Turned, Sends
<1>15. SyncTypeOK'
  <2>1. /\ sinceSend' \in Nat /\ sinceSpec' \in Nat /\ sinceAim' \in Nat /\ sinceUpdate' \in [Doings -> Nat]
        /\ data' \in [Doings -> Packets] /\ told' \in Packets /\ buttons' \in SUBSET Buttons
    BY <1>8, <1>14 DEF TurnStates
  <2>2. /\ doing' = doing /\ looks' = looks /\ known' = known /\ m_bIsActive' = m_bIsActive
        /\ m_bIsSpectating' = m_bIsSpectating /\ trigger' = trigger /\ syncPart' = syncPart
    BY <1>8
  <2>3. QED  BY <1>2, <1>9, <1>10, <2>1, <2>2 DEF SyncTypeOK
<1>16. ToldIsStored /\ Waits /\ AimWaits  BY DEF TellInv
<1>17. ToldIsStored'
  <2>1. ToldIsStored => (f.told.kind \in Doings => f.told = f.data[f.told.kind])  BY <1>5 DEF ToldIsStored
  <2>2. t.told.kind \in Doings => t.told = t.data[t.told.kind]
    <3>1. CASE m_bIsSpectating  BY <1>13, <1>16, <2>1, <3>1 DEF Doings
    <3>2. CASE ~m_bIsSpectating /\ m_bIsActive /\ doing # "neither"
      BY <1>12, <1>16, <2>1, <3>2 DEF Turned, Answers, SamePackets
    <3>3. CASE ~m_bIsSpectating /\ ~(m_bIsActive /\ doing # "neither")
      BY <1>11, <1>16, <2>1, <3>3 DEF Sends
    <3>4. QED  BY <3>1, <3>2, <3>3
  <2>3. QED  BY <1>8, <2>2 DEF ToldIsStored
<1>18. /\ f.sinceSend = IF sinceSend + step <= SendRate THEN sinceSend + step ELSE SendRate + 1
       /\ f.sinceSpec = IF sinceSpec + step <= SendRate THEN sinceSpec + step ELSE SendRate + 1
       /\ f.sinceAim <= sinceAim + step /\ f.sinceAim \in Nat /\ f.sinceSend \in Nat
  <2>1. Older(sinceSend, step, SendRate) = IF sinceSend + step <= SendRate THEN sinceSend + step ELSE SendRate + 1
    BY <1>1, <1>2, OlderIs
  <2>2. Older(sinceSpec, step, SendRate) = IF sinceSpec + step <= SendRate THEN sinceSpec + step ELSE SendRate + 1
    BY <1>1, <1>2, OlderIs
  <2>3. Older(sinceAim, step, HeadRate) <= sinceAim + step /\ Older(sinceAim, step, HeadRate) \in Nat
    BY <1>1, <1>2, OlderIs
  <2>4. QED  BY <1>1, <1>2, <1>5, <2>1, <2>2, <2>3
<1>19. Sends' = Sends /\ (\A x \in Nat : Refresh + Longest + x \in Nat)
  BY <1>8 DEF Sends
<1>20. Waits'
  <2>1. CASE unseen' = 0  BY <1>8, <1>14, <1>19, <2>1 DEF Waits, TurnStates
  <2>2. CASE unseen' # 0
    <3>1. Sends /\ t.putOff # TRUE /\ ~Says(t.told)  BY <1>9, <2>2
    <3>2. CASE m_bIsSpectating
      <4>1. f.sinceSpec <= SendRate /\ t.sinceSpec = f.sinceSpec  BY <1>13, <3>1, <3>2 DEF Says, Kind
      <4>2. t.sinceSpec = sinceSpec + step /\ t.sinceSpec <= SendRate  BY <1>1, <1>2, <1>18, <4>1
      <4>3. unseen <= sinceSpec  BY <1>16, <3>2 DEF Waits
      <4>4. QED  BY <1>1, <1>2, <1>8, <1>9, <1>19, <3>1, <3>2, <4>2, <4>3 DEF Waits
    <3>3. CASE ~m_bIsSpectating
      <4>1. m_bIsActive /\ doing # "neither" /\ known  BY <3>1, <3>3 DEF Sends
      <4>2. Turned(f, t)  BY <1>12, <3>3, <4>1
      <4>3. doing \in Doings /\ Kind = doing  BY <1>2, <3>3, <4>1 DEF SyncTypeOK, Kind
      <4>4. PICK w : w = sinceUpdate[doing]  OBVIOUS
      <4>5. w \in Nat /\ u[doing] = IF w + step <= Refresh THEN w + step ELSE Refresh + 1
        BY <1>1, <1>2, <1>3, <4>3, <4>4, OlderIs
      <4>6. SamePackets(f, t)
        BY <3>1, <4>1, <4>2, <4>3 DEF Turned, Answers, Says
      <4>7. told' = told /\ data' = data /\ sinceUpdate' = u  BY <1>5, <1>8, <4>6 DEF SamePackets
      <4>8. /\ told.kind = doing => unseen <= sinceSend
            /\ told.kind # doing => unseen <= IF w <= Refresh THEN w ELSE Refresh + Longest + sinceSend
        BY <1>16, <3>3, <4>3, <4>4 DEF Waits
      <4>9. CASE f.sinceSend <= SendRate
        <5>0. t.sinceSend = f.sinceSend \/ t.putOff = TRUE  BY <1>18, <4>2, <4>9 DEF Turned
        <5>1. t.sinceSend = f.sinceSend  BY <3>1, <5>0
        <5>2. sinceSend' = sinceSend + step /\ sinceSend' <= SendRate  BY <1>1, <1>2, <1>8, <1>18, <4>9, <5>1
        <5>3. told.kind = doing => unseen' <= sinceSend'  BY <1>1, <1>2, <1>9, <4>8, <5>2
        <5>4. told.kind # doing =>
                unseen' <= IF u[doing] <= Refresh THEN u[doing] ELSE Refresh + Longest + sinceSend'
          BY <1>1, <1>2, <1>9, <4>5, <4>8, <5>2
        <5>5. QED  BY <1>8, <1>19, <3>1, <3>3, <4>7, <5>2, <5>3, <5>4 DEF Waits
      <4>10. CASE f.sinceSend > SendRate
        <5>1. sinceSend' = 0 /\ Answers(f, t, doing)  BY <1>8, <1>18, <4>1, <4>2, <4>10 DEF Turned
        <5>2. u[doing] <= Refresh /\ data[doing].kind = doing /\ data[doing].looks = looks
          BY <1>5, <3>1, <4>3, <5>1 DEF Answers, Says
        <5>3. told.kind # doing
          <6>1. told.kind = doing => told = data[doing]  BY <1>16, <4>3 DEF ToldIsStored
          <6>2. t.told = told  BY <1>8, <4>7
          <6>3. QED  BY <3>1, <4>3, <5>2, <6>1, <6>2 DEF Says
        <5>4. unseen' <= u[doing]  BY <1>1, <1>2, <1>9, <4>5, <4>8, <5>2, <5>3
        <5>5. QED  BY <1>8, <1>19, <3>1, <3>3, <4>7, <5>1, <5>2, <5>3, <5>4 DEF Waits
      <4>11. QED  BY <1>18, <1>2, <1>1, <4>9, <4>10
    <3>4. QED  BY <3>2, <3>3
  <2>3. QED  BY <2>1, <2>2
<1>21. AimWaits'
  <2>1. SUFFICES ASSUME Longest <= SendRate, volley' # 0
                 PROVE  \/ sinceAim' <= FireRate
                        \/ sinceSend' = 0 /\ (volley' = 2 => sinceAim' <= FireRate + Longest)
    BY DEF AimWaits
  <2>2. ~m_bIsSpectating /\ m_bIsActive /\ doing = "foot" /\ trigger = {"aim", "fire"}
    BY <1>10, <2>1 DEF Sends, Kind
  <2>3. Turned(f, t) /\ (t.sinceAim <= FireRate \/ (f.sinceSend > SendRate /\ t.sinceAim <= f.sinceAim))
    BY <1>12, <2>2
  <2>4. CASE t.sinceAim <= FireRate  BY <1>8, <2>4
  <2>5. CASE f.sinceSend > SendRate /\ t.sinceAim <= f.sinceAim
    <3>1. sinceSend' = 0  BY <1>8, <1>18, <2>3, <2>5 DEF Turned
    <3>2. ASSUME volley' = 2 PROVE sinceAim' <= FireRate + Longest
      <4>1. sinceAim <= FireRate \/ sinceSend = 0  BY <1>10, <1>16, <2>1, <3>2 DEF AimWaits
      <4>2. sinceSend # 0  BY <1>1, <1>18, <2>1, <2>5
      <4>3. t.sinceAim \in Nat  BY <1>14 DEF TurnStates
      <4>4. QED  BY <1>1, <1>2, <1>8, <1>18, <2>5, <4>1, <4>2, <4>3
    <3>3. QED  BY <3>1, <3>2
  <2>6. QED  BY <2>3, <2>4, <2>5
<1>22. QED  BY <1>15, <1>17, <1>20, <1>21 DEF TellInv

-----------------------------------------------------------------------------
(* Every step *)

LEMMA TellStep == TellInv /\ [SyncNext]_syncVars => TellInv'
<1> SUFFICES ASSUME TellInv, [SyncNext]_syncVars PROVE TellInv'  OBVIOUS
<1> USE SyncAssumption
<1>1. SyncTypeOK /\ ToldIsStored /\ Waits /\ AimWaits  BY DEF TellInv
<1>2. ASSUME UNCHANGED syncVars PROVE TellInv'
  <2>1. /\ UNCHANGED <<doing, looks, known, m_bIsActive, m_bIsSpectating, buttons, trigger, syncPart>>
        /\ UNCHANGED <<sinceSend, sinceSpec, sinceAim, sinceUpdate, data, told, unseen, volley>>
    BY <1>2 DEF syncVars, pace, stored
  <2>2. QED  BY <2>1 DEF TellInv, SyncTypeOK, ToldIsStored, Waits, AimWaits, Sends
<1>3. ASSUME NEW l \in Looks, Moves(l) PROVE TellInv'
  <2>1. /\ UNCHANGED <<doing, known, m_bIsActive, m_bIsSpectating, buttons, trigger, syncPart>>
        /\ UNCHANGED <<sinceSend, sinceSpec, sinceAim, sinceUpdate, data, told, unseen, volley>>
        /\ looks' = l
    BY <1>3 DEF Moves, pace, stored
  <2>2. QED  BY <1>3, <2>1 DEF TellInv, SyncTypeOK, ToldIsStored, Waits, AimWaits, Sends
<1>4. ASSUME NEW what \in Doings \cup {"neither"}, NEW there \in BOOLEAN, Does(what, there) PROVE TellInv'
  <2>1. /\ UNCHANGED <<looks, m_bIsActive, m_bIsSpectating, buttons, trigger, syncPart>>
        /\ UNCHANGED <<sinceSend, sinceSpec, sinceAim, sinceUpdate, data, told>>
        /\ doing' = what /\ known' = there /\ unseen' = 0 /\ volley' = 0
    BY <1>4 DEF Does, pace, stored
  <2>2. SyncTypeOK'  BY <1>1, <2>1 DEF SyncTypeOK
  <2>3. ToldIsStored' /\ Waits' /\ AimWaits'
    BY <1>1, <2>1, <2>2 DEF SyncTypeOK, ToldIsStored, Waits, AimWaits
  <2>4. QED  BY <2>2, <2>3 DEF TellInv
<1>5. ASSUME NEW active \in BOOLEAN, NEW spectating \in BOOLEAN, Becomes(active, spectating) PROVE TellInv'
  <2>1. /\ UNCHANGED <<doing, looks, known, buttons, trigger, syncPart>>
        /\ UNCHANGED <<sinceSend, sinceSpec, sinceAim, sinceUpdate, data, told>>
        /\ m_bIsActive' = active /\ m_bIsSpectating' = spectating /\ unseen' = 0 /\ volley' = 0
    BY <1>5 DEF Becomes, pace, stored
  <2>2. SyncTypeOK'  BY <1>1, <2>1 DEF SyncTypeOK
  <2>3. ToldIsStored' /\ Waits' /\ AimWaits'
    BY <1>1, <2>1, <2>2 DEF SyncTypeOK, ToldIsStored, Waits, AimWaits
  <2>4. QED  BY <2>2, <2>3 DEF TellInv
<1>6. ASSUME NEW b \in Buttons, Push(b) PROVE TellInv'
  <2>1. /\ UNCHANGED <<doing, looks, known, m_bIsActive, m_bIsSpectating, trigger, syncPart>>
        /\ UNCHANGED <<sinceSend, sinceSpec, sinceAim, sinceUpdate, data, told, unseen, volley>>
        /\ buttons' = buttons \cup {b}
    BY <1>6 DEF Push, pace, stored
  <2>2. buttons' \in SUBSET Buttons  BY <1>1, <1>6, <2>1 DEF SyncTypeOK
  <2>3. QED  BY <2>1, <2>2 DEF TellInv, SyncTypeOK, ToldIsStored, Waits, AimWaits, Sends
<1>7. ASSUME NEW down \in SUBSET {"aim", "fire"}, Aims(down) PROVE TellInv'
  <2>1. /\ UNCHANGED <<doing, looks, known, m_bIsActive, m_bIsSpectating, buttons, syncPart>>
        /\ UNCHANGED <<sinceSend, sinceSpec, sinceAim, sinceUpdate, data, told, unseen>>
        /\ trigger' = down /\ volley' = 0
    BY <1>7 DEF Aims, pace, stored
  <2>2. QED  BY <1>7, <2>1 DEF TellInv, SyncTypeOK, ToldIsStored, Waits, AimWaits, Sends
<1>8. ASSUME NEW step \in Steps, Frame(step) PROVE TellInv'  BY <1>8, FrameKeeps
<1>9. syncPart \subseteq Doings  BY <1>1 DEF SyncTypeOK
<1>10. QED  BY <1>2, <1>3, <1>4, <1>5, <1>6, <1>7, <1>8, <1>9 DEF SyncNext

(* For any rates, looks and frames no longer than a bound: what the server *)
(* has of the local player is never older than the rates allow, and a shot *)
(* is aimed.                                                               *)
THEOREM ToldInTime == PlayerSpec => []PlayerTold
<1>1. PlayerInit => TellInv  BY TellStart DEF PlayerInit
<1>2. TellInv /\ [PlayerNext]_playerVars => TellInv'
  <2> SUFFICES ASSUME TellInv, [PlayerNext]_playerVars PROVE TellInv'
    OBVIOUS
  <2>1. [SyncNext]_syncVars  BY DEF PlayerNext, playerVars
  <2>2. QED  BY <2>1, TellStep
<1>3. TellInv => PlayerTold  BY TellHolds
<1>4. QED  BY <1>1, <1>2, <1>3, PTL DEF PlayerSpec

-----------------------------------------------------------------------------
(* How a ped follows its packets *)

Reportable == {0, NoSuch, Flagged} \cup Anims
Updates == {"none", "onfoot", "driver", "passenger"}
Bodies ==
    [exists : BOOLEAN, added : BOOLEAN, seated : BOOLEAN, anim : Anims \cup {0}, scripted : BOOLEAN,
     crouching : BOOLEAN, slot : PedSlots, guns : [PedSlots -> Carried], off : 0 .. 2]
WeaponBytes == {WeaponByte(w, k) : w \in DOMAIN Slot, k \in Keys}
Followings ==
    [body : Bodies, weapon : WeaponBytes, playing : Reportable, set : BOOLEAN, afk : BOOLEAN,
     shot : Carried \cup {NoShot}, update : Updates, age : Nat, stray : PedSlots]
OfSyncs == [anim : Reportable, action : {0, 1, Entering}, weapon : WeaponBytes]

RemoteTypeOK ==
    /\ inPool \in BOOLEAN /\ seenCar \in BOOLEAN
    /\ m_byteState \in Updates \cup {"spawned", "wasted"}
    /\ m_byteUpdateFromNetwork \in Updates
    /\ m_ofSync \in OfSyncs
    /\ m_usPlayingAnimIdx \in Reportable /\ m_bWasSettedFlag \in BOOLEAN
    /\ m_byteWeaponShotID \in Carried \cup {NoShot} /\ m_bIsAFK \in BOOLEAN
    /\ sinceRecv \in Nat
    /\ body \in Bodies /\ loaded \subseteq Anims
    /\ health \in Nat /\ armour \in Nat

(* The map has the marker that is remembered and no other. *)
MarkerRemembered == icons = {m_dwGlobalMarkerID} \ {0}

NoPedWithoutPlayer == ~inPool => body = NoBody /\ m_dwGlobalMarkerID = 0

(* An animation that a packet has begun is one that the flag will end. *)
Ending(b, playing, set) == b.anim # 0 /\ ~b.scripted => playing # 0 /\ set
WillEnd == Ending(body, m_usPlayingAnimIdx, m_bWasSettedFlag)

RemoteInv == RemoteTypeOK /\ MarkerRemembered /\ NoPedWithoutPlayer /\ WillEnd

(* A weapon's own number is the byte of it without a key. *)
LEMMA WeaponsKept ==
    /\ DOMAIN Slot = Guns \cup NoModel /\ \A w \in DOMAIN Slot : Slot[w] \in PedSlots
    /\ 0 \in Carried /\ Carried \subseteq DOMAIN Slot /\ Carried \subseteq WeaponBytes
<1> USE RemoteSyncAssumption
<1>1. DOMAIN Slot = Guns \cup NoModel  OBVIOUS
<1>2. \A w \in DOMAIN Slot : Slot[w] \in PedSlots  BY <1>1 DEF PedSlots
<1>3. 0 \in Carried /\ Carried \subseteq DOMAIN Slot  BY <1>1 DEF Carried
<1>4. ASSUME NEW w \in Carried PROVE w \in WeaponBytes
  <2>1. w \in DOMAIN Slot /\ w \in Nat  BY <1>1, <1>3, <1>4
  <2>2. WeaponByte(w, 0) = w  BY <2>1 DEF WeaponByte
  <2>3. QED  BY <2>1, <2>2 DEF WeaponBytes
<1>5. QED  BY <1>1, <1>2, <1>3, <1>4

LEMMA NobodyIsThere ==
    /\ NoBody \in Bodies /\ NoBody.exists = FALSE /\ NoBody.anim = 0 /\ NoReport \in OfSyncs
    /\ [NoBody EXCEPT !.exists = TRUE] \in Bodies /\ [NoBody EXCEPT !.exists = TRUE].anim = 0
<1>1. 0 \in Carried /\ 0 \in WeaponBytes /\ Slot[0] \in PedSlots  BY WeaponsKept
<1>2. NoBody \in Bodies /\ NoBody.exists = FALSE /\ NoBody.anim = 0  BY <1>1 DEF NoBody, Bodies
<1>3. [NoBody EXCEPT !.exists = TRUE] \in Bodies /\ [NoBody EXCEPT !.exists = TRUE].anim = 0
  BY <1>2 DEF Bodies
<1>4. NoReport \in OfSyncs  BY <1>1 DEF NoReport, OfSyncs, Reportable
<1>5. QED  BY <1>2, <1>3, <1>4

-----------------------------------------------------------------------------
(* The parts of a turn *)

SameClothes(b, c) ==
    /\ c.exists = b.exists /\ c.added = b.added /\ c.seated = b.seated
    /\ c.slot = b.slot /\ c.guns = b.guns /\ c.off = b.off
SameGuns(b, c) == c.slot = b.slot /\ c.guns = b.guns
SameStance(b, c) == SameClothes(b, c) /\ c.crouching = b.crouching
SamePerson(b, c) ==
    /\ c.exists = b.exists /\ c.added = b.added /\ c.seated = b.seated
    /\ c.crouching = b.crouching /\ c.anim = b.anim /\ c.scripted = b.scripted
SameNews(s, t) ==
    /\ t.weapon = s.weapon /\ t.afk = s.afk /\ t.shot = s.shot /\ t.update = s.update /\ t.age = s.age
    /\ t.stray = s.stray

(* Stopping a ped, and playing an animation on it. *)
LEMMA StoppedIs ==
    ASSUME NEW b \in Bodies
    PROVE  Stopped(b) \in Bodies /\ SameStance(b, Stopped(b)) /\ Stopped(b).anim = 0
BY DEF Stopped, Bodies, SameStance, SameClothes

LEMMA AppliedIs ==
    ASSUME NEW b \in Bodies, NEW a \in Reportable, NEW ready \in SUBSET Anims, NEW server \in BOOLEAN
    PROVE  LET c == ApplyAnimation(b, a, ready, server)
           IN  /\ c \in Bodies /\ SameStance(b, c)
               /\ a \in ready => c.anim = a /\ c.scripted = server
               /\ a \notin ready => c = b
<1>1. CASE a \in ready
  <2>1. ApplyAnimation(b, a, ready, server) = [b EXCEPT !.anim = a, !.scripted = server]
    BY <1>1 DEF ApplyAnimation
  <2>2. QED  BY <1>1, <2>1 DEF Bodies, SameStance, SameClothes
<1>2. CASE a \notin ready
  BY <1>2 DEF ApplyAnimation, SameStance, SameClothes
<1>3. QED  BY <1>1, <1>2

LEMMA PlayedIs ==
    ASSUME NEW s \in Followings, NEW a \in Reportable, loaded \subseteq Anims
    PROVE  LET t == PlayAnimByIdx(s, a)
           IN  /\ t \in Followings /\ SameStance(s.body, t.body) /\ SameNews(s, t)
               /\ t.playing = s.playing /\ t.set = s.set
               /\ a = 0 => t.body.anim = 0
               /\ a # 0 /\ a \in loaded => t.body.anim = a
               /\ a # 0 /\ a \notin loaded => t.body = s.body
<1>1. s.body \in Bodies  BY DEF Followings
<1>2. PICK b : b = IF a = 0 THEN Stopped(s.body) ELSE ApplyAnimation(s.body, a, loaded, FALSE)  OBVIOUS
<1>3. /\ b \in Bodies /\ SameStance(s.body, b)
      /\ a = 0 => b.anim = 0
      /\ a # 0 /\ a \in loaded => b.anim = a
      /\ a # 0 /\ a \notin loaded => b = s.body
  <2>1. CASE a = 0  BY <1>1, <1>2, <2>1, StoppedIs
  <2>2. CASE a # 0
    <3>1. PICK ready \in SUBSET Anims : ready = loaded  OBVIOUS
    <3>2. b = ApplyAnimation(s.body, a, ready, FALSE)  BY <1>2, <2>2, <3>1
    <3>3. QED  BY <1>1, <2>2, <3>1, <3>2, AppliedIs
  <2>3. QED  BY <2>1, <2>2
<1>4. PlayAnimByIdx(s, a) = [s EXCEPT !.body = b]  BY <1>2 DEF PlayAnimByIdx
<1>5. QED  BY <1>3, <1>4 DEF Followings, SameNews

LEMMA AnimationsHandled ==
    ASSUME NEW s \in Followings, m_ofSync \in OfSyncs, loaded \subseteq Anims,
           Ending(s.body, s.playing, s.set)
    PROVE  LET t == HandleAnimations(s)
           IN  /\ t \in Followings /\ SameStance(s.body, t.body) /\ SameNews(s, t)
               /\ Ending(t.body, t.playing, t.set)
               /\ m_ofSync.anim \in loaded => t.body.anim = m_ofSync.anim
               /\ m_ofSync.anim \in {0, Flagged} => t.body.anim = 0 \/ t.body.scripted
<1> USE RemoteSyncAssumption
<1>1. PICK a \in Reportable : a = m_ofSync.anim  BY DEF OfSyncs
<1>2. CASE a = Flagged
  <2>1. a \notin loaded  BY <1>2
  <2>2. CASE s.set
    <3>1. PICK p : p = PlayAnimByIdx(s, 0)  OBVIOUS
    <3>2. p \in Followings /\ SameStance(s.body, p.body) /\ SameNews(s, p) /\ p.body.anim = 0
      BY <3>1, PlayedIs DEF Reportable
    <3>3. HandleAnimations(s) = [p EXCEPT !.playing = 0, !.set = FALSE]
      BY <1>1, <1>2, <2>2, <3>1 DEF HandleAnimations
    <3>4. QED  BY <1>1, <2>1, <3>2, <3>3 DEF Followings, SameNews, Ending, Reportable
  <2>3. CASE ~s.set
    <3>1. HandleAnimations(s) = s  BY <1>1, <1>2, <2>3 DEF HandleAnimations
    <3>2. QED  BY <1>1, <2>1, <2>3, <3>1 DEF SameNews, SameStance, SameClothes, Ending
  <2>4. QED  BY <2>2, <2>3
<1>3. CASE a # Flagged
  <2>1. PICK p : p = PlayAnimByIdx(s, a)  OBVIOUS
  <2>2. /\ p \in Followings /\ SameStance(s.body, p.body) /\ SameNews(s, p)
        /\ p.set = s.set
        /\ a = 0 => p.body.anim = 0
        /\ a # 0 /\ a \in loaded => p.body.anim = a
        /\ a # 0 /\ a \notin loaded => p.body = s.body
    BY <2>1, PlayedIs
  <2>3. PICK t : t = IF a # s.playing THEN [p EXCEPT !.playing = a] ELSE s  OBVIOUS
  <2>4. /\ t \in Followings /\ SameStance(s.body, t.body) /\ SameNews(s, t) /\ t.playing = a
        /\ a = 0 => t.body.anim = 0 \/ t.body.scripted
    <3>1. CASE a # s.playing
      <4>1. t = [p EXCEPT !.playing = a]  BY <2>3, <3>1
      <4>2. QED  BY <2>2, <4>1 DEF Followings, SameNews
    <3>2. CASE a = s.playing
      BY <2>3, <3>2 DEF SameNews, SameStance, SameClothes, Ending
    <3>3. QED  BY <3>1, <3>2
  <2>5. PICK q : q = PlayAnimByIdx(t, a)  OBVIOUS
  <2>6. /\ q \in Followings /\ SameStance(t.body, q.body) /\ SameNews(t, q) /\ q.playing = t.playing
        /\ a # 0 /\ a \in loaded => q.body.anim = a
    BY <2>4, <2>5, PlayedIs
  <2>7. PICK u : u = IF a # 0 /\ t.body.anim # a THEN q ELSE t  OBVIOUS
  <2>8. /\ u \in Followings /\ SameStance(s.body, u.body) /\ SameNews(s, u) /\ u.playing = a
        /\ a = 0 => u.body.anim = 0 \/ u.body.scripted
        /\ a # 0 /\ a \in loaded => u.body.anim = a
    BY <2>4, <2>6, <2>7 DEF SameNews, SameStance, SameClothes
  <2>9. HandleAnimations(s) = [u EXCEPT !.set = TRUE]
    BY <1>1, <1>3, <2>1, <2>3, <2>5, <2>7 DEF HandleAnimations
  <2>10. a \in loaded => a # 0  OBVIOUS
  <2>11. QED  BY <1>1, <1>3, <2>8, <2>9, <2>10 DEF Followings, SameNews, Ending
<1>4. QED  BY <1>2, <1>3

LEMMA ActionsProcessed ==
    ASSUME NEW s \in Followings, m_ofSync \in OfSyncs
    PROVE  LET t == ProcessSpecialActions(s)
           IN  /\ t \in Followings /\ SameClothes(s.body, t.body) /\ SameNews(s, t)
               /\ t.body.anim = s.body.anim /\ t.body.scripted = s.body.scripted
               /\ t.playing = s.playing /\ t.set = s.set
               /\ m_ofSync.action \in {0, 1} /\ s.body.added => t.body.crouching = (m_ofSync.action = 1)
<1>1. PICK low \in BOOLEAN : low = (m_ofSync.action = 1)  OBVIOUS
<1>2. CASE ~s.body.added \/ m_ofSync.action \notin {0, 1}
  <2>1. ProcessSpecialActions(s) = s  BY <1>2 DEF ProcessSpecialActions
  <2>2. QED  BY <1>2, <2>1 DEF SameClothes, SameNews
<1>3. CASE ~(~s.body.added \/ m_ofSync.action \notin {0, 1})
  <2>1. PICK b : b = [s.body EXCEPT !.crouching = low]  OBVIOUS
  <2>2. b \in Bodies /\ SameClothes(s.body, b) /\ b.crouching = low /\ b.anim = s.body.anim
        /\ b.scripted = s.body.scripted
    BY <2>1 DEF Followings, Bodies, SameClothes
  <2>3. ProcessSpecialActions(s) = [s EXCEPT !.body = b]  BY <1>1, <1>3, <2>1 DEF ProcessSpecialActions
  <2>4. QED  BY <1>1, <2>2, <2>3 DEF Followings, SameNews
<1>4. QED  BY <1>2, <1>3

(* What is in the hand of c, made of b with the weapon's byte w. *)
Showing(b, c, w) ==
    /\ HasModel(w) => GetCurrentWeapon(c) = w
    /\ ~HasModel(w) => c.guns = b.guns
    /\ w \in NoModel => GetCurrentWeapon(c) \in {0, b.guns[Slot[w]]}

(* A weapon in the hand is one that was given. *)
LEMMA ArmedIs ==
    ASSUME NEW b \in Bodies, NEW w, NEW stray \in PedSlots
    PROVE  /\ SetArmedWeapon(b, w, stray) \in Bodies /\ SamePerson(b, SetArmedWeapon(b, w, stray))
           /\ SetArmedWeapon(b, w, stray).off = b.off
           /\ LET c == SetArmedWeapon(GiveWeapon(b, w), w, stray)
              IN  c \in Bodies /\ SamePerson(b, c) /\ c.off = b.off /\ Showing(b, c, w)
<1>1. PICK x \in PedSlots : x = IF w \in DOMAIN Slot THEN Slot[w] ELSE stray  BY WeaponsKept
<1>2. \A d \in Bodies :
        /\ SetArmedWeapon(d, w, stray) \in Bodies /\ SamePerson(d, SetArmedWeapon(d, w, stray))
        /\ SetArmedWeapon(d, w, stray).off = d.off
        /\ SetArmedWeapon(d, w, stray).guns = d.guns /\ SetArmedWeapon(d, w, stray).slot = x
  <2> TAKE d \in Bodies
  <2>1. SetArmedWeapon(d, w, stray) = [d EXCEPT !.slot = x]  BY <1>1 DEF SetArmedWeapon
  <2>2. QED  BY <2>1 DEF Bodies, SamePerson
<1>3. PICK g : g = GiveWeapon(b, w)  OBVIOUS
<1>4. /\ g \in Bodies /\ SamePerson(b, g) /\ g.off = b.off
      /\ HasModel(w) => g.guns[x] = w
      /\ ~HasModel(w) => g.guns = b.guns
  <2>1. CASE HasModel(w)
    <3>1. w \in Carried /\ w \in DOMAIN Slot /\ x = Slot[w]
      BY <1>1, <2>1, WeaponsKept DEF HasModel, Carried
    <3>2. PICK gs : gs = [b.guns EXCEPT ![x] = w]  OBVIOUS
    <3>0. b.guns \in [PedSlots -> Carried]  BY DEF Bodies
    <3>3. gs \in [PedSlots -> Carried] /\ gs[x] = w  BY <3>0, <3>1, <3>2
    <3>4. g = [b EXCEPT !.guns = gs, !.slot = x]  BY <1>3, <2>1, <3>1, <3>2 DEF GiveWeapon
    <3>5. QED  BY <2>1, <3>3, <3>4 DEF Bodies, SamePerson
  <2>2. CASE ~HasModel(w)
    <3>1. g = b  BY <1>3, <2>2 DEF GiveWeapon
    <3>2. QED  BY <2>2, <3>1 DEF SamePerson
  <2>3. QED  BY <2>1, <2>2
<1>5. PICK c : c = SetArmedWeapon(g, w, stray)  OBVIOUS
<1>6. c \in Bodies /\ SamePerson(g, c) /\ c.off = g.off /\ c.guns = g.guns /\ c.slot = x  BY <1>2, <1>4, <1>5
<1>7. Showing(b, c, w)
  <2>1. w \in NoModel => x = Slot[w] /\ ~HasModel(w)
    BY <1>1, WeaponsKept, RemoteSyncAssumption DEF HasModel
  <2>2. QED  BY <1>4, <1>6, <2>1 DEF Showing, GetCurrentWeapon
<1>8. c \in Bodies /\ SamePerson(b, c) /\ c.off = b.off  BY <1>4, <1>6 DEF SamePerson
<1>9. QED  BY <1>2, <1>3, <1>5, <1>7, <1>8

LEMMA UpdatedIs ==
    ASSUME NEW s \in Followings, m_ofSync \in OfSyncs
    PROVE  LET t == UpdateOnFoot(s)
           IN  /\ t \in Followings /\ SamePerson(s.body, t.body) /\ SameNews(s, t)
               /\ t.playing = s.playing /\ t.set = s.set
               /\ Showing(s.body, t.body, m_ofSync.weapon) /\ t.body.off <= 1
<1>1. PICK w : w = m_ofSync.weapon  OBVIOUS
<1>2. s.body \in Bodies /\ s.stray \in PedSlots  BY DEF Followings
<1>3. PICK b : b = UpdateWeapon(s.body, w, s.stray)  OBVIOUS
<1>4. b \in Bodies /\ SamePerson(s.body, b) /\ Showing(s.body, b, w)
  <2>1. CASE GetCurrentWeapon(s.body) # w  BY <1>2, <1>3, <2>1, ArmedIs DEF UpdateWeapon
  <2>2. CASE GetCurrentWeapon(s.body) = w
    <3>1. b = s.body  BY <1>3, <2>2 DEF UpdateWeapon
    <3>2. w \in Carried  BY <1>2, <2>2 DEF Bodies, GetCurrentWeapon
    <3>3. w \in NoModel => w = 0  BY <3>2, RemoteSyncAssumption DEF Carried
    <3>4. QED  BY <1>2, <2>2, <3>1, <3>3 DEF SamePerson, Showing
  <2>3. QED  BY <2>1, <2>2
<1>5. PICK o \in 0 .. 2 : o = (IF b.off = 2 \/ ~b.added THEN 0 ELSE b.off) /\ o <= 1
  BY <1>4 DEF Bodies
<1>6. PICK c : c = [b EXCEPT !.off = o]  OBVIOUS
<1>7. c \in Bodies /\ SamePerson(s.body, c) /\ SameGuns(b, c) /\ c.off = o
  BY <1>4, <1>6 DEF Bodies, SamePerson, SameGuns
<1>8. UpdateOnFoot(s) = [s EXCEPT !.body = c]
  BY <1>1, <1>3, <1>4, <1>5, <1>6 DEF UpdateOnFoot, Bodies
<1>9. Showing(s.body, c, w)  BY <1>4, <1>7 DEF Showing, SameGuns, GetCurrentWeapon
<1>10. QED  BY <1>1, <1>5, <1>7, <1>8, <1>9 DEF Followings, SameNews

(* The part of every frame on foot. *)
LEMMA OnFootIs ==
    ASSUME NEW s \in Followings, m_ofSync \in OfSyncs, loaded \subseteq Anims,
           Ending(s.body, s.playing, s.set)
    PROVE  LET t == OnFoot(s)
           IN  /\ t \in Followings /\ t.body.exists = s.body.exists /\ t.body.added = s.body.added
               /\ Ending(t.body, t.playing, t.set)
               /\ m_ofSync.anim \in loaded => t.body.anim = m_ofSync.anim
               /\ m_ofSync.anim \in {0, Flagged} => t.body.anim = 0 \/ t.body.scripted
               /\ m_ofSync.action \in {0, 1} /\ t.body.added => t.body.crouching = (m_ofSync.action = 1)
               /\ s.shot = NoShot => SameGuns(s.body, t.body) /\ t.weapon = s.weapon
               /\ t.body.off <= s.body.off
               /\ t.afk = (s.afk \/ s.age > Awake) /\ t.age = s.age
               /\ t.age > Still => t.body.off = 0
<1> USE RemoteSyncAssumption
<1>1. PICK r : r = ProcessSpecialActions(s)  OBVIOUS
<1>2. /\ r \in Followings /\ SameClothes(s.body, r.body) /\ SameNews(s, r)
      /\ Ending(r.body, r.playing, r.set)
      /\ m_ofSync.action \in {0, 1} /\ s.body.added => r.body.crouching = (m_ofSync.action = 1)
  BY <1>1, ActionsProcessed DEF Ending
<1>3. PICK t : t = HandleAnimations(r)  OBVIOUS
<1>4. /\ t \in Followings /\ SameStance(r.body, t.body) /\ SameNews(r, t)
      /\ Ending(t.body, t.playing, t.set)
      /\ m_ofSync.anim \in loaded => t.body.anim = m_ofSync.anim
      /\ m_ofSync.anim \in {0, Flagged} => t.body.anim = 0 \/ t.body.scripted
  BY <1>2, <1>3, AnimationsHandled
<1>5. t.body \in Bodies /\ t.shot \in Carried \cup {NoShot} /\ t.stray \in PedSlots /\ t.age \in Nat /\ t.afk \in BOOLEAN
  BY <1>4 DEF Followings
<1>6. PICK u : u = IF t.shot = NoShot THEN t
                   ELSE [t EXCEPT !.body = SetArmedWeapon(@, t.shot, t.stray), !.weapon = t.shot, !.shot = NoShot]
  OBVIOUS
<1>7. /\ u \in Followings /\ SamePerson(t.body, u.body) /\ u.body.off = t.body.off
      /\ u.playing = t.playing /\ u.set = t.set /\ u.afk = t.afk /\ u.age = t.age
      /\ t.shot = NoShot => SameGuns(t.body, u.body) /\ u.weapon = t.weapon
  <2>1. CASE t.shot = NoShot  BY <1>4, <1>6, <2>1 DEF SamePerson, SameGuns
  <2>2. CASE t.shot # NoShot
    <3>1. PICK b : b = SetArmedWeapon(t.body, t.shot, t.stray)  OBVIOUS
    <3>2. b \in Bodies /\ SamePerson(t.body, b) /\ b.off = t.body.off
      BY <1>5, <2>2, <3>1, ArmedIs
    <3>3. u = [t EXCEPT !.body = b, !.weapon = t.shot, !.shot = NoShot]  BY <1>6, <2>2, <3>1
    <3>4. u.body = b /\ u.playing = t.playing /\ u.set = t.set /\ u.afk = t.afk /\ u.age = t.age
      BY <1>4, <3>3 DEF Followings
    <3>5. u \in Followings  BY <1>4, <1>5, <2>2, <3>2, <3>3, WeaponsKept DEF Followings
    <3>6. QED  BY <2>2, <3>2, <3>4, <3>5
  <2>3. QED  BY <2>1, <2>2
<1>8. PICK away \in BOOLEAN : away = (u.afk \/ s.age > Awake)  OBVIOUS
<1>9. PICK v : v = [u EXCEPT !.afk = away]  OBVIOUS
<1>10. /\ v \in Followings /\ v.afk = away /\ v.body = u.body /\ v.playing = u.playing /\ v.set = u.set
       /\ v.age = u.age /\ v.weapon = u.weapon
  BY <1>7, <1>9 DEF Followings
<1>11. PICK c : c = [v.body EXCEPT !.off = 0]  OBVIOUS
<1>12. v.body \in Bodies /\ c \in Bodies /\ SamePerson(v.body, c) /\ SameGuns(v.body, c) /\ c.off = 0
  BY <1>10, <1>11 DEF Followings, Bodies, SamePerson, SameGuns
<1>13. PICK w : w = IF v.afk /\ v.age > Still THEN [v EXCEPT !.body = c] ELSE v  OBVIOUS
<1>14. OnFoot(s) = w
  <2>1. v = [u EXCEPT !.afk = @ \/ s.age > Awake]  BY <1>8, <1>9
  <2>2. [v EXCEPT !.body.off = 0] = [v EXCEPT !.body = c]  BY <1>11
  <2>3. QED  BY <1>1, <1>3, <1>6, <1>13, <2>1, <2>2 DEF OnFoot
<1>15. /\ w \in Followings /\ SamePerson(v.body, w.body) /\ SameGuns(v.body, w.body)
       /\ w.body.off <= v.body.off /\ (v.age > Still => w.body.off = 0)
       /\ w.playing = v.playing /\ w.set = v.set /\ w.afk = v.afk /\ w.age = v.age /\ w.weapon = v.weapon
  <2>1. CASE v.afk /\ v.age > Still
    <3>1. w = [v EXCEPT !.body = c]  BY <1>13, <2>1
    <3>2. v.body.off >= 0 /\ v.body.off \in Int  BY <1>12 DEF Bodies
    <3>3. QED  BY <1>10, <1>12, <3>1, <3>2 DEF Followings
  <2>2. CASE ~(v.afk /\ v.age > Still)
    <3>1. w = v  BY <1>13, <2>2
    <3>2. v.age > Still => v.age > Awake  BY <1>5, <1>7, <1>10
    <3>0. v.age = s.age  BY <1>2, <1>4, <1>7, <1>10 DEF SameNews
    <3>3. v.age > Still => FALSE  BY <1>8, <1>10, <2>2, <3>0, <3>2
    <3>4. v.body.off <= v.body.off  BY <1>12 DEF Bodies
    <3>5. QED  BY <1>10, <3>1, <3>3, <3>4 DEF SamePerson, SameGuns
  <2>3. QED  BY <2>1, <2>2
<1>16. /\ w.body.exists = s.body.exists /\ w.body.added = s.body.added /\ w.age = s.age
       /\ w.body.anim = t.body.anim /\ w.body.scripted = t.body.scripted
       /\ w.body.crouching = r.body.crouching /\ w.body.off <= s.body.off
       /\ w.playing = t.playing /\ w.set = t.set
  BY <1>2, <1>4, <1>7, <1>10, <1>15 DEF SameClothes, SameStance, SamePerson, SameNews
<1>17. s.shot = NoShot => SameGuns(s.body, w.body) /\ w.weapon = s.weapon
  BY <1>2, <1>4, <1>7, <1>10, <1>15 DEF SameClothes, SameStance, SameGuns, SameNews
<1>18. w.afk = (s.afk \/ s.age > Awake)
  BY <1>2, <1>4, <1>7, <1>8, <1>10, <1>15 DEF SameNews
<1>19. Ending(w.body, w.playing, w.set)  BY <1>4, <1>16 DEF Ending
<1>20. QED  BY <1>2, <1>4, <1>10, <1>7, <1>14, <1>15, <1>16, <1>17, <1>18, <1>19

(* A player who was heard of is not away. *)
LEMMA HeardIs ==
    ASSUME NEW s \in Followings
    PROVE  LET t == Heard(s)
           IN  /\ t \in Followings /\ t.body = s.body /\ t.playing = s.playing /\ t.set = s.set
               /\ t.weapon = s.weapon /\ t.age = s.age /\ t.afk = (s.afk /\ s.age >= Awake)
<1>1. PICK away \in BOOLEAN : away = (s.afk /\ s.age >= Awake)  OBVIOUS
<1>2. Heard(s) = [s EXCEPT !.afk = away]  BY <1>1 DEF Heard
<1>3. QED  BY <1>1, <1>2 DEF Followings

-----------------------------------------------------------------------------
(* A turn *)

(* What the turn of a ped makes of its state: of one on foot, what its     *)
(* packets say.                                                            *)
FollowedOnFoot(s, t) ==
    /\ m_ofSync.anim \in loaded => t.body.anim = m_ofSync.anim
    /\ m_ofSync.anim \in {0, Flagged} => t.body.anim = 0 \/ t.body.scripted
    /\ m_ofSync.action \in {0, 1} /\ t.body.added => t.body.crouching = (m_ofSync.action = 1)
    /\ s.update = "onfoot" =>
           /\ s.shot = NoShot => Showing(s.body, t.body, m_ofSync.weapon) /\ t.weapon = s.weapon
           /\ t.body.off <= 1
    /\ t.afk = (s.age > Awake \/ (s.afk /\ s.age = Awake))
    /\ s.age > Still => t.body.off = 0

LEMMA OnFootTurn ==
    ASSUME NEW s \in Followings, m_ofSync \in OfSyncs, loaded \subseteq Anims,
           Ending(s.body, s.playing, s.set), m_byteState = "onfoot", ~s.body.seated
    PROVE  LET t == RemoteTurn(s)
           IN  /\ t \in Followings /\ t.body.exists = s.body.exists /\ t.age = s.age
               /\ Ending(t.body, t.playing, t.set)
               /\ t.afk => s.age >= Awake
               /\ FollowedOnFoot(s, t)
<1> USE RemoteSyncAssumption
<1>1. PICK p : p = [s EXCEPT !.update = "none"]  OBVIOUS
<1>2. /\ p \in Followings /\ p.body = s.body /\ p.playing = s.playing /\ p.set = s.set /\ p.shot = s.shot
      /\ p.weapon = s.weapon /\ p.afk = s.afk /\ p.age = s.age
  BY <1>1 DEF Followings, Updates
<1>3. PICK q : q = IF s.update = "onfoot" THEN UpdateOnFoot(p) ELSE p  OBVIOUS
<1>4. /\ q \in Followings /\ SamePerson(s.body, q.body) /\ q.playing = s.playing /\ q.set = s.set
      /\ q.shot = s.shot /\ q.weapon = s.weapon /\ q.afk = s.afk /\ q.age = s.age
      /\ s.update = "onfoot" => Showing(s.body, q.body, m_ofSync.weapon) /\ q.body.off <= 1
  <2>1. CASE s.update = "onfoot"
    BY <1>2, <1>3, <2>1, UpdatedIs DEF SameNews
  <2>2. CASE s.update # "onfoot"  BY <1>2, <1>3, <2>2 DEF SamePerson
  <2>3. QED  BY <2>1, <2>2
<1>5. Ending(q.body, q.playing, q.set)  BY <1>4 DEF Ending, SamePerson
<1>6. PICK u : u = OnFoot(q)  OBVIOUS
<1>7. /\ u \in Followings /\ u.body.exists = q.body.exists /\ u.body.added = q.body.added
      /\ Ending(u.body, u.playing, u.set)
      /\ m_ofSync.anim \in loaded => u.body.anim = m_ofSync.anim
      /\ m_ofSync.anim \in {0, Flagged} => u.body.anim = 0 \/ u.body.scripted
      /\ m_ofSync.action \in {0, 1} /\ u.body.added => u.body.crouching = (m_ofSync.action = 1)
      /\ q.shot = NoShot => SameGuns(q.body, u.body) /\ u.weapon = q.weapon
      /\ u.body.off <= q.body.off
      /\ u.afk = (q.afk \/ q.age > Awake) /\ u.age = q.age
      /\ u.age > Still => u.body.off = 0
  BY <1>4, <1>5, <1>6, OnFootIs
<1>8. PICK t : t = Heard(u)  OBVIOUS
<1>9. /\ t \in Followings /\ t.body = u.body /\ t.playing = u.playing /\ t.set = u.set
      /\ t.weapon = u.weapon /\ t.age = u.age /\ t.afk = (u.afk /\ u.age >= Awake)
  BY <1>7, <1>8, HeardIs
<1>10. RemoteTurn(s) = t  BY <1>1, <1>3, <1>6, <1>8 DEF RemoteTurn
<1>11. u.body.off \in Int /\ q.body.off \in Int /\ s.age \in Nat
  BY <1>4, <1>7 DEF Followings, Bodies
<1>12. t.afk = (s.age > Awake \/ (s.afk /\ s.age = Awake))
  <2>1. t.afk = ((s.afk \/ s.age > Awake) /\ s.age >= Awake)  BY <1>4, <1>7, <1>9
  <2>2. CASE s.age > Awake
    <3>1. s.age >= Awake  BY <1>11, <2>2
    <3>2. QED  BY <2>1, <2>2, <3>1
  <2>3. CASE s.age = Awake
    <3>1. s.age >= Awake /\ ~(s.age > Awake)  BY <1>11, <2>3
    <3>2. s.afk \in BOOLEAN /\ t.afk \in BOOLEAN  BY <1>9 DEF Followings
    <3>3. QED  BY <2>1, <2>3, <3>1, <3>2
  <2>4. CASE s.age < Awake
    <3>1. ~(s.age >= Awake) /\ ~(s.age > Awake) /\ s.age # Awake  BY <1>11, <2>4
    <3>2. QED  BY <2>1, <3>1
  <2>5. QED  BY <1>11, <2>2, <2>3, <2>4
<1>13. FollowedOnFoot(s, t)
  <2>1. s.update = "onfoot" /\ s.shot = NoShot => Showing(s.body, t.body, m_ofSync.weapon)
    BY <1>4, <1>7, <1>9 DEF Showing, SameGuns, GetCurrentWeapon
  <2>2. QED  BY <1>4, <1>7, <1>9, <1>11, <1>12, <2>1 DEF FollowedOnFoot
<1>14. t.afk => s.age >= Awake  BY <1>4, <1>7, <1>9
<1>15. QED  BY <1>4, <1>7, <1>9, <1>10, <1>13, <1>14 DEF SamePerson

LEMMA SeatedTurn ==
    ASSUME NEW s \in Followings, m_ofSync \in OfSyncs, seenCar \in BOOLEAN,
           Ending(s.body, s.playing, s.set), ~(m_byteState = "onfoot" /\ ~s.body.seated)
    PROVE  LET t == RemoteTurn(s)
           IN  /\ t \in Followings /\ t.body = s.body /\ t.age = s.age
               /\ Ending(t.body, t.playing, t.set)
               /\ t.afk => s.age >= Awake \/ (~seenCar /\ m_byteState \in {"driver", "passenger"})
<1> USE RemoteSyncAssumption
<1>1. PICK p : p = [s EXCEPT !.update = "none"]  OBVIOUS
<1>2. /\ p \in Followings /\ p.body = s.body /\ p.playing = s.playing /\ p.set = s.set /\ p.age = s.age
      /\ p.afk = s.afk
  BY <1>1 DEF Followings, Updates
<1>3. s.age \in Nat /\ s.afk \in BOOLEAN  BY DEF Followings
<1>4. \A q \in Followings :
        q.body = s.body /\ q.playing = s.playing /\ q.set = s.set /\ q.age = s.age =>
            LET t == Heard(q)
            IN  /\ t \in Followings /\ t.body = s.body /\ t.age = s.age
                /\ Ending(t.body, t.playing, t.set) /\ (t.afk => s.age >= Awake)
  BY HeardIs DEF Ending
<1>5. CASE m_byteState = "driver" /\ s.body.seated /\ ~seenCar
  <2>1. PICK n \in Updates : n = IF s.update = "driver" THEN s.update ELSE "none"  BY DEF Followings, Updates
  <2>2. RemoteTurn(s) = [s EXCEPT !.update = n]  BY <1>5, <2>1 DEF RemoteTurn
  <2>3. QED  BY <1>5, <2>2 DEF Followings, Ending
<1>6. CASE m_byteState = "driver" /\ s.body.seated /\ seenCar
  <2>1. PICK away \in BOOLEAN : away = (p.afk \/ s.age > Awake)  OBVIOUS
  <2>2. PICK q : q = [p EXCEPT !.afk = away]  OBVIOUS
  <2>3. q \in Followings /\ q.body = s.body /\ q.playing = s.playing /\ q.set = s.set /\ q.age = s.age
    BY <1>2, <2>2 DEF Followings
  <2>4. RemoteTurn(s) = Heard(q)  BY <1>1, <1>6, <2>1, <2>2 DEF RemoteTurn
  <2>5. QED  BY <1>4, <2>3, <2>4
<1>7. CASE m_byteState = "passenger"
  <2>1. CASE s.update = "passenger" /\ ~seenCar
    <3>1. RemoteTurn(s) = s  BY <1>7, <2>1 DEF RemoteTurn
    <3>2. QED  BY <1>7, <2>1, <3>1
  <2>2. CASE ~(s.update = "passenger" /\ ~seenCar)
    <3>1. PICK away \in BOOLEAN : away = (p.afk \/ s.age >= Still)  OBVIOUS
    <3>2. PICK q : q = [p EXCEPT !.afk = away]  OBVIOUS
    <3>3. q \in Followings /\ q.body = s.body /\ q.playing = s.playing /\ q.set = s.set /\ q.age = s.age
      BY <1>2, <3>2 DEF Followings
    <3>4. RemoteTurn(s) = Heard(q)  BY <1>1, <1>7, <2>2, <3>1, <3>2 DEF RemoteTurn
    <3>5. QED  BY <1>4, <3>3, <3>4
  <2>3. QED  BY <2>1, <2>2
<1>8. CASE ~(m_byteState = "driver" /\ s.body.seated) /\ m_byteState # "passenger"
  <2>1. RemoteTurn(s) = Heard(p)  BY <1>1, <1>8 DEF RemoteTurn
  <2>2. QED  BY <1>2, <1>4, <2>1
<1>9. QED  BY <1>5, <1>6, <1>7, <1>8

-----------------------------------------------------------------------------
(* A frame *)

FrameFollowed ==
    /\ RemoteInv'
    /\ body'.exists => AwayUnheard /\ (m_byteState = "onfoot" /\ ~body.seated => FollowsPackets)

LEMMA FrameFollows ==
    ASSUME RemoteInv, NEW moment \in {0, 1}, RemoteFrame(moment)
    PROVE  FrameFollowed
<1> USE RemoteSyncAssumption
<1>1. RemoteTypeOK /\ MarkerRemembered /\ NoPedWithoutPlayer /\ WillEnd  BY DEF RemoteInv
<1>2. PICK since \in Nat : since = Min({sinceRecv + moment, Still + 1})
  <2>1. sinceRecv \in Nat  BY <1>1 DEF RemoteTypeOK
  <2>2. QED  BY <2>1, MinOfTwo
<1>2a. PICK stray \in PedSlots :
         LET s == [body |-> body, weapon |-> m_ofSync.weapon, playing |-> m_usPlayingAnimIdx,
                    set |-> m_bWasSettedFlag, afk |-> m_bIsAFK, shot |-> m_byteWeaponShotID,
                    update |-> m_byteUpdateFromNetwork, age |-> since, stray |-> stray]
             t == IF body.exists /\ m_byteState # "none" THEN RemoteTurn(s) ELSE [s EXCEPT !.body = NoBody]
         IN /\ body' = t.body /\ m_usPlayingAnimIdx' = t.playing /\ m_bWasSettedFlag' = t.set
            /\ m_bIsAFK' = t.afk /\ m_byteWeaponShotID' = t.shot /\ m_byteUpdateFromNetwork' = t.update
            /\ m_ofSync' = [m_ofSync EXCEPT !.weapon = t.weapon] /\ sinceRecv' = since
  BY <1>2 DEF RemoteFrame
<1>3. PICK s : s = [body |-> body, weapon |-> m_ofSync.weapon, playing |-> m_usPlayingAnimIdx,
                    set |-> m_bWasSettedFlag, afk |-> m_bIsAFK, shot |-> m_byteWeaponShotID,
                    update |-> m_byteUpdateFromNetwork, age |-> since, stray |-> stray]
  OBVIOUS
<1>4. s \in Followings
  <2>1. m_ofSync.weapon \in WeaponBytes  BY <1>1 DEF RemoteTypeOK, OfSyncs
  <2>2. QED  BY <1>1, <1>2, <1>3, <2>1 DEF RemoteTypeOK, Followings
<1>5. /\ s.body = body /\ s.weapon = m_ofSync.weapon /\ s.playing = m_usPlayingAnimIdx
      /\ s.set = m_bWasSettedFlag /\ s.afk = m_bIsAFK /\ s.shot = m_byteWeaponShotID
      /\ s.update = m_byteUpdateFromNetwork /\ s.age = since
  BY <1>3
<1>6. Ending(s.body, s.playing, s.set)  BY <1>1, <1>5 DEF WillEnd
<1>7. PICK t : t = IF body.exists /\ m_byteState # "none" THEN RemoteTurn(s) ELSE [s EXCEPT !.body = NoBody]
  OBVIOUS
<1>8. /\ body' = t.body /\ m_usPlayingAnimIdx' = t.playing /\ m_bWasSettedFlag' = t.set
      /\ m_bIsAFK' = t.afk /\ m_byteWeaponShotID' = t.shot /\ m_byteUpdateFromNetwork' = t.update
      /\ m_ofSync' = [m_ofSync EXCEPT !.weapon = t.weapon] /\ sinceRecv' = since
      /\ UNCHANGED <<inPool, m_byteState, seenCar, m_dwGlobalMarkerID, loaded, icons, health, armour>>
      /\ inPool
  BY <1>3, <1>7, <1>2a DEF RemoteFrame
<1>9. m_ofSync \in OfSyncs /\ loaded \subseteq Anims /\ seenCar \in BOOLEAN /\ body \in Bodies  BY <1>1 DEF RemoteTypeOK
<1>10. /\ t \in Followings /\ Ending(t.body, t.playing, t.set)
       /\ t.body.exists =>
            /\ body.exists
            /\ t.afk => since >= Awake \/ (~seenCar /\ m_byteState \in {"driver", "passenger"})
            /\ m_byteState = "onfoot" /\ ~body.seated => FollowedOnFoot(s, t)
  <2>1. CASE ~(body.exists /\ m_byteState # "none")
    <3>1. t = [s EXCEPT !.body = NoBody]  BY <1>7, <2>1
    <3>2. QED  BY <1>4, <3>1, NobodyIsThere DEF Followings, Ending
  <2>2. CASE body.exists /\ m_byteState # "none"
    <3>1. t = RemoteTurn(s)  BY <1>7, <2>2
    <3>2. CASE m_byteState = "onfoot" /\ ~body.seated
      BY <1>4, <1>5, <1>6, <1>9, <2>2, <3>1, <3>2, OnFootTurn
    <3>3. CASE ~(m_byteState = "onfoot" /\ ~body.seated)
      BY <1>4, <1>5, <1>6, <1>9, <2>2, <3>1, <3>3, SeatedTurn
    <3>4. QED  BY <3>2, <3>3
  <2>3. QED  BY <2>1, <2>2
<1>11. /\ m_ofSync' \in OfSyncs /\ m_ofSync'.anim = m_ofSync.anim /\ m_ofSync'.action = m_ofSync.action
       /\ m_ofSync'.weapon = t.weapon
  <2>1. PICK w \in WeaponBytes : w = t.weapon  BY <1>10 DEF Followings
  <2>2. QED  BY <1>8, <1>9, <2>1 DEF OfSyncs
<1>12. RemoteInv'
  <2>1. RemoteTypeOK'
    <3>1. /\ body' \in Bodies /\ m_usPlayingAnimIdx' \in Reportable /\ m_bWasSettedFlag' \in BOOLEAN
          /\ m_bIsAFK' \in BOOLEAN /\ m_byteWeaponShotID' \in Carried \cup {NoShot}
          /\ m_byteUpdateFromNetwork' \in Updates
      BY <1>8, <1>10 DEF Followings
    <3>2. QED  BY <1>1, <1>2, <1>8, <1>11, <3>1 DEF RemoteTypeOK
  <2>2. MarkerRemembered'  BY <1>1, <1>8 DEF MarkerRemembered
  <2>3. NoPedWithoutPlayer'  BY <1>8 DEF NoPedWithoutPlayer
  <2>4. WillEnd'  BY <1>8, <1>10 DEF WillEnd
  <2>5. QED  BY <2>1, <2>2, <2>3, <2>4 DEF RemoteInv
<1>13. ASSUME body'.exists PROVE AwayUnheard /\ (m_byteState = "onfoot" /\ ~body.seated => FollowsPackets)
  <2>1. t.body.exists  BY <1>8, <1>13
  <2>2. AwayUnheard  BY <1>8, <1>10, <2>1 DEF AwayUnheard
  <2>3. ASSUME m_byteState = "onfoot", ~body.seated PROVE FollowsPackets
    <3>1. FollowedOnFoot(s, t)  BY <1>10, <2>1, <2>3
    <3>2. m_byteUpdateFromNetwork = "onfoot" /\ m_byteWeaponShotID = NoShot => InHand(m_ofSync'.weapon)
      BY <1>5, <1>8, <1>11, <3>1 DEF FollowedOnFoot, Showing, InHand, GetCurrentWeapon
    <3>3. QED  BY <1>5, <1>8, <1>11, <3>1, <3>2 DEF FollowedOnFoot, FollowsPackets
  <2>4. QED  BY <2>2, <2>3
<1>14. QED  BY <1>12, <1>13 DEF FrameFollowed

-----------------------------------------------------------------------------
(* Every step *)

(* A bullet takes what the shooter tells. *)
LEMMA BulletTakes == ASSUME RemoteInv, NEW w \in Carried, BulletSync(w) PROVE TakesAsTold(w)
<1> USE RemoteSyncAssumption
<1>1. health \in Nat /\ armour \in Nat  BY DEF RemoteInv, RemoteTypeOK
<1>2. Hurts[w] \in Nat  BY DEF Carried
<1>3. PICK d \in Damages(w) :
         LET left == Wound(health, armour, d) IN health' = left[1] /\ armour' = left[2]
  BY DEF BulletSync
<1>4. health > 0  BY DEF BulletSync
<1>5. d \in Nat /\ d <= Hurts[w] /\ (w # Shotgun => d = Hurts[w])  BY <1>2, <1>3 DEF Damages
<1>6. CASE armour > 0
  <2>1. PICK rest \in Int : rest = armour - d  BY <1>1, <1>5
  <2>2. PICK most \in Int : most = IF rest <= 0 THEN health + rest ELSE health  BY <1>1, <2>1
  <2>3. Wound(health, armour, d) = <<Max({0, most}), Max({0, rest})>>
    BY <1>4, <1>6, <2>1, <2>2 DEF Wound
  <2>4. health' = Max({0, most}) /\ armour' = Max({0, rest})  BY <1>3, <2>3
  <2>5. health' = (IF 0 >= most THEN 0 ELSE most) /\ armour' = (IF 0 >= rest THEN 0 ELSE rest)
    BY MaxOfTwo, <2>1, <2>2, <2>4
  <2>6. Min({Hurts[w], health + armour}) = IF Hurts[w] <= health + armour THEN Hurts[w] ELSE health + armour
    BY <1>1, <1>2, MinOfTwo
  <2>7. QED  BY <1>1, <1>2, <1>4, <1>5, <1>6, <2>1, <2>2, <2>5, <2>6 DEF TakesAsTold
<1>7. CASE armour = 0
  <2>1. PICK rest \in Int : rest = health - d  BY <1>1, <1>5
  <2>2. Wound(health, armour, d) = <<Max({0, rest}), 0>>
    BY <1>1, <1>4, <1>7, <2>1 DEF Wound
  <2>3. health' = Max({0, rest}) /\ armour' = 0  BY <1>3, <2>2
  <2>4. health' = (IF 0 >= rest THEN 0 ELSE rest)  BY MaxOfTwo, <2>1, <2>3
  <2>5. Min({Hurts[w], health + armour}) = IF Hurts[w] <= health + armour THEN Hurts[w] ELSE health + armour
    BY <1>1, <1>2, MinOfTwo
  <2>6. QED  BY <1>1, <1>2, <1>4, <1>5, <1>7, <2>1, <2>3, <2>4, <2>5 DEF TakesAsTold
<1>8. QED  BY <1>1, <1>6, <1>7

LEMMA FollowStart == RemoteSyncInit => RemoteInv
<1> SUFFICES ASSUME RemoteSyncInit PROVE RemoteInv  OBVIOUS
<1> USE RemoteSyncAssumption
<1>1. Still + 1 \in Nat  OBVIOUS
<1>2. RemoteTypeOK
  BY <1>1, NobodyIsThere DEF RemoteSyncInit, RemoteTypeOK, Updates, Reportable, Carried
<1>3. MarkerRemembered /\ NoPedWithoutPlayer  BY DEF RemoteSyncInit, MarkerRemembered, NoPedWithoutPlayer
<1>4. WillEnd  BY NobodyIsThere DEF RemoteSyncInit, WillEnd, Ending
<1>5. QED  BY <1>2, <1>3, <1>4 DEF RemoteInv

(* The player comes and goes, his ped is made and removed, his marker is   *)
(* shown and hidden.                                                       *)
LEMMA ComesAndGoes ==
    ASSUME RemoteInv, Joins \/ Quits \/ StreamsIn \/ StreamsOut \/ PedDies
    PROVE  RemoteInv'
<1> USE RemoteSyncAssumption
<1>1. RemoteTypeOK /\ MarkerRemembered /\ NoPedWithoutPlayer /\ WillEnd  BY DEF RemoteInv
<1>2. CASE Joins
  <2>1. ~inPool /\ body = NoBody /\ m_dwGlobalMarkerID = 0  BY <1>1, <1>2 DEF Joins, NoPedWithoutPlayer
  <2>2. Still + 1 \in Nat  OBVIOUS
  <2>3. RemoteTypeOK'  BY <1>1, <1>2, <2>2 DEF Joins, RemoteTypeOK, Updates, Reportable
  <2>4. MarkerRemembered' /\ NoPedWithoutPlayer'  BY <1>1, <1>2, <2>1 DEF Joins, MarkerRemembered, NoPedWithoutPlayer
  <2>5. WillEnd'  BY <1>2, <2>1, NobodyIsThere DEF Joins, WillEnd, Ending
  <2>6. QED  BY <2>3, <2>4, <2>5 DEF RemoteInv
<1>3. CASE Quits \/ StreamsOut
  <2>1. /\ body' = NoBody /\ m_dwGlobalMarkerID' = 0 /\ icons' = icons \ {m_dwGlobalMarkerID}
        /\ inPool' \in BOOLEAN
        /\ UNCHANGED <<sync, m_usPlayingAnimIdx, m_bWasSettedFlag, m_byteWeaponShotID, m_bIsAFK, loaded, health,
                       armour>>
    BY <1>1, <1>3
    DEF Quits, StreamsOut, RemoveRemote, RemoveMarkers, HideGlobalMarker, RemoteTypeOK
  <2>2. RemoteTypeOK'  BY <1>1, <2>1, NobodyIsThere DEF sync, RemoteTypeOK
  <2>3. MarkerRemembered' /\ NoPedWithoutPlayer'  BY <1>1, <2>1 DEF MarkerRemembered, NoPedWithoutPlayer
  <2>4. WillEnd'  BY <2>1, NobodyIsThere DEF WillEnd, Ending
  <2>5. QED  BY <2>2, <2>3, <2>4 DEF RemoteInv
<1>4. CASE StreamsIn
  <2>1. PICK b : b = body'  OBVIOUS
  <2>2. /\ b \in Bodies /\ b.anim = 0 /\ body' = b /\ m_byteState' \in {"spawned", "none"} /\ inPool /\ inPool'
        /\ UNCHANGED <<m_byteUpdateFromNetwork, m_ofSync, seenCar, sinceRecv, m_usPlayingAnimIdx,
                       m_bWasSettedFlag, m_byteWeaponShotID, m_bIsAFK, m_dwGlobalMarkerID, loaded, icons,
                       health, armour>>
    BY <1>4, <2>1, NobodyIsThere DEF StreamsIn
  <2>3. RemoteTypeOK'  BY <1>1, <2>2 DEF RemoteTypeOK, Updates
  <2>4. MarkerRemembered' /\ NoPedWithoutPlayer'  BY <1>1, <2>2 DEF MarkerRemembered, NoPedWithoutPlayer
  <2>5. WillEnd'  BY <2>2 DEF WillEnd, Ending
  <2>6. QED  BY <2>3, <2>4, <2>5 DEF RemoteInv
<1>5. CASE PedDies
  <2>1. PICK b \in Bodies : b = body  BY <1>1 DEF RemoteTypeOK
  <2>2. Stopped(b) \in Bodies /\ Stopped(b).anim = 0  BY StoppedIs
  <2>3. /\ body' = Stopped(b) /\ m_byteState' = "wasted" /\ m_ofSync' = NoReport
        /\ m_dwGlobalMarkerID' = 0 /\ icons' = icons \ {m_dwGlobalMarkerID} /\ inPool /\ inPool'
        /\ UNCHANGED <<m_byteUpdateFromNetwork, seenCar, sinceRecv, m_usPlayingAnimIdx,
                       m_bWasSettedFlag, m_byteWeaponShotID, m_bIsAFK, loaded, health, armour>>
    BY <1>5, <2>1 DEF PedDies, HideGlobalMarker
  <2>4. RemoteTypeOK'  BY <1>1, <1>5, <2>2, <2>3, NobodyIsThere DEF RemoteTypeOK, PedDies
  <2>5. MarkerRemembered' /\ NoPedWithoutPlayer'  BY <1>1, <2>3 DEF MarkerRemembered, NoPedWithoutPlayer
  <2>6. WillEnd'  BY <2>2, <2>3 DEF WillEnd, Ending
  <2>7. QED  BY <2>4, <2>5, <2>6 DEF RemoteInv
<1>6. QED  BY <1>2, <1>3, <1>4, <1>5

LEMMA MarkersFollow ==
    ASSUME RemoteInv, NEW active \in BOOLEAN, Packet_MarkersSync(active)
    PROVE  RemoteInv'
<1> USE RemoteSyncAssumption
<1>1. RemoteTypeOK /\ MarkerRemembered /\ NoPedWithoutPlayer /\ WillEnd  BY DEF RemoteInv
<1>2. /\ inPool /\ UNCHANGED <<inPool, sync, shown, loaded, health, armour>>
      /\ \/ m_dwGlobalMarkerID' = 0 /\ icons' = icons \ {m_dwGlobalMarkerID}
         \/ \E i \in Icons : m_dwGlobalMarkerID' = i /\ icons' = (icons \ {m_dwGlobalMarkerID}) \cup {i}
  BY DEF Packet_MarkersSync, ShowGlobalMarker, HideGlobalMarker
<1>3. RemoteTypeOK' /\ WillEnd'  BY <1>1, <1>2 DEF RemoteTypeOK, WillEnd, sync, shown
<1>4. MarkerRemembered'  BY <1>1, <1>2 DEF MarkerRemembered
<1>5. NoPedWithoutPlayer'  BY <1>2 DEF NoPedWithoutPlayer
<1>6. QED  BY <1>3, <1>4, <1>5 DEF RemoteInv

(* A packet is stored, with the ped in or out of its vehicle. *)
LEMMA PacketsStored ==
    ASSUME RemoteInv,
           \/ \E report \in OfSyncs, off \in 0 .. 2 : StoreOnFootFullSyncData(report, off)
           \/ \E kind \in {"driver", "passenger"}, car \in BOOLEAN : StoreInCarFullSyncData(kind, car)
           \/ \E w \in Carried : BulletSync(w)
    PROVE  RemoteInv'
<1> USE RemoteSyncAssumption
<1>1. RemoteTypeOK /\ MarkerRemembered /\ NoPedWithoutPlayer /\ WillEnd  BY DEF RemoteInv
<1>2. PICK b \in Bodies : b = body  BY <1>1 DEF RemoteTypeOK
<1>3. CASE \E report \in OfSyncs, off \in 0 .. 2 : StoreOnFootFullSyncData(report, off)
  <2>1. PICK report \in OfSyncs, off \in 0 .. 2 : StoreOnFootFullSyncData(report, off)  BY <1>3
  <2>2. PICK in \in BOOLEAN : in = (b.seated /\ report.action = Entering)  OBVIOUS
  <2>10. PICK o \in 0 .. 2 : o = IF b.exists THEN off ELSE 0  OBVIOUS
  <2>3. PICK c : c = [b EXCEPT !.seated = in, !.off = o]  OBVIOUS
  <2>4. c \in Bodies /\ c.anim = b.anim /\ c.scripted = b.scripted  BY <2>3 DEF Bodies
  <2>5. /\ body' = c /\ m_ofSync' = report /\ inPool /\ inPool' /\ m_byteState' = "onfoot"
        /\ m_byteUpdateFromNetwork' = "onfoot" /\ seenCar' = seenCar /\ sinceRecv' = 0
        /\ UNCHANGED <<inPool, m_usPlayingAnimIdx, m_bWasSettedFlag, m_byteWeaponShotID, m_bIsAFK,
                       m_dwGlobalMarkerID, loaded, icons, health, armour>>
    <3>1. /\ Stores("onfoot", "onfoot", seenCar) /\ m_ofSync' = report
          /\ body' = [body EXCEPT !.seated = (body.seated /\ report.action = Entering),
                                  !.off = IF body.exists THEN off ELSE 0]
      BY <2>1, Zenon DEF StoreOnFootFullSyncData
    <3>2. body' = [b EXCEPT !.seated = in, !.off = o]  BY <1>2, <2>2, <2>10, <3>1, Zenon
    <3>3. QED  BY <2>3, <3>1, <3>2 DEF Stores
  <2>6. RemoteTypeOK'  BY <1>1, <2>4, <2>5 DEF RemoteTypeOK, Updates
  <2>7. MarkerRemembered' /\ NoPedWithoutPlayer'  BY <1>1, <2>5 DEF MarkerRemembered, NoPedWithoutPlayer
  <2>8. WillEnd'  BY <1>1, <1>2, <2>4, <2>5 DEF WillEnd, Ending
  <2>9. QED  BY <2>6, <2>7, <2>8 DEF RemoteInv
<1>4. CASE \E kind \in {"driver", "passenger"}, car \in BOOLEAN : StoreInCarFullSyncData(kind, car)
  <2>1. PICK kind \in {"driver", "passenger"}, car \in BOOLEAN : StoreInCarFullSyncData(kind, car)  BY <1>4
  <2>2. PICK in \in BOOLEAN : body' = [body EXCEPT !.seated = @ \/ in]  BY <2>1 DEF StoreInCarFullSyncData
  <2>3. PICK sits \in BOOLEAN : sits = (b.seated \/ in)  OBVIOUS
  <2>4. PICK c : c = [b EXCEPT !.seated = sits]  OBVIOUS
  <2>5. c \in Bodies /\ c.anim = b.anim /\ c.scripted = b.scripted  BY <2>4 DEF Bodies
  <2>6. /\ body' = c /\ m_ofSync' = m_ofSync /\ inPool /\ inPool' /\ m_byteState' = kind
        /\ m_byteUpdateFromNetwork' = kind /\ seenCar' = car /\ sinceRecv' = 0
        /\ UNCHANGED <<inPool, m_usPlayingAnimIdx, m_bWasSettedFlag, m_byteWeaponShotID, m_bIsAFK,
                       m_dwGlobalMarkerID, loaded, icons, health, armour>>
    BY <1>2, <2>1, <2>2, <2>3, <2>4 DEF StoreInCarFullSyncData, Stores
  <2>7. RemoteTypeOK'  BY <1>1, <2>5, <2>6 DEF RemoteTypeOK, Updates
  <2>8. MarkerRemembered' /\ NoPedWithoutPlayer'  BY <1>1, <2>6 DEF MarkerRemembered, NoPedWithoutPlayer
  <2>9. WillEnd'  BY <1>1, <1>2, <2>5, <2>6 DEF WillEnd, Ending
  <2>10. QED  BY <2>7, <2>8, <2>9 DEF RemoteInv
<1>5. CASE \E w \in Carried : BulletSync(w)
  <2>1. PICK w \in Carried : BulletSync(w)  BY <1>5
  <2>2. TakesAsTold(w)  BY <2>1, BulletTakes
  <2>3. health' \in Nat /\ armour' \in Nat
    <3>1. PICK d \in Damages(w) :
             LET left == Wound(health, armour, d) IN health' = left[1] /\ armour' = left[2]
      BY <2>1 DEF BulletSync
    <3>2. health \in Nat /\ armour \in Nat /\ d \in Nat
      BY <1>1, <3>1 DEF RemoteTypeOK, Damages, Carried
    <3>3. \A x \in Int : Max({0, x}) \in Nat  BY MaxOfTwo
    <3>4. Wound(health, armour, d) \in Nat \X Nat  BY <3>2, <3>3 DEF Wound
    <3>5. QED  BY <3>1, <3>4
  <2>4. /\ inPool /\ inPool' /\ m_byteWeaponShotID' = w /\ m_ofSync' = [m_ofSync EXCEPT !.weapon = w]
        /\ UNCHANGED <<inPool, m_byteState, m_byteUpdateFromNetwork, seenCar, sinceRecv, m_usPlayingAnimIdx,
                       m_bWasSettedFlag, m_bIsAFK, body, m_dwGlobalMarkerID, loaded, icons>>
    BY <2>1 DEF BulletSync
  <2>5. m_ofSync' \in OfSyncs  BY <1>1, <2>4, WeaponsKept DEF RemoteTypeOK, OfSyncs
  <2>6. RemoteTypeOK'  BY <1>1, <2>3, <2>4, <2>5 DEF RemoteTypeOK
  <2>7. MarkerRemembered' /\ NoPedWithoutPlayer' /\ WillEnd'
    BY <1>1, <2>4 DEF MarkerRemembered, NoPedWithoutPlayer, WillEnd
  <2>8. QED  BY <2>6, <2>7 DEF RemoteInv
<1>6. QED  BY <1>3, <1>4, <1>5

(* The server and the game change the ped's body, and nothing a packet     *)
(* has begun is forgotten.                                                 *)
LEMMA BodyChanges ==
    ASSUME RemoteInv, NEW b \in Bodies, Changes(b), loaded' \subseteq Anims,
           b # body => inPool, b.anim # 0 /\ ~b.scripted => b.anim = body.anim /\ ~body.scripted
    PROVE  RemoteInv'
<1>1. RemoteTypeOK /\ MarkerRemembered /\ NoPedWithoutPlayer /\ WillEnd  BY DEF RemoteInv
<1>2. /\ body' = b
      /\ UNCHANGED <<inPool, sync, m_usPlayingAnimIdx, m_bWasSettedFlag, m_byteWeaponShotID, m_bIsAFK,
                     m_dwGlobalMarkerID, icons, health, armour>>
  BY DEF Changes
<1>3. RemoteTypeOK'  BY <1>1, <1>2 DEF RemoteTypeOK, sync
<1>4. MarkerRemembered' /\ NoPedWithoutPlayer'  BY <1>1, <1>2 DEF MarkerRemembered, NoPedWithoutPlayer
<1>5. WillEnd'  BY <1>1, <1>2 DEF WillEnd, Ending
<1>6. QED  BY <1>3, <1>4, <1>5 DEF RemoteInv

LEMMA GameChanges ==
    ASSUME RemoteInv,
           \/ \E a \in Anims : ScrApplyPlayerAnimation(a) \/ Loads(a)
           \/ ScrClearPlayerAnimations \/ AnimationEnds
           \/ \E x \in BOOLEAN : StreamsNear(x) \/ Boards(x)
           \/ \E off \in 0 .. 2 : Walks(off)
    PROVE  RemoteInv'
<1> USE RemoteSyncAssumption
<1>1. PICK b \in Bodies : b = body  BY DEF RemoteInv, RemoteTypeOK
<1>2. PICK ready \in SUBSET Anims : ready = loaded  BY DEF RemoteInv, RemoteTypeOK
<1>3. b.exists \/ b.anim # 0 => inPool
  BY <1>1, NobodyIsThere DEF RemoteInv, NoPedWithoutPlayer
<1>4. ASSUME NEW a \in Anims, ScrApplyPlayerAnimation(a) PROVE RemoteInv'
  <2>1. PICK c : c = ApplyAnimation(b, a, ready, TRUE)  OBVIOUS
  <2>2. c \in Bodies /\ (c = b \/ c.scripted = TRUE)  BY <2>1, AppliedIs DEF Reportable
  <2>3. Changes(c) /\ loaded' = loaded /\ b.exists  BY <1>1, <1>2, <1>4, <2>1 DEF ScrApplyPlayerAnimation
  <2>4. QED  BY <1>1, <1>2, <1>3, <2>2, <2>3, BodyChanges
<1>5. ASSUME NEW a \in Anims, Loads(a) PROVE RemoteInv'
  <2>1. Changes(b) /\ loaded' \subseteq Anims  BY <1>1, <1>2, <1>5 DEF Loads
  <2>2. QED  BY <1>1, <2>1, BodyChanges
<1>6. CASE ScrClearPlayerAnimations \/ AnimationEnds
  <2>1. PICK c : c = Stopped(b)  OBVIOUS
  <2>2. c \in Bodies /\ c.anim = 0  BY <2>1, StoppedIs
  <2>3. Changes(c) /\ loaded' = loaded /\ (b.exists \/ b.anim # 0)
    BY <1>1, <1>6, <2>1 DEF ScrClearPlayerAnimations, AnimationEnds
  <2>4. QED  BY <1>2, <1>3, <2>2, <2>3, BodyChanges
<1>7. ASSUME NEW x \in BOOLEAN, StreamsNear(x) \/ Boards(x) PROVE RemoteInv'
  <2>1. PICK c \in {[b EXCEPT !.added = x], [b EXCEPT !.seated = x]} : Changes(c)
    BY <1>1, <1>7 DEF StreamsNear, Boards
  <2>2. c \in Bodies /\ c.anim = b.anim /\ c.scripted = b.scripted  BY <2>1 DEF Bodies
  <2>3. loaded' = loaded /\ b.exists  BY <1>1, <1>7 DEF StreamsNear, Boards
  <2>4. QED  BY <1>1, <1>2, <1>3, <2>1, <2>2, <2>3, BodyChanges
<1>8. ASSUME NEW off \in 0 .. 2, Walks(off) PROVE RemoteInv'
  <2>1. PICK c : c = [b EXCEPT !.off = off]  OBVIOUS
  <2>2. c \in Bodies /\ c.anim = b.anim /\ c.scripted = b.scripted  BY <2>1 DEF Bodies
  <2>3. Changes(c) /\ loaded' = loaded /\ b.exists  BY <1>1, <1>8, <2>1 DEF Walks
  <2>4. QED  BY <1>1, <1>2, <1>3, <2>2, <2>3, BodyChanges
<1>9. QED  BY <1>4, <1>5, <1>6, <1>7, <1>8

LEMMA FollowStep == RemoteInv /\ [RemoteSyncNext]_remoteVars => RemoteInv'
<1> SUFFICES ASSUME RemoteInv, [RemoteSyncNext]_remoteVars PROVE RemoteInv'  OBVIOUS
<1> USE RemoteSyncAssumption
<1>1. CASE UNCHANGED remoteVars
  <2>1. UNCHANGED <<inPool, m_dwGlobalMarkerID, loaded, icons, health, armour>> /\ UNCHANGED <<sync, shown>>
    BY <1>1 DEF remoteVars
  <2>2. QED
    BY <2>1 DEF sync, shown, RemoteInv, RemoteTypeOK, MarkerRemembered, NoPedWithoutPlayer, WillEnd
<1>2. Reports \subseteq OfSyncs
  <2>1. NoReport \in OfSyncs /\ NoReport.anim = 0 /\ NoReport.action = 0 /\ NoReport.weapon = 0
    BY NobodyIsThere DEF NoReport
  <2>2. \A w \in DOMAIN Slot, k \in Keys : WeaponByte(w, k) \in WeaponBytes  BY DEF WeaponBytes
  <2>3. \A a \in Reportable : [NoReport EXCEPT !.anim = a] \in OfSyncs  BY <2>1 DEF OfSyncs
  <2>4. \A c \in {0, 1, Entering}, x \in WeaponBytes : [anim |-> 0, action |-> c, weapon |-> x] \in OfSyncs
    BY DEF OfSyncs, Reportable
  <2>5. QED  BY <2>1, <2>2, <2>3, <2>4 DEF Reports, Reportable
<1>3. CASE RemoteFrame(IF Of("places") THEN 1 ELSE 0)
  <2>1. PICK moment \in {0, 1} : moment = IF Of("places") THEN 1 ELSE 0  OBVIOUS
  <2>2. FrameFollowed  BY <1>3, <2>1, FrameFollows
  <2>3. QED  BY <2>2 DEF FrameFollowed
<1>4. ASSUME NEW w \in Carried, NEW near \in BOOLEAN, BulletSync(SendBulletSyncData(w, near)) PROVE RemoteInv'
  <2>1. SendBulletSyncData(w, near) \in Carried  BY DEF SendBulletSyncData, Carried
  <2>2. QED  BY <1>4, <2>1, PacketsStored
<1>5. ASSUME NEW a \in {0, 1, 2}, Hurt(2, a) PROVE RemoteInv'
  <2>1. /\ health' = 2 /\ armour' = a /\ UNCHANGED <<inPool, m_dwGlobalMarkerID, loaded, icons>>
        /\ UNCHANGED <<sync, shown>>
    BY <1>5 DEF Hurt
  <2>2. QED
    BY <2>1 DEF sync, shown, RemoteInv, RemoteTypeOK, MarkerRemembered, NoPedWithoutPlayer, WillEnd
<1>6. CASE Joins \/ Quits \/ StreamsIn \/ StreamsOut \/ PedDies  BY <1>6, ComesAndGoes
<1>7. ASSUME NEW report \in Reports, NEW off \in 0 .. 2, StoreOnFootFullSyncData(report, off) PROVE RemoteInv'
  BY <1>2, <1>7, PacketsStored
<1>8. ASSUME NEW kind \in {"driver", "passenger"}, NEW car \in BOOLEAN, StoreInCarFullSyncData(kind, car)
      PROVE  RemoteInv'
  BY <1>8, PacketsStored
<1>9. ASSUME NEW active \in BOOLEAN, Packet_MarkersSync(active) PROVE RemoteInv'  BY <1>9, MarkersFollow
<1>10. CASE \/ \E a \in Anims : ScrApplyPlayerAnimation(a) \/ Loads(a)
            \/ ScrClearPlayerAnimations \/ AnimationEnds
            \/ \E x \in BOOLEAN : StreamsNear(x) \/ Boards(x)
            \/ \E off \in 0 .. 2 : Walks(off)
  BY <1>10, GameChanges
<1>11. QED
  BY <1>1, <1>3, <1>4, <1>5, <1>6, <1>7, <1>8, <1>9, <1>10 DEF RemoteSyncNext

(* Over any animations, weapons and markers: the ped of a remote player is *)
(* what his packets say after every frame, a bullet takes what it should,  *)
(* and no marker is left behind.                                           *)
THEOREM FollowsItsPackets == PlayerSpec => RemoteAsSent
<1> DEFINE AsSent ==
      /\ (\E moment \in {0, 1} : RemoteFrame(moment)) /\ body'.exists =>
            AwayUnheard /\ (m_byteState = "onfoot" /\ ~body.seated => FollowsPackets)
      /\ \A w \in Carried : BulletSync(w) => TakesAsTold(w)
      /\ icons' = {m_dwGlobalMarkerID'} \ {0}
<1>1. PlayerInit => RemoteInv  BY FollowStart DEF PlayerInit
<1>2. RemoteInv /\ [PlayerNext]_playerVars => RemoteInv'
  <2> SUFFICES ASSUME RemoteInv, [PlayerNext]_playerVars PROVE RemoteInv'
    OBVIOUS
  <2>1. [RemoteSyncNext]_remoteVars  BY DEF PlayerNext, playerVars
  <2>2. QED  BY <2>1, FollowStep
<1>3. RemoteInv /\ RemoteInv' => AsSent
  <2> SUFFICES ASSUME RemoteInv, RemoteInv' PROVE AsSent  OBVIOUS
  <2>1. ASSUME NEW moment \in {0, 1}, RemoteFrame(moment), body'.exists
        PROVE  AwayUnheard /\ (m_byteState = "onfoot" /\ ~body.seated => FollowsPackets)
    BY <2>1, FrameFollows DEF FrameFollowed
  <2>2. ASSUME NEW w \in Carried, BulletSync(w) PROVE TakesAsTold(w)  BY <2>2, BulletTakes
  <2>3. icons' = {m_dwGlobalMarkerID'} \ {0}  BY DEF RemoteInv, MarkerRemembered
  <2>4. QED  BY <2>1, <2>2, <2>3
<1>4. RemoteAsSent <=> [][AsSent]_remoteVars  BY DEF RemoteAsSent
<1> HIDE DEF AsSent
<1>5. QED  BY <1>1, <1>2, <1>3, <1>4, PTL DEF PlayerSpec

-----------------------------------------------------------------------------
(* Folds, one step after the other *)

(* Induction over numbers and over the subsets of a finite set, of what    *)
(* holds for the members of a set.                                         *)
LEMMA CountingUp ==
    ASSUME NEW T, 0 \in T, \A n \in Nat : n \in T => n + 1 \in T
    PROVE  Nat \subseteq T
<1> SUFFICES ASSUME ~(Nat \subseteq T) PROVE FALSE  OBVIOUS
<1> DEFINE B == Nat \ T
<1>1. B # {} /\ B \subseteq Nat  OBVIOUS
<1>2. PICK n \in B : \A k \in B : <<k, n>> \notin OpToRel(<, Nat)
  <2> HIDE DEF B
  <2> QED  BY <1>1, NatLessThanWellFounded, WFMin
<1>3. n # 0 /\ n - 1 \in Nat  OBVIOUS
<1>4. <<n - 1, n>> \in OpToRel(<, Nat)  BY <1>3, n - 1 < n DEF OpToRel
<1>5. n - 1 \notin B  BY <1>2, <1>4
<1>6. n - 1 \in T /\ n \in Nat /\ n \notin T /\ n = (n - 1) + 1  BY <1>3, <1>5
<1>7. QED  BY <1>3, <1>6

LEMMA Subsets ==
    ASSUME NEW S, IsFiniteSet(S), NEW T, {} \in T,
           \A s \in SUBSET S : s # {} /\ (\A r \in SUBSET s : r # s => r \in T) => s \in T
    PROVE  SUBSET S \subseteq T
<1> SUFFICES ASSUME ~(SUBSET S \subseteq T) PROVE FALSE  OBVIOUS
<1> DEFINE B == (SUBSET S) \ T
<1>1. B # {} /\ B \subseteq FiniteSubsetsOf(S)
  BY FS_Subset DEF FiniteSubsetsOf
<1>2. IsWellFoundedOn(StrictSubsetOrdering(S), FiniteSubsetsOf(S))
  BY FS_StrictSubsetOrderingWellFounded
<1>3. PICK s \in B : \A r \in B : <<r, s>> \notin StrictSubsetOrdering(S)
  <2> HIDE DEF B
  <2> QED  BY <1>1, <1>2, WFMin
<1>4. \A r \in SUBSET s : r # s => r \in T  BY <1>3 DEF StrictSubsetOrdering
<1>5. QED  BY <1>3, <1>4

Picked(s) == CHOOSE x \in s : TRUE

(* A fold's table, from the sets to their results, in the order of pick. *)
FoldsBy(pick, iter, S, base, op) ==
    iter = [s \in SUBSET S |-> IF s = {} THEN base ELSE op[<<pick[s], iter[s \ {pick[s]}]>>]]

(* There is such a table, if the steps stay among the values.  *)
LEMMA FoldByExists ==
    ASSUME NEW S, IsFiniteSet(S), NEW V, NEW base \in V, NEW op \in [S \X V -> V],
           NEW pick, \A s \in SUBSET S : s # {} => pick[s] \in s
    PROVE  \E iter \in [SUBSET S -> V] : FoldsBy(pick, iter, S, base, op)
<1> DEFINE Small(n) == {s \in SUBSET S : Cardinality(s) <= n}
           Solves(g, n) == \A s \in Small(n) :
                              g[s] = IF s = {} THEN base ELSE op[<<pick[s], g[s \ {pick[s]}]>>]
           T == {n \in Nat : \E g \in [Small(n) -> V] : Solves(g, n)}
<1>1. \A s \in SUBSET S : IsFiniteSet(s) /\ Cardinality(s) \in Nat
  BY FS_Subset, FS_CardinalityType
<1>2. \A s \in SUBSET S : s # {} =>
         /\ pick[s] \in s /\ s \ {pick[s]} \in SUBSET S
         /\ Cardinality(s \ {pick[s]}) = Cardinality(s) - 1
  BY <1>1, FS_RemoveElement
<1>3. 0 \in T
  <2> DEFINE g == [s \in Small(0) |-> base]
  <2>1. \A s \in Small(0) : s = {}  BY <1>1, FS_EmptySet
  <2>2. g \in [Small(0) -> V] /\ Solves(g, 0)  BY <2>1
  <2>3. QED  BY <2>2
<1>4. ASSUME NEW n \in Nat, n \in T PROVE n + 1 \in T
  <2>1. PICK g \in [Small(n) -> V] : Solves(g, n)  BY <1>4
  <2> DEFINE h == [s \in Small(n + 1) |->
                      IF Cardinality(s) <= n THEN g[s] ELSE op[<<pick[s], g[s \ {pick[s]}]>>]]
  <2>2. \A s \in Small(n + 1) : s # {} => s \ {pick[s]} \in Small(n) /\ pick[s] \in S
    BY <1>1, <1>2
  <2>3. \A s \in Small(n + 1) : Cardinality(s) <= n \/ s # {}
    BY <1>1, FS_EmptySet
  <2>4. \A s \in Small(n) : s \in Small(n + 1) /\ h[s] = g[s]  BY <1>1
  <2>5. h \in [Small(n + 1) -> V]
    <3> SUFFICES ASSUME NEW s \in Small(n + 1) PROVE h[s] \in V  OBVIOUS
    <3>1. CASE Cardinality(s) <= n  BY <3>1
    <3>2. CASE ~(Cardinality(s) <= n)
      <4>1. g[s \ {pick[s]}] \in V /\ pick[s] \in S  BY <2>2, <2>3, <3>2
      <4>2. h[s] = op[<<pick[s], g[s \ {pick[s]}]>>]  BY <3>2
      <4> HIDE DEF h
      <4>3. QED  BY <4>1, <4>2
    <3>3. QED  BY <3>1, <3>2
  <2>6. Solves(h, n + 1)
    <3> SUFFICES ASSUME NEW s \in Small(n + 1)
                 PROVE  h[s] = IF s = {} THEN base ELSE op[<<pick[s], h[s \ {pick[s]}]>>]
      OBVIOUS
    <3>1. s # {} => h[s \ {pick[s]}] = g[s \ {pick[s]}]  BY <2>2, <2>4
    <3>2. CASE Cardinality(s) <= n
      <4>1. s \in Small(n) /\ h[s] = g[s]  BY <3>2
      <4> HIDE DEF h
      <4>2. QED  BY <2>1, <3>1, <4>1
    <3>3. CASE ~(Cardinality(s) <= n)
      <4>1. s # {} /\ h[s] = op[<<pick[s], g[s \ {pick[s]}]>>]  BY <2>3, <3>3
      <4> HIDE DEF h
      <4>2. QED  BY <3>1, <4>1
    <3>4. QED  BY <3>2, <3>3
  <2> HIDE DEF h, Small, Solves
  <2>7. QED  BY <2>5, <2>6, n + 1 \in Nat
<1>5. Cardinality(S) \in T
  <2> HIDE DEF T
  <2>1. Nat \subseteq T  BY <1>3, <1>4, CountingUp
  <2>2. QED  BY <2>1, FS_CardinalityType
<1>6. Small(Cardinality(S)) = SUBSET S  BY <1>1, FS_Subset
<1>7. PICK g \in [SUBSET S -> V] : Solves(g, Cardinality(S))  BY <1>5, <1>6
<1>8. \A s \in SUBSET S : g[s] = IF s = {} THEN base ELSE op[<<pick[s], g[s \ {pick[s]}]>>]
  BY <1>6, <1>7
<1>9. g = [s \in SUBSET S |-> IF s = {} THEN base ELSE op[<<pick[s], g[s \ {pick[s]}]>>]]
  <2>1. g = [s \in SUBSET S |-> g[s]]  BY <1>7
  <2>2. QED  BY <1>8, <2>1, Zenon
<1>10. QED  BY <1>7, <1>9 DEF FoldsBy

(* The order of the library's folds over sets. *)
Folds(iter, S, base, op) ==
    iter = [s \in SUBSET S |-> IF s = {} THEN base ELSE op[<<Picked(s), iter[s \ {Picked(s)}]>>]]

LEMMA FoldExists ==
    ASSUME NEW S, IsFiniteSet(S), NEW V, NEW base \in V, NEW op \in [S \X V -> V]
    PROVE  \E iter \in [SUBSET S -> V] : Folds(iter, S, base, op)
<1> DEFINE pick == [s \in SUBSET S |-> Picked(s)]
<1>1. \A s \in SUBSET S : pick[s] = Picked(s) /\ (s # {} => pick[s] \in s)  BY DEF Picked
<1> HIDE DEF pick
<1>2. PICK iter \in [SUBSET S -> V] : FoldsBy(pick, iter, S, base, op)  BY <1>1, FoldByExists
<1>3. QED  BY <1>1, <1>2 DEF FoldsBy, Folds

-----------------------------------------------------------------------------
(* What peds carry *)

Things == Weapons \cup Shapes \cup {Nothing}
OnType == [AttachSlots -> Things]
PedType == [on : OnType, objects : Int]

(* What hangs on a ped, and the objects that hang on others. *)
Hanging(on) == {s \in AttachSlots : on[s] # Nothing}
Elsewhere(v) == v.objects - Cardinality(Hanging(v.on))

LEMMA SlotsFinite ==
    /\ IsFiniteSet(AttachSlots)
    /\ \A on : IsFiniteSet(Hanging(on)) /\ Cardinality(Hanging(on)) \in Nat
<1>1. IsFiniteSet(OutfitSlots) /\ IsFiniteSet(ServerSlots)  BY AttachmentsAssumption
<1>2. IsFiniteSet({OutfitSlot(s) : s \in OutfitSlots})
  <2> DEFINE f == [s \in OutfitSlots |-> OutfitSlot(s)]
  <2>1. f \in Surjection(OutfitSlots, {OutfitSlot(s) : s \in OutfitSlots})  BY DEF Surjection
  <2> HIDE DEF f
  <2>2. QED  BY <1>1, <2>1, FS_Surjection
<1>3. IsFiniteSet(AttachSlots)  BY <1>1, <1>2, FS_Union DEF AttachSlots
<1>4. QED  BY <1>3, FS_Subset, FS_CardinalityType DEF Hanging

LEMMA DeattachIs ==
    ASSUME NEW v \in PedType, NEW s \in AttachSlots
    PROVE  /\ DeattachObject(v, s) \in PedType
           /\ DeattachObject(v, s).on = [v.on EXCEPT ![s] = Nothing]
           /\ Elsewhere(DeattachObject(v, s)) = Elsewhere(v)
<1> DEFINE r == DeattachObject(v, s)
<1>1. v.on \in OnType /\ v.objects \in Int  BY DEF PedType
<1>2. r.on = [v.on EXCEPT ![s] = Nothing] /\ r.on \in OnType  BY <1>1 DEF DeattachObject, OnType, Things
<1>3. r.objects = IF v.on[s] = Nothing THEN v.objects ELSE v.objects - 1  BY DEF DeattachObject
<1>4. r \in PedType  BY <1>1, <1>2, <1>3 DEF DeattachObject, PedType
<1>5. Hanging(r.on) = Hanging(v.on) \ {s}  BY <1>1, <1>2 DEF Hanging, OnType
<1>6. Cardinality(Hanging(r.on)) =
        IF v.on[s] # Nothing THEN Cardinality(Hanging(v.on)) - 1 ELSE Cardinality(Hanging(v.on))
  <2>1. s \in Hanging(v.on) <=> v.on[s] # Nothing  BY DEF Hanging
  <2>2. QED  BY <1>5, <2>1, SlotsFinite, FS_RemoveElement
<1> HIDE DEF r
<1>7. Elsewhere(r) = Elsewhere(v)  BY <1>1, <1>3, <1>6, SlotsFinite DEF Elsewhere
<1>8. QED  BY <1>2, <1>4, <1>7 DEF r

LEMMA AttachIs ==
    ASSUME NEW v \in PedType, NEW s \in AttachSlots, NEW thing \in Weapons \cup Shapes
    PROVE  /\ AttachObject(v, s, thing) \in PedType
           /\ AttachObject(v, s, thing).on = [v.on EXCEPT ![s] = thing]
           /\ Elsewhere(AttachObject(v, s, thing)) = Elsewhere(v)
<1> DEFINE d == DeattachObject(v, s)
           r == AttachObject(v, s, thing)
<1>1. d \in PedType /\ d.on = [v.on EXCEPT ![s] = Nothing] /\ Elsewhere(d) = Elsewhere(v)  BY DeattachIs
<1>2. v.on \in OnType /\ d.on \in OnType /\ d.objects \in Int  BY <1>1 DEF PedType
<1>3. r = [on |-> [d.on EXCEPT ![s] = thing], objects |-> d.objects + 1]  BY DEF AttachObject
<1> HIDE DEF d, r
<1>4. thing # Nothing /\ thing \in Things  BY AttachmentsAssumption DEF Things
<1>5. r \in PedType /\ r.on = [v.on EXCEPT ![s] = thing]
  BY <1>1, <1>2, <1>3, <1>4 DEF PedType, OnType
<1>6. Hanging(r.on) = Hanging(d.on) \cup {s} /\ s \notin Hanging(d.on)
  BY <1>1, <1>2, <1>4, <1>5 DEF Hanging, OnType
<1>7. Cardinality(Hanging(r.on)) = Cardinality(Hanging(d.on)) + 1  BY <1>6, SlotsFinite, FS_AddElement
<1>8. Elsewhere(r) = Elsewhere(d)  BY <1>2, <1>3, <1>7, SlotsFinite DEF Elsewhere
<1>9. QED  BY <1>1, <1>5, <1>8 DEF r

(* All slots are emptied, in whatever order. *)
LEMMA FlushIs ==
    ASSUME NEW v \in PedType
    PROVE  /\ FlushAttach(v) \in PedType /\ FlushAttach(v).on = Bare
           /\ Elsewhere(FlushAttach(v)) = Elsewhere(v)
<1> DEFINE Table(iter) ==
             iter = [s \in SUBSET AttachSlots |->
                       IF s = {} THEN v ELSE DeattachObject(iter[s \ {Picked(s)}], Picked(s))]
           table == CHOOSE iter : Table(iter)
<1>1. FlushAttach(v) = table[AttachSlots]
  BY DEF FlushAttach, FoldSet, MapThenFoldSet, Picked
<1>2. Table(table)
  <2> DEFINE op == [p \in AttachSlots \X PedType |-> DeattachObject(p[2], p[1])]
  <2>1. op \in [AttachSlots \X PedType -> PedType]  BY DeattachIs
  <2>2. PICK g \in [SUBSET AttachSlots -> PedType] : Folds(g, AttachSlots, v, op)
    <3> HIDE DEF op
    <3> QED  BY <2>1, SlotsFinite, FoldExists
  <2>3. Table(g)
    <3>1. ASSUME NEW s \in SUBSET AttachSlots, s # {}
          PROVE  op[<<Picked(s), g[s \ {Picked(s)}]>>] = DeattachObject(g[s \ {Picked(s)}], Picked(s))
      <4>1. Picked(s) \in AttachSlots /\ s \ {Picked(s)} \in SUBSET AttachSlots  BY <3>1 DEF Picked
      <4>2. g[s \ {Picked(s)}] \in PedType  BY <4>1
      <4>3. QED  BY <4>1, <4>2
    <3> HIDE DEF op
    <3>2. QED  BY <2>2, <3>1 DEF Folds
  <2> HIDE DEF Table
  <2>4. QED  BY <2>3
<1> DEFINE T == {s \in SUBSET AttachSlots :
                   /\ table[s] \in PedType /\ Elsewhere(table[s]) = Elsewhere(v)
                   /\ \A x \in AttachSlots : table[s].on[x] = IF x \in s THEN Nothing ELSE v.on[x]}
<1> HIDE DEF table
<1>3. {} \in T  BY <1>2
<1>4. ASSUME NEW s \in SUBSET AttachSlots, s # {}, \A r \in SUBSET s : r # s => r \in T
      PROVE  s \in T
  <2>1. PICK x, w : x \in s /\ x = Picked(s) /\ w = table[s \ {x}] /\ s \ {x} \in T  BY <1>4 DEF Picked
  <2>2. table[s] = DeattachObject(w, x)  BY <1>2, <1>4, <2>1
  <2>3. /\ w \in PedType /\ Elsewhere(w) = Elsewhere(v) /\ x \in AttachSlots
        /\ \A y \in AttachSlots : w.on[y] = IF y \in s \ {x} THEN Nothing ELSE v.on[y]
    BY <2>1
  <2>4. table[s] \in PedType /\ Elsewhere(table[s]) = Elsewhere(v) /\ table[s].on = [w.on EXCEPT ![x] = Nothing]
    BY <2>2, <2>3, DeattachIs
  <2>5. \A y \in AttachSlots : table[s].on[y] = IF y \in s THEN Nothing ELSE v.on[y]
    BY <2>1, <2>3, <2>4 DEF PedType, OnType
  <2>6. QED  BY <2>4, <2>5
<1>5. AttachSlots \in T
  <2> HIDE DEF T
  <2>1. SUBSET AttachSlots \subseteq T  BY <1>3, <1>4, SlotsFinite, Subsets
  <2>2. QED  BY <2>1
<1>6. table[AttachSlots].on = Bare  BY <1>5 DEF PedType, OnType, Bare
<1>7. QED  BY <1>1, <1>5, <1>6

(* The outfit: its slots, and what hangs in them.  Weapons of cast may be   *)
(* missing, and given is what the server has attached.                     *)
OutfitType ==
    [ped : PedType, used : SUBSET Weapons, slot : [Weapons -> OutfitSlots \cup {-1}], slots : SUBSET OutfitSlots]

Hangs(o, parsed) ==
    \A s \in OutfitSlots :
        o.ped.on[OutfitSlot(s)] # Nothing =>
            /\ parsed /\ o.ped.on[OutfitSlot(s)] \in Weapons
            /\ o.slot[o.ped.on[OutfitSlot(s)]] = s

Slotted(o, cast) ==
    /\ o.slots = {o.slot[w] : w \in Weapons} \ {-1}
    /\ \A w1, w2 \in Weapons : o.slot[w1] = o.slot[w2] /\ o.slot[w1] # -1 => w1 = w2
    /\ \A w \in Weapons : o.slot[w] # -1 =>
           w \in o.used /\ (o.ped.on[OutfitSlot(o.slot[w])] = w \/ w \in cast)

Wears(o, parsed, cast, given) ==
    /\ Hangs(o, parsed)
    /\ parsed => Slotted(o, cast)
    /\ \A s \in ServerSlots : o.ped.on[s] = given[s]

LEMMA LeastFree ==
    ASSUME NEW free \in SUBSET Nat, free # {}
    PROVE  Min(free) \in free
<1>1. PICK n \in free : \A k \in free : <<k, n>> \notin OpToRel(<, Nat)
  BY NatLessThanWellFounded, WFMin
<1>2. ASSUME NEW k \in free, k < n PROVE FALSE
  <2>1. <<k, n>> \in OpToRel(<, Nat)  BY <1>2 DEF OpToRel
  <2>2. QED  BY <1>1, <2>1
<1>3. \A k \in free : n <= k  BY <1>2
<1>4. QED  BY <1>3 DEF Min

LEMMA SlotsApart ==
    /\ \A s \in OutfitSlots : OutfitSlot(s) \in AttachSlots /\ OutfitSlot(s) \notin ServerSlots
    /\ \A s, t \in OutfitSlots : OutfitSlot(s) = OutfitSlot(t) => s = t
    /\ \A s \in ServerSlots : s \in AttachSlots
    /\ \A s \in OutfitSlots : s # -1
<1>1. OutfitSlots \subseteq Nat /\ {OutfitSlot(s) : s \in OutfitSlots} \cap ServerSlots = {}
  BY AttachmentsAssumption
<1>2. \A s, t \in OutfitSlots : OutfitSlot(s) = OutfitSlot(t) => s = t  BY <1>1 DEF OutfitSlot
<1>3. QED  BY <1>1, <1>2 DEF AttachSlots

(* A weapon without a slot takes the first free one, if there is any. *)
LEMMA AddKeeps ==
    ASSUME NEW o \in OutfitType, NEW w \in Weapons
    PROVE  LET r == OnWeaponAdded(o, w)
           IN /\ r \in OutfitType /\ r.used = o.used \cup {w}
              /\ Elsewhere(r.ped) = Elsewhere(o.ped)
              /\ \A cast, given : w \notin o.used /\ Wears(o, TRUE, cast, given) => Wears(r, TRUE, cast, given)
<1> DEFINE r == OnWeaponAdded(o, w)
           free == OutfitSlots \ o.slots
<1>1. /\ o.ped \in PedType /\ o.used \in SUBSET Weapons
      /\ o.slot \in [Weapons -> OutfitSlots \cup {-1}] /\ o.slots \in SUBSET OutfitSlots
  BY DEF OutfitType
<1>2. CASE w \in Modelless \/ free = {}
  <2>1. r = [o EXCEPT !.used = @ \cup {w}]  BY <1>2 DEF OnWeaponAdded
  <2>2. r \in OutfitType /\ r.ped = o.ped /\ r.used = o.used \cup {w} /\ r.slot = o.slot /\ r.slots = o.slots
    BY <1>1, <2>1 DEF OutfitType
  <2> HIDE DEF r
  <2>3. QED  BY <2>2 DEF r, Wears, Hangs, Slotted
<1>3. CASE ~(w \in Modelless \/ free = {})
  <2>1. PICK m : m = Min(free)  OBVIOUS
  <2>2. m \in OutfitSlots /\ m \notin o.slots
    BY <1>3, <2>1, LeastFree, AttachmentsAssumption
  <2>3. PICK p : p = AttachObject(o.ped, OutfitSlot(m), w)  OBVIOUS
  <2>4. p \in PedType /\ p.on = [o.ped.on EXCEPT ![OutfitSlot(m)] = w] /\ Elsewhere(p) = Elsewhere(o.ped)
    BY <1>1, <2>2, <2>3, AttachIs, SlotsApart
  <2>5. r = [[o EXCEPT !.used = @ \cup {w}] EXCEPT !.slots = @ \cup {m}, !.slot[w] = m, !.ped = p]
    BY <1>3, <2>1, <2>3 DEF OnWeaponAdded
  <2>6. /\ r.ped = p /\ r.used = o.used \cup {w} /\ r.slots = o.slots \cup {m}
        /\ r.slot = [o.slot EXCEPT ![w] = m]
    BY <2>5 DEF OutfitType
  <2>7. r \in OutfitType
    <3>1. r = [ped |-> r.ped, used |-> r.used, slot |-> r.slot, slots |-> r.slots]
      BY <2>5 DEF OutfitType
    <3>2. /\ r.used \in SUBSET Weapons /\ r.slots \in SUBSET OutfitSlots
          /\ r.slot \in [Weapons -> OutfitSlots \cup {-1}] /\ r.ped \in PedType
      BY <1>1, <2>2, <2>4, <2>6
    <3> HIDE DEF r
    <3>3. QED  BY <3>1, <3>2 DEF OutfitType
  <2>8. ASSUME NEW cast, NEW given, w \notin o.used, Wears(o, TRUE, cast, given)
        PROVE  Wears(r, TRUE, cast, given)
    <3> HIDE DEF r, free
    <3>1. o.slot[w] = -1  BY <2>8, <1>1 DEF Wears, Slotted
    <3>2. \A u \in Weapons : o.slot[u] # m  BY <2>2, <2>8, SlotsApart DEF Wears, Slotted
    <3>3. /\ \A u \in Weapons : r.slot[u] = IF u = w THEN m ELSE o.slot[u]
          /\ \A s \in AttachSlots : r.ped.on[s] = IF s = OutfitSlot(m) THEN w ELSE o.ped.on[s]
      BY <1>1, <2>4, <2>6 DEF PedType, OnType
    <3>4. Hangs(r, TRUE)
      <4> SUFFICES ASSUME NEW s \in OutfitSlots, r.ped.on[OutfitSlot(s)] # Nothing
                   PROVE  r.ped.on[OutfitSlot(s)] \in Weapons /\ r.slot[r.ped.on[OutfitSlot(s)]] = s
        BY DEF Hangs
      <4>1. CASE s = m  BY <4>1, <3>3, SlotsApart
      <4>2. CASE s # m
        <5>1. r.ped.on[OutfitSlot(s)] = o.ped.on[OutfitSlot(s)]  BY <4>2, <2>2, <3>3, SlotsApart
        <5>2. o.ped.on[OutfitSlot(s)] \in Weapons /\ o.slot[o.ped.on[OutfitSlot(s)]] = s
          BY <5>1, <2>8 DEF Wears, Hangs
        <5>3. o.ped.on[OutfitSlot(s)] # w  BY <5>2, <3>1, SlotsApart
        <5>4. QED  BY <5>1, <5>2, <5>3, <3>3
      <4>3. QED  BY <4>1, <4>2
    <3>5. Slotted(r, cast)
      <4>0. Slotted(o, cast)  BY <2>8 DEF Wears
      <4>1. r.slots = {r.slot[u] : u \in Weapons} \ {-1}
        <5>1. o.slots = {o.slot[u] : u \in Weapons} \ {-1}  BY <4>0 DEF Slotted
        <5>2. m # -1  BY <2>2, SlotsApart
        <5>3. ASSUME NEW x, x \in r.slots PROVE x \in {r.slot[u] : u \in Weapons} \ {-1}
          <6>1. CASE x = m  BY <6>1, <5>2, <3>3
          <6>2. CASE x # m
            <7>1. PICK u \in Weapons : x = o.slot[u] /\ x # -1  BY <6>2, <5>1, <5>3, <2>6
            <7>2. r.slot[u] = x  BY <7>1, <3>1, <3>3
            <7>3. QED  BY <7>1, <7>2
          <6>3. QED  BY <6>1, <6>2
        <5>4. ASSUME NEW u \in Weapons, r.slot[u] # -1 PROVE r.slot[u] \in r.slots
          BY <5>4, <5>1, <3>3, <2>6
        <5>5. QED  BY <5>3, <5>4
      <4>2. \A u1, u2 \in Weapons : r.slot[u1] = r.slot[u2] /\ r.slot[u1] # -1 => u1 = u2
        BY <4>0, <3>2, <3>3 DEF Slotted
      <4>3. ASSUME NEW u \in Weapons, r.slot[u] # -1
            PROVE  u \in r.used /\ (r.ped.on[OutfitSlot(r.slot[u])] = u \/ u \in cast)
        <5>1. CASE u = w  BY <5>1, <2>2, <2>6, <3>3, SlotsApart
        <5>2. CASE u # w
          <6>1. r.slot[u] = o.slot[u] /\ o.slot[u] \in OutfitSlots /\ o.slot[u] # m
            BY <5>2, <4>3, <1>1, <3>2, <3>3
          <6>2. r.ped.on[OutfitSlot(o.slot[u])] = o.ped.on[OutfitSlot(o.slot[u])]
            BY <6>1, <2>2, <3>3, SlotsApart
          <6>3. u \in o.used /\ (o.ped.on[OutfitSlot(o.slot[u])] = u \/ u \in cast)
            BY <6>1, <4>0, <4>3 DEF Slotted
          <6>4. QED  BY <6>1, <6>2, <6>3, <2>6
        <5>3. QED  BY <5>1, <5>2
      <4>4. QED  BY <4>1, <4>2, <4>3 DEF Slotted
    <3>6. \A s \in ServerSlots : r.ped.on[s] = given[s]
      BY <2>2, <2>8, <3>3, SlotsApart DEF Wears
    <3>7. QED  BY <3>4, <3>5, <3>6 DEF Wears
  <2> HIDE DEF r
  <2>9. QED  BY <2>4, <2>6, <2>7, <2>8 DEF r
<1>4. QED  BY <1>2, <1>3

(* A weapon gives its slot back, and no other's is touched. *)
LEMMA RemoveKeeps ==
    ASSUME NEW o \in OutfitType, NEW w \in Weapons
    PROVE  LET r == OnWeaponRemoved(o, w)
           IN /\ r \in OutfitType /\ r.used = o.used \ {w}
              /\ Elsewhere(r.ped) = Elsewhere(o.ped)
              /\ \A u \in Weapons : r.slot[u] = IF u = w THEN -1 ELSE o.slot[u]
              /\ \A parsed, cast, given : Wears(o, parsed, cast, given) => Wears(r, parsed, cast, given)
<1> DEFINE r == OnWeaponRemoved(o, w)
<1>1. /\ o.ped \in PedType /\ o.used \in SUBSET Weapons
      /\ o.slot \in [Weapons -> OutfitSlots \cup {-1}] /\ o.slots \in SUBSET OutfitSlots
  BY DEF OutfitType
<1>2. CASE o.slot[w] = -1
  <2>1. r = [o EXCEPT !.used = @ \ {w}]  BY <1>2 DEF OnWeaponRemoved
  <2>2. r \in OutfitType /\ r.ped = o.ped /\ r.used = o.used \ {w} /\ r.slot = o.slot /\ r.slots = o.slots
    BY <1>1, <2>1 DEF OutfitType
  <2> HIDE DEF r
  <2>3. \A cast : Slotted(o, cast) => Slotted(r, cast)  BY <1>2, <2>2 DEF Slotted
  <2>4. \A parsed, cast, given : Wears(o, parsed, cast, given) => Wears(r, parsed, cast, given)
    BY <2>2, <2>3 DEF Wears, Hangs
  <2>5. QED  BY <1>2, <2>2, <2>4 DEF r
<1>3. CASE o.slot[w] # -1
  <2>1. PICK m : m = o.slot[w] /\ m \in OutfitSlots  BY <1>1, <1>3
  <2>3. PICK p : p = DeattachObject(o.ped, OutfitSlot(m))  OBVIOUS
  <2>4. p \in PedType /\ p.on = [o.ped.on EXCEPT ![OutfitSlot(m)] = Nothing] /\ Elsewhere(p) = Elsewhere(o.ped)
    BY <1>1, <2>1, <2>3, DeattachIs, SlotsApart
  <2>5. r = [[o EXCEPT !.used = @ \ {w}] EXCEPT !.slots = @ \ {m}, !.slot[w] = -1, !.ped = p]
    BY <1>3, <2>1, <2>3 DEF OnWeaponRemoved
  <2>6. /\ r.ped = p /\ r.used = o.used \ {w} /\ r.slots = o.slots \ {m}
        /\ r.slot = [o.slot EXCEPT ![w] = -1]
    BY <2>5 DEF OutfitType
  <2>7. r \in OutfitType
    <3>1. r = [ped |-> r.ped, used |-> r.used, slot |-> r.slot, slots |-> r.slots]
      BY <2>5 DEF OutfitType
    <3>2. /\ r.used \in SUBSET Weapons /\ r.slots \in SUBSET OutfitSlots
          /\ r.slot \in [Weapons -> OutfitSlots \cup {-1}] /\ r.ped \in PedType
      BY <1>1, <2>4, <2>6
    <3> HIDE DEF r
    <3>3. QED  BY <3>1, <3>2 DEF OutfitType
  <2> HIDE DEF r
  <2>8. /\ \A u \in Weapons : r.slot[u] = IF u = w THEN -1 ELSE o.slot[u]
        /\ \A s \in AttachSlots : r.ped.on[s] = IF s = OutfitSlot(m) THEN Nothing ELSE o.ped.on[s]
    BY <1>1, <2>4, <2>6 DEF PedType, OnType
  <2>9. ASSUME NEW parsed, NEW cast, NEW given, Wears(o, parsed, cast, given)
        PROVE  Wears(r, parsed, cast, given)
    <3>4. Hangs(r, parsed)
      <4> SUFFICES ASSUME NEW s \in OutfitSlots, r.ped.on[OutfitSlot(s)] # Nothing
                   PROVE  parsed /\ r.ped.on[OutfitSlot(s)] \in Weapons /\ r.slot[r.ped.on[OutfitSlot(s)]] = s
        BY DEF Hangs
      <4>1. s # m /\ r.ped.on[OutfitSlot(s)] = o.ped.on[OutfitSlot(s)]  BY <2>1, <2>8, SlotsApart
      <4>2. parsed /\ o.ped.on[OutfitSlot(s)] \in Weapons /\ o.slot[o.ped.on[OutfitSlot(s)]] = s
        BY <4>1, <2>9 DEF Wears, Hangs
      <4>3. o.ped.on[OutfitSlot(s)] # w  BY <4>1, <4>2, <2>1
      <4>4. QED  BY <4>1, <4>2, <4>3, <2>8
    <3>5. ASSUME parsed PROVE Slotted(r, cast)
      <4>0. Slotted(o, cast)  BY <2>9, <3>5 DEF Wears
      <4>1. r.slots = {r.slot[u] : u \in Weapons} \ {-1}
        <5>1. o.slots = {o.slot[u] : u \in Weapons} \ {-1}  BY <4>0 DEF Slotted
        <5>2. \A u \in Weapons : u # w => o.slot[u] # m  BY <1>3, <2>1, <4>0 DEF Slotted
        <5>3. ASSUME NEW x, x \in r.slots PROVE x \in {r.slot[u] : u \in Weapons} \ {-1}
          <6>1. PICK u \in Weapons : x = o.slot[u] /\ x # -1 /\ x # m  BY <5>1, <5>3, <2>6
          <6>2. r.slot[u] = x  BY <6>1, <2>1, <2>8
          <6>3. QED  BY <6>1, <6>2
        <5>4. ASSUME NEW u \in Weapons, r.slot[u] # -1 PROVE r.slot[u] \in r.slots
          BY <5>4, <5>1, <5>2, <2>8, <2>6
        <5>5. QED  BY <5>3, <5>4
      <4>2. \A u1, u2 \in Weapons : r.slot[u1] = r.slot[u2] /\ r.slot[u1] # -1 => u1 = u2
        BY <4>0, <2>8 DEF Slotted
      <4>3. ASSUME NEW u \in Weapons, r.slot[u] # -1
            PROVE  u \in r.used /\ (r.ped.on[OutfitSlot(r.slot[u])] = u \/ u \in cast)
        <5>1. u # w /\ r.slot[u] = o.slot[u] /\ o.slot[u] # -1  BY <4>3, <2>8
        <5>2. o.slot[u] \in OutfitSlots /\ o.slot[u] # m  BY <5>1, <1>1, <1>3, <2>1, <4>0 DEF Slotted
        <5>3. r.ped.on[OutfitSlot(o.slot[u])] = o.ped.on[OutfitSlot(o.slot[u])]
          BY <5>2, <2>1, <2>8, SlotsApart
        <5>4. u \in o.used /\ (o.ped.on[OutfitSlot(o.slot[u])] = u \/ u \in cast)
          BY <5>1, <4>0 DEF Slotted
        <5>5. QED  BY <5>1, <5>3, <5>4, <2>6
      <4>4. QED  BY <4>1, <4>2, <4>3 DEF Slotted
    <3>6. \A s \in ServerSlots : r.ped.on[s] = given[s]
      BY <2>1, <2>8, <2>9, SlotsApart DEF Wears
    <3>7. QED  BY <3>4, <3>5, <3>6 DEF Wears
  <2>10. QED  BY <2>4, <2>6, <2>7, <2>8, <2>9 DEF r
<1>4. QED  BY <1>2, <1>3

(* The whole outfit is taken off, in whatever order. *)
TakenOff(o) == FoldSet(LAMBDA w, q : OnWeaponRemoved(q, w), o, Weapons)

LEMMA TakenOffIs ==
    ASSUME NEW o \in OutfitType
    PROVE  /\ TakenOff(o) \in OutfitType /\ Elsewhere(TakenOff(o).ped) = Elsewhere(o.ped)
           /\ \A w \in Weapons : TakenOff(o).slot[w] = -1
           /\ \A parsed, cast, given : Wears(o, parsed, cast, given) => Wears(TakenOff(o), parsed, cast, given)
<1> DEFINE Table(iter) ==
             iter = [s \in SUBSET Weapons |->
                       IF s = {} THEN o ELSE OnWeaponRemoved(iter[s \ {Picked(s)}], Picked(s))]
           table == CHOOSE iter : Table(iter)
<1>0. IsFiniteSet(Weapons)  BY AttachmentsAssumption
<1>1. TakenOff(o) = table[Weapons]
  BY DEF TakenOff, FoldSet, MapThenFoldSet, Picked
<1>2. Table(table)
  <2> DEFINE op == [p \in Weapons \X OutfitType |-> OnWeaponRemoved(p[2], p[1])]
  <2>1. op \in [Weapons \X OutfitType -> OutfitType]  BY RemoveKeeps
  <2>2. PICK g \in [SUBSET Weapons -> OutfitType] : Folds(g, Weapons, o, op)
    <3> HIDE DEF op
    <3> QED  BY <1>0, <2>1, FoldExists
  <2>3. Table(g)
    <3>1. ASSUME NEW s \in SUBSET Weapons, s # {}
          PROVE  op[<<Picked(s), g[s \ {Picked(s)}]>>] = OnWeaponRemoved(g[s \ {Picked(s)}], Picked(s))
      <4>1. Picked(s) \in Weapons /\ s \ {Picked(s)} \in SUBSET Weapons  BY <3>1 DEF Picked
      <4>2. g[s \ {Picked(s)}] \in OutfitType  BY <4>1
      <4>3. QED  BY <4>1, <4>2
    <3> HIDE DEF op
    <3>2. QED  BY <2>2, <3>1 DEF Folds
  <2> HIDE DEF Table
  <2>4. QED  BY <2>3
<1> DEFINE Suits(q, s) ==
             /\ q \in OutfitType /\ Elsewhere(q.ped) = Elsewhere(o.ped)
             /\ \A w \in s : q.slot[w] = -1
             /\ \A parsed, cast, given : Wears(o, parsed, cast, given) => Wears(q, parsed, cast, given)
           T == {s \in SUBSET Weapons : Suits(table[s], s)}
<1> HIDE DEF table
<1>3. {} \in T  BY <1>2
<1>4. ASSUME NEW s \in SUBSET Weapons, s # {}, \A r \in SUBSET s : r # s => r \in T
      PROVE  s \in T
  <2>1. PICK x, q : x \in s /\ x = Picked(s) /\ q = table[s \ {x}] /\ s \ {x} \in T  BY <1>4 DEF Picked
  <2>2. table[s] = OnWeaponRemoved(q, x)  BY <1>2, <1>4, <2>1
  <2>3. Suits(q, s \ {x}) /\ x \in Weapons  BY <2>1
  <2>4. PICK z : z = OnWeaponRemoved(q, x)  OBVIOUS
  <2>5. /\ z \in OutfitType /\ Elsewhere(z.ped) = Elsewhere(o.ped)
        /\ \A u \in Weapons : z.slot[u] = IF u = x THEN -1 ELSE q.slot[u]
        /\ \A parsed, cast, given : Wears(o, parsed, cast, given) => Wears(z, parsed, cast, given)
    BY <2>3, <2>4, RemoveKeeps
  <2>6. Suits(z, s)  BY <1>4, <2>1, <2>3, <2>5
  <2> HIDE DEF Suits
  <2>7. QED  BY <2>2, <2>4, <2>6
<1>5. Weapons \in T
  <2> HIDE DEF T
  <2>1. SUBSET Weapons \subseteq T  BY <1>0, <1>3, <1>4, Subsets
  <2>2. QED  BY <2>1
<1>6. QED  BY <1>1, <1>5

(* Every weapon that was added or removed is gone through once. *)
LEMMA PassesAre ==
    ASSUME NEW o \in OutfitType, OnBack \in SUBSET Weapons, NEW r \in Passes(o)
    PROVE  /\ r \in OutfitType /\ Elsewhere(r.ped) = Elsewhere(o.ped)
           /\ r.used = OnBack
           /\ \A cast, given : Wears(o, TRUE, cast, given) => Wears(r, TRUE, cast, given)
<1> DEFINE added == OnBack \ o.used
           removed == o.used \ OnBack
           D == added \cup removed
           n == Cardinality(D)
           Go(w, q) == IF w \in added THEN OnWeaponAdded(q, w) ELSE OnWeaponRemoved(q, w)
<1>2. o.used \in SUBSET Weapons /\ D \in SUBSET Weapons /\ IsFiniteSet(D) /\ n \in Nat
  <2>1. o.used \in SUBSET Weapons  BY DEF OutfitType
  <2>2. QED  BY <2>1, AttachmentsAssumption, FS_Subset, FS_CardinalityType
<1>3. PICK f \in [1 .. n -> D] : IsInjective(f) /\ r = FoldFunction(Go, o, f)
  BY DEF Passes
<1>4. \A w \in D : \E i \in 1 .. n : f[i] = w
  <2>1. f \in Injection(1 .. n, D)  BY <1>3 DEF Injection
  <2>2. Cardinality(1 .. n) = Cardinality(D)  BY <1>2, FS_Interval
  <2> HIDE DEF D, n
  <2>3. f \in Surjection(1 .. n, D)  BY <1>2, <2>1, <2>2, FS_Injection
  <2>4. QED  BY <2>3 DEF Surjection
<1>5. \A i, j \in 1 .. n : f[i] = f[j] => i = j  BY <1>3 DEF IsInjective
<1>6. \A i \in 1 .. n : f[i] \in D  BY <1>3
<1>7. DOMAIN f = 1 .. n  BY <1>3
<1>8. PICK N : N = 1 .. n /\ IsFiniteSet(N)
  <2>1. IsFiniteSet(1 .. n)  BY <1>2, FS_Interval
  <2>2. QED  BY <2>1
<1> DEFINE Table(iter) ==
             iter = [s \in SUBSET N |->
                       IF s = {} THEN o ELSE Go(f[Picked(s)], iter[s \ {Picked(s)}])]
           table == CHOOSE iter : Table(iter)
<1>9. r = table[N]
  BY <1>3, <1>7, <1>8 DEF FoldFunction, FoldFunctionOnSet, MapThenFoldSet, Picked
<1>10. \A q \in OutfitType, w \in D : Go(w, q) \in OutfitType
  BY <1>2, AddKeeps, RemoveKeeps
<1>11. Table(table)
  <2> DEFINE op == [p \in N \X OutfitType |-> Go(f[p[1]], p[2])]
  <2>1. op \in [N \X OutfitType -> OutfitType]
    <3> HIDE DEF Go, D, n
    <3> QED  BY <1>6, <1>8, <1>10
  <2>2. PICK g \in [SUBSET N -> OutfitType] : Folds(g, N, o, op)
    <3> HIDE DEF op
    <3> QED  BY <1>7, <1>8, <2>1, FoldExists
  <2>3. Table(g)
    <3>1. ASSUME NEW s \in SUBSET N, s # {}
          PROVE  op[<<Picked(s), g[s \ {Picked(s)}]>>] = Go(f[Picked(s)], g[s \ {Picked(s)}])
      <4>1. Picked(s) \in N /\ s \ {Picked(s)} \in SUBSET N  BY <3>1 DEF Picked
      <4>2. g[s \ {Picked(s)}] \in OutfitType  BY <4>1
      <4> HIDE DEF Go
      <4>3. QED  BY <4>1, <4>2
    <3> HIDE DEF op, Go
    <3>2. QED  BY <2>2, <3>1 DEF Folds
  <2> HIDE DEF Table
  <2>4. QED  BY <2>3
<1> DEFINE Seen(s) == {f[i] : i \in s}
           Suits(q, s) ==
             /\ q \in OutfitType /\ Elsewhere(q.ped) = Elsewhere(o.ped)
             /\ q.used = (o.used \cup (Seen(s) \cap added)) \ (Seen(s) \cap removed)
             /\ \A cast, given : Wears(o, TRUE, cast, given) => Wears(q, TRUE, cast, given)
           T == {s \in SUBSET N : Suits(table[s], s)}
<1> HIDE DEF table
<1>12. {} \in T  BY <1>11
<1>13. ASSUME NEW s \in SUBSET N, s # {}, \A t \in SUBSET s : t # s => t \in T
       PROVE  s \in T
  <2>1. PICK x, q : x \in s /\ x = Picked(s) /\ q = table[s \ {x}] /\ s \ {x} \in T  BY <1>13 DEF Picked
  <2>2. table[s] = Go(f[x], q)
    <3> HIDE DEF Go
    <3> QED  BY <1>11, <1>13, <2>1
  <2>3. Suits(q, s \ {x}) /\ x \in N  BY <2>1
  <2>4. PICK w \in D : w = f[x]  BY <1>6, <1>8, <2>3
  <2>5. PICK before : before = Seen(s \ {x})  OBVIOUS
  <2>6. Seen(s) = before \cup {w} /\ w \notin before
    <3>1. \A i \in s \ {x} : f[i] # w  BY <1>5, <1>8, <2>3, <2>4
    <3>2. QED  BY <2>1, <2>4, <2>5, <3>1
  <2>7. /\ q \in OutfitType /\ Elsewhere(q.ped) = Elsewhere(o.ped) /\ w \in Weapons
        /\ q.used = (o.used \cup (before \cap added)) \ (before \cap removed)
        /\ \A cast, given : Wears(o, TRUE, cast, given) => Wears(q, TRUE, cast, given)
    BY <1>2, <2>3, <2>4, <2>5
  <2>8. PICK z : z = Go(w, q)  OBVIOUS
  <2>9. CASE w \in added
    <3>1. z = OnWeaponAdded(q, w) /\ w \notin q.used  BY <2>6, <2>7, <2>8, <2>9
    <3>2. z \in OutfitType /\ Elsewhere(z.ped) = Elsewhere(o.ped) /\ z.used = q.used \cup {w}
      BY <2>7, <3>1, AddKeeps
    <3>3. \A cast, given : Wears(o, TRUE, cast, given) => Wears(z, TRUE, cast, given)
      BY <2>7, <3>1, AddKeeps
    <3>4. z.used = (o.used \cup ((before \cup {w}) \cap added)) \ ((before \cup {w}) \cap removed)
      BY <2>7, <2>9, <3>2
    <3>5. Suits(z, s)  BY <2>6, <3>2, <3>3, <3>4
    <3> HIDE DEF Suits, Go
    <3>6. QED  BY <2>2, <2>4, <2>8, <3>5
  <2>10. CASE w \notin added
    <3>1. z = OnWeaponRemoved(q, w) /\ w \in removed  BY <2>4, <2>8, <2>10
    <3>2. z \in OutfitType /\ Elsewhere(z.ped) = Elsewhere(o.ped) /\ z.used = q.used \ {w}
      BY <2>7, <3>1, RemoveKeeps
    <3>3. \A cast, given : Wears(o, TRUE, cast, given) => Wears(z, TRUE, cast, given)
      BY <2>7, <3>1, RemoveKeeps
    <3>4. z.used = (o.used \cup ((before \cup {w}) \cap added)) \ ((before \cup {w}) \cap removed)
      BY <2>7, <3>1, <3>2
    <3>5. Suits(z, s)  BY <2>6, <3>2, <3>3, <3>4
    <3> HIDE DEF Suits, Go
    <3>6. QED  BY <2>2, <2>4, <2>8, <3>5
  <2>11. QED  BY <2>9, <2>10
<1>14. N \in T
  <2>1. PICK K : K = T  OBVIOUS
  <2> HIDE DEF T
  <2>2. {} \in K /\ \A s \in SUBSET N : s # {} /\ (\A t \in SUBSET s : t # s => t \in K) => s \in K
    BY <1>12, <1>13, <2>1
  <2>3. IsFiniteSet(N)  BY <1>8
  <2>4. SUBSET N \subseteq K  BY <2>2, <2>3, Subsets, Zenon
  <2>5. QED  BY <2>1, <2>4
<1>15. Seen(N) = D  BY <1>4, <1>6, <1>8
<1>16. r.used = OnBack
  <2>1. r.used = (o.used \cup (D \cap added)) \ (D \cap removed)  BY <1>9, <1>14, <1>15
  <2>2. QED  BY <2>1
<1>17. QED  BY <1>9, <1>14, <1>16

(* What hangs on all peds, and on all but p. *)
Hung(m) == {h \in Peds \X AttachSlots : m[h[1]] # Nothing /\ m[h[1]][h[2]] # Nothing}
HungOff(m, p) == {h \in Hung(m) : h[1] # p}

LEMMA HungFinite ==
    \A m, p : /\ IsFiniteSet(Hung(m)) /\ Cardinality(Hung(m)) \in Nat
              /\ IsFiniteSet(HungOff(m, p)) /\ Cardinality(HungOff(m, p)) \in Nat
<1>1. IsFiniteSet(Peds)
  BY AttachmentsAssumption, FS_AddElement, {Me} \cup Others = Others \cup {Me} DEF Peds
<1>2. IsFiniteSet(Peds \X AttachSlots)  BY <1>1, SlotsFinite, FS_Product
<1>3. QED  BY <1>2, FS_Subset, FS_CardinalityType DEF Hung, HungOff

LEMMA HungApart ==
    ASSUME NEW m, NEW p \in Peds, m[p] # Nothing
    PROVE  Cardinality(Hung(m)) = Cardinality(HungOff(m, p)) + Cardinality(Hanging(m[p]))
<1> DEFINE his == {h \in Hung(m) : h[1] = p}
<1>1. IsFiniteSet(his) /\ Cardinality(his) = Cardinality(Hanging(m[p]))
  <2> DEFINE f == [s \in Hanging(m[p]) |-> <<p, s>>]
  <2>1. f \in Bijection(Hanging(m[p]), his)
    <3>1. \A s \in Hanging(m[p]) : f[s] \in his  BY DEF Hanging, Hung
    <3>2. \A h \in his : \E s \in Hanging(m[p]) : f[s] = h  BY DEF Hanging, Hung
    <3>3. \A a, b \in Hanging(m[p]) : f[a] = f[b] => a = b  OBVIOUS
    <3>4. f \in [Hanging(m[p]) -> his]  BY <3>1
    <3>5. DOMAIN f = Hanging(m[p])  OBVIOUS
    <3> HIDE DEF f, his
    <3>6. QED  BY <3>2, <3>3, <3>4, <3>5 DEF Bijection, Injection, Surjection, IsInjective
  <2> HIDE DEF f, his
  <2>2. QED  BY <2>1, SlotsFinite, FS_Bijection DEF ExistsBijection
<1>2. Hung(m) = HungOff(m, p) \cup his /\ HungOff(m, p) \cap his = {}  BY DEF HungOff
<1> HIDE DEF his
<1>3. PICK a, b : a = HungOff(m, p) /\ b = his /\ IsFiniteSet(a)  BY HungFinite
<1>4. Cardinality(a \cup b) = Cardinality(a) + Cardinality(b) - Cardinality(a \cap b)
  BY <1>1, <1>3, FS_Union
<1>5. Cardinality(a \cap b) = 0  BY <1>2, <1>3, FS_EmptySet
<1>6. Cardinality(a) \in Nat /\ Cardinality(b) \in Nat  BY <1>1, <1>3, FS_CardinalityType
<1>7. QED  BY <1>1, <1>2, <1>3, <1>4, <1>5, <1>6

CarryTypeOK ==
    /\ m_aAttachedObjects \in [Peds -> OnType \cup {Nothing}] /\ m_aAttachedObjects[Me] \in OnType
    /\ objects \in Int
    /\ m_bUsedWeapon \in SUBSET Weapons /\ m_bUsedSlots \in SUBSET OutfitSlots
    /\ m_iSlots \in [Weapons -> OutfitSlots \cup {-1}]
    /\ arms \in SUBSET Weapons
    /\ attached \in [Peds -> [ServerSlots -> Shapes \cup {Nothing}]]

CarryInv ==
    /\ CarryTypeOK
    /\ Wears(Outfit, m_bParsed, flushed, attached[Me])
    /\ fresh => m_bEnabled /\ m_bParsed /\ m_bUsedWeapon = OnBack
    /\ AsOrdered
    /\ objects = Cardinality(Hung(m_aAttachedObjects))

LEMMA OnIsAMap == Nothing \notin OnType /\ Bare \in OnType
  BY AttachmentsAssumption DEF OnType, Things, Bare

LEMMA CarryStart == AttachInit => CarryInv
<1> SUFFICES ASSUME AttachInit PROVE CarryInv  OBVIOUS
<1>0. Me \notin Others /\ Me \in Peds /\ OutfitSlots \subseteq Nat /\ 0 \in OutfitSlots
  BY AttachmentsAssumption DEF Peds
<1>1. CarryTypeOK
  BY <1>0, OnIsAMap DEF AttachInit, CarryTypeOK, NoOrders
<1>2. m_aAttachedObjects[Me] = Bare /\ \A p \in Peds : m_aAttachedObjects[p] \in {Bare, Nothing}
  BY <1>0 DEF AttachInit
<1>3. Wears(Outfit, m_bParsed, flushed, attached[Me])
  BY <1>0, <1>2, SlotsApart DEF AttachInit, Wears, Hangs, Slotted, Outfit, On, Bare, NoOrders
<1>4. AsOrdered
  BY <1>2, SlotsApart DEF AttachInit, AsOrdered, Bare, NoOrders
<1>5. Hung(m_aAttachedObjects) = {}  BY <1>2 DEF Hung, Bare
<1>6. QED  BY <1>1, <1>3, <1>4, <1>5, FS_EmptySet DEF AttachInit, CarryInv

(* Another ped's objects stay when one ped's come and go. *)
LEMMA OnePed ==
    ASSUME NEW m, NEW p \in Peds, NEW on \in OnType \cup {Nothing}, NEW n \in Int,
           m \in [Peds -> OnType \cup {Nothing}],
           n = Cardinality(HungOff(m, p)) + (IF on = Nothing THEN 0 ELSE Cardinality(Hanging(on)))
    PROVE  n = Cardinality(Hung([m EXCEPT ![p] = on]))
<1> DEFINE m2 == [m EXCEPT ![p] = on]
<1>1. m2[p] = on /\ \A q \in Peds : q # p => m2[q] = m[q]  OBVIOUS
<1> HIDE DEF m2
<1>2. HungOff(m2, p) = HungOff(m, p)  BY <1>1 DEF HungOff, Hung
<1>3. CASE on # Nothing
  <2>1. Cardinality(Hung(m2)) = Cardinality(HungOff(m2, p)) + Cardinality(Hanging(m2[p]))
    BY <1>1, <1>3, HungApart
  <2>2. QED  BY <1>1, <1>2, <1>3, <2>1 DEF m2
<1>4. CASE on = Nothing
  <2>1. Hung(m2) = HungOff(m2, p)  BY <1>1, <1>4 DEF Hung, HungOff
  <2>2. QED  BY <1>2, <1>4, <2>1, HungFinite DEF m2
<1>5. QED  BY <1>3, <1>4

(* An object is put on a ped or taken off, and the number of objects with  *)
(* it; the other peds are left alone.                                      *)
LEMMA SetOnKeeps ==
    ASSUME CarryInv, NEW p \in Peds, m_aAttachedObjects[p] # Nothing,
           NEW on \in OnType \cup {Nothing}, p = Me => on # Nothing, NEW n \in Int,
           NEW r \in PedType, Elsewhere(r) = Elsewhere(On(p)), n = r.objects,
           on = r.on \/ (on = Nothing /\ r.on = Bare),
           SetOn(p, [on |-> on, objects |-> n])
    PROVE  /\ m_aAttachedObjects' \in [Peds -> OnType \cup {Nothing}] /\ m_aAttachedObjects'[Me] \in OnType
           /\ objects' \in Int /\ objects' = Cardinality(Hung(m_aAttachedObjects'))
           /\ m_aAttachedObjects'[p] = on
           /\ \A q \in Peds : q # p => m_aAttachedObjects'[q] = m_aAttachedObjects[q]
<1>1. PICK m : m = m_aAttachedObjects  OBVIOUS
<1>2. m \in [Peds -> OnType \cup {Nothing}] /\ m[Me] \in OnType /\ m[p] \in OnType
  BY <1>1 DEF CarryInv, CarryTypeOK
<1>3. m_aAttachedObjects' = [m EXCEPT ![p] = on] /\ objects' = n  BY <1>1 DEF SetOn
<1>4. Elsewhere(On(p)) = Cardinality(HungOff(m, p))
  <2>1. Elsewhere(On(p)) = objects - Cardinality(Hanging(m[p]))  BY <1>1 DEF Elsewhere, On
  <2>2. objects = Cardinality(Hung(m))  BY <1>1 DEF CarryInv
  <2>3. Cardinality(Hung(m)) = Cardinality(HungOff(m, p)) + Cardinality(Hanging(m[p]))
    BY <1>1, HungApart
  <2>4. QED  BY <2>1, <2>2, <2>3, HungFinite, SlotsFinite
<1>5. Cardinality(Hanging(Bare)) = 0
  <2>1. Hanging(Bare) = {}  BY DEF Hanging, Bare
  <2>2. QED  BY <2>1, FS_EmptySet
<1>6. n = Cardinality(HungOff(m, p)) + (IF on = Nothing THEN 0 ELSE Cardinality(Hanging(on)))
  <2>1. n - Cardinality(Hanging(r.on)) = Cardinality(HungOff(m, p))  BY <1>4 DEF Elsewhere
  <2>2. r.on \in OnType /\ r.on # Nothing  BY OnIsAMap DEF PedType
  <2>3. QED  BY <1>5, <2>1, <2>2, HungFinite, SlotsFinite
<1>7. n = Cardinality(Hung([m EXCEPT ![p] = on]))  BY <1>2, <1>6, OnePed
<1>8. PICK m2 : m2 = [m EXCEPT ![p] = on]  OBVIOUS
<1>9. m2 \in [Peds -> OnType \cup {Nothing}] /\ m2[p] = on /\ \A q \in Peds : q # p => m2[q] = m[q]
  BY <1>2, <1>8
<1>10. m2[Me] \in OnType
  <2>1. CASE p = Me  BY <1>9, <2>1
  <2>2. CASE p # Me  BY <1>2, <1>9, <2>2 DEF Peds
  <2>3. QED  BY <2>1, <2>2
<1>11. QED  BY <1>1, <1>3, <1>7, <1>8, <1>9, <1>10

LEMMA OnOf ==
    ASSUME CarryInv, NEW p \in Peds, m_aAttachedObjects[p] # Nothing
    PROVE  On(p) \in PedType /\ On(p).on = m_aAttachedObjects[p]
  BY DEF CarryInv, CarryTypeOK, On, PedType

LEMMA OutfitOf ==
    ASSUME CarryInv
    PROVE  Outfit \in OutfitType /\ Outfit.ped = On(Me) /\ OnBack \in SUBSET Weapons
<1>1. Me \in Peds /\ m_aAttachedObjects[Me] # Nothing
  BY OnIsAMap DEF Peds, CarryInv, CarryTypeOK
<1>2. QED  BY <1>1, OnOf DEF CarryInv, CarryTypeOK, Outfit, OutfitType, OnBack

(* The outfit is replaced by o, which wears the same. *)
LEMMA SetOutfitKeeps ==
    ASSUME CarryInv, NEW o \in OutfitType, Elsewhere(o.ped) = Elsewhere(On(Me)), SetOutfit(o),
           UNCHANGED <<arms, m_bParsed, attached>>,
           Wears(o, m_bParsed, flushed', attached[Me]),
           fresh' => m_bEnabled' /\ m_bParsed /\ o.used = OnBack', hand' = hand
    PROVE  CarryInv'
<1>1. PICK r : r = o.ped /\ r \in PedType  BY DEF OutfitType
<1>2. r = [on |-> r.on, objects |-> r.objects] /\ r.on \in OnType /\ r.objects \in Int
  BY <1>1 DEF PedType
<1>3. Me \in Peds /\ m_aAttachedObjects[Me] # Nothing /\ r.on # Nothing
  BY <1>2, OnIsAMap DEF Peds, CarryInv, CarryTypeOK
<1>4. SetOn(Me, [on |-> r.on, objects |-> r.objects])  BY <1>1, <1>2 DEF SetOutfit
<1>5. /\ m_aAttachedObjects' \in [Peds -> OnType \cup {Nothing}] /\ m_aAttachedObjects'[Me] \in OnType
      /\ objects' \in Int /\ objects' = Cardinality(Hung(m_aAttachedObjects'))
      /\ m_aAttachedObjects'[Me] = r.on
      /\ \A q \in Peds : q # Me => m_aAttachedObjects'[q] = m_aAttachedObjects[q]
  BY <1>1, <1>2, <1>3, <1>4, SetOnKeeps
<1>6. m_bUsedWeapon' = o.used /\ m_iSlots' = o.slot /\ m_bUsedSlots' = o.slots /\ objects' = r.objects
  BY <1>1 DEF SetOutfit, SetOn
<1>7. Outfit' = o
  <2>1. o = [ped |-> r, used |-> o.used, slot |-> o.slot, slots |-> o.slots]  BY <1>1 DEF OutfitType
  <2>2. On(Me)' = r  BY <1>2, <1>5, <1>6 DEF On
  <2>3. QED  BY <1>6, <2>1, <2>2 DEF Outfit
<1>8. CarryTypeOK'  BY <1>5, <1>6 DEF OutfitType, CarryInv, CarryTypeOK
<1>9. AsOrdered'
  <2>1. \A s \in ServerSlots : r.on[s] = attached[Me][s]  BY <1>1 DEF Wears
  <2>2. ASSUME NEW p \in Peds, NEW s \in ServerSlots
        PROVE  IF m_aAttachedObjects'[p] = Nothing THEN attached[p][s] = Nothing
               ELSE m_aAttachedObjects'[p][s] = attached[p][s]
    BY <1>3, <1>5, <2>1 DEF CarryInv, AsOrdered
  <2>3. QED  BY <2>2 DEF AsOrdered
<1>10. Wears(Outfit', m_bParsed', flushed', attached'[Me])  BY <1>7
<1>11. (fresh => m_bEnabled /\ m_bParsed /\ m_bUsedWeapon = OnBack)'  BY <1>6 DEF OnBack
<1>12. QED  BY <1>5, <1>8, <1>9, <1>10, <1>11 DEF CarryInv

LEMMA OutfitProcessed == CarryInv /\ ProcessLocalPlayer => CarryInv'
<1> SUFFICES ASSUME CarryInv, ProcessLocalPlayer PROVE CarryInv'  OBVIOUS
<1>1. UNCHANGED <<m_bEnabled, m_bParsed, arms, hand, spawned, attached>>  BY DEF ProcessLocalPlayer
<1>2. PICK o : o = Outfit  OBVIOUS
<1>3. o \in OutfitType /\ o.ped = On(Me) /\ OnBack \in SUBSET Weapons /\ o.used = m_bUsedWeapon
  BY <1>2, OutfitOf DEF Outfit
<1>4. PICK parsed, cast, given : parsed = m_bParsed /\ cast = flushed /\ given = attached[Me]  OBVIOUS
<1>5. Wears(o, parsed, cast, given)  BY <1>2, <1>4 DEF CarryInv
<1>6. CASE /\ ~m_bEnabled \/ ~m_bParsed
           /\ SetOutfit(TakenOff(Outfit)) /\ flushed' = {} /\ fresh' = fresh
  <2>1. PICK r : r = TakenOff(o)  OBVIOUS
  <2>2. /\ r \in OutfitType /\ Elsewhere(r.ped) = Elsewhere(o.ped)
        /\ \A w \in Weapons : r.slot[w] = -1
        /\ Wears(r, parsed, cast, given)
    BY <1>3, <1>5, <2>1, TakenOffIs
  <2>3. Wears(r, parsed, {}, given)  BY <2>2 DEF Wears, Slotted
  <2>4. ~fresh  BY <1>6 DEF CarryInv
  <2>5. SetOutfit(r)  BY <1>2, <1>6, <2>1
  <2>6. QED  BY <1>1, <1>3, <1>4, <1>6, <2>2, <2>3, <2>4, <2>5, SetOutfitKeeps
<1>7. CASE /\ m_bEnabled /\ m_bParsed
           /\ UNCHANGED <<m_aAttachedObjects, objects, outfitVars, fresh, flushed>>
  BY <1>1, <1>7
  DEF outfitVars, CarryInv, CarryTypeOK, AsOrdered, Outfit, On, OnBack
<1>8. CASE /\ m_bEnabled /\ m_bParsed
           /\ \E r \in Passes(Outfit) : SetOutfit(r)
           /\ fresh' = TRUE /\ flushed' = flushed \cap m_bUsedWeapon'
  <2>1. PICK r \in Passes(o) : SetOutfit(r)  BY <1>2, <1>8
  <2>2. /\ r \in OutfitType /\ Elsewhere(r.ped) = Elsewhere(o.ped)
        /\ r.used = OnBack /\ Wears(r, TRUE, cast, given)
    BY <1>3, <1>4, <1>5, <1>8, <2>1, PassesAre
  <2>3. flushed' = cast \cap r.used  BY <1>4, <1>8, <2>1 DEF SetOutfit
  <2>4. Wears(r, TRUE, cast \cap r.used, given)  BY <2>2 DEF Wears, Slotted
  <2>5. r.used = OnBack'  BY <1>1, <2>2 DEF OnBack
  <2>6. Wears(r, m_bParsed, flushed', attached[Me])  BY <1>4, <1>8, <2>3, <2>4 DEF Wears
  <2>7. QED  BY <1>1, <1>3, <1>8, <2>1, <2>2, <2>5, <2>6, SetOutfitKeeps
<1>9. QED  BY <1>6, <1>7, <1>8 DEF ProcessLocalPlayer, TakenOff

LEMMA OrderKept ==
    ASSUME NEW p \in Peds, NEW s \in ServerSlots, NEW thing \in Shapes \cup {Nothing},
           CarryInv, ScrSetPlayerAttachedObject(p, s, thing)
    PROVE  CarryInv'
<1>1. m_aAttachedObjects[p] # Nothing /\ On(p) \in PedType /\ On(p).on = m_aAttachedObjects[p]
  BY OnOf DEF ScrSetPlayerAttachedObject
<1>2. PICK v : v = On(p)  OBVIOUS
<1>3. PICK r : r = IF thing = Nothing THEN DeattachObject(v, s) ELSE AttachObject(v, s, thing)  OBVIOUS
<1>4. r \in PedType /\ r.on = [v.on EXCEPT ![s] = thing] /\ Elsewhere(r) = Elsewhere(v)
  BY <1>1, <1>2, <1>3, DeattachIs, AttachIs, SlotsApart
<1>5. r = [on |-> r.on, objects |-> r.objects] /\ r.on \in OnType /\ r.objects \in Int /\ r.on # Nothing
  BY <1>4, OnIsAMap DEF PedType
<1>6. SetOn(p, [on |-> r.on, objects |-> r.objects])
  BY <1>2, <1>3, <1>5 DEF ScrSetPlayerAttachedObject
<1>7. /\ m_aAttachedObjects' \in [Peds -> OnType \cup {Nothing}] /\ m_aAttachedObjects'[Me] \in OnType
      /\ objects' \in Int /\ objects' = Cardinality(Hung(m_aAttachedObjects'))
      /\ m_aAttachedObjects'[p] = r.on
      /\ \A q \in Peds : q # p => m_aAttachedObjects'[q] = m_aAttachedObjects[q]
  BY <1>1, <1>2, <1>4, <1>5, <1>6, SetOnKeeps
<1>8. /\ attached' = [attached EXCEPT ![p][s] = thing]
      /\ UNCHANGED <<outfitVars, m_bEnabled, m_bParsed, m_bUpdated, arms, hand, spawned, fresh, flushed>>
  BY DEF ScrSetPlayerAttachedObject
<1>9. attached \in [Peds -> [ServerSlots -> Shapes \cup {Nothing}]]  BY DEF CarryInv, CarryTypeOK
<1>10. PICK a : a = attached'  OBVIOUS
<1>11. /\ a \in [Peds -> [ServerSlots -> Shapes \cup {Nothing}]]
       /\ a[p] = [attached[p] EXCEPT ![s] = thing]
       /\ \A q \in Peds : q # p => a[q] = attached[q]
  BY <1>8, <1>9, <1>10
<1>12. \A t \in AttachSlots : m_aAttachedObjects'[p][t] = IF t = s THEN thing ELSE m_aAttachedObjects[p][t]
  BY <1>1, <1>2, <1>4, <1>7 DEF PedType, OnType
<1>13. \A t \in ServerSlots : a[p][t] = IF t = s THEN thing ELSE attached[p][t]
  BY <1>9, <1>11
<1>14. CarryTypeOK'  BY <1>7, <1>8, <1>10, <1>11 DEF outfitVars, CarryInv, CarryTypeOK
<1>15. AsOrdered'
  <2>1. SUFFICES ASSUME NEW q \in Peds, NEW t \in ServerSlots
                 PROVE  IF m_aAttachedObjects'[q] = Nothing THEN a[q][t] = Nothing
                        ELSE m_aAttachedObjects'[q][t] = a[q][t]
    BY <1>10 DEF AsOrdered
  <2>2. CASE q = p  BY <2>2, <1>1, <1>5, <1>7, <1>12, <1>13, SlotsApart DEF CarryInv, AsOrdered
  <2>3. CASE q # p  BY <2>3, <1>7, <1>11 DEF CarryInv, AsOrdered
  <2>4. QED  BY <2>2, <2>3
<1>16. (Wears(Outfit, m_bParsed, flushed, attached[Me]))'
  <2>1. PICK o, o2 : o = Outfit /\ o2 = Outfit'  OBVIOUS
  <2>2. /\ o.slot = o2.slot /\ o.used = o2.used /\ o.slots = o2.slots
        /\ o.ped.on = m_aAttachedObjects[Me] /\ o2.ped.on = m_aAttachedObjects'[Me]
    BY <1>8, <2>1 DEF outfitVars, Outfit, On
  <2>3. \A t \in OutfitSlots : o2.ped.on[OutfitSlot(t)] = o.ped.on[OutfitSlot(t)]
    BY <2>2, <1>7, <1>12, SlotsApart DEF Peds
  <2>4. \A t \in ServerSlots : o2.ped.on[t] = a[Me][t]
    <3>1. CASE p = Me
      BY <3>1, <2>1, <2>2, <1>12, <1>13, SlotsApart DEF CarryInv, Wears
    <3>2. CASE p # Me
      BY <3>2, <2>1, <2>2, <1>7, <1>11 DEF CarryInv, Wears, Peds
    <3>3. QED  BY <3>1, <3>2
  <2>5. PICK parsed, cast, given : parsed = m_bParsed /\ cast = flushed /\ given = attached[Me]  OBVIOUS
  <2>6. Wears(o, parsed, cast, given) /\ o.slot \in [Weapons -> OutfitSlots \cup {-1}]
    BY <2>1, <2>5 DEF CarryInv, CarryTypeOK, Outfit
  <2>7. Hangs(o2, parsed)  BY <2>2, <2>3, <2>6 DEF Wears, Hangs
  <2>8. parsed => Slotted(o2, cast)
    <3> SUFFICES ASSUME parsed PROVE Slotted(o2, cast)  OBVIOUS
    <3>1. Slotted(o, cast)  BY <2>6 DEF Wears
    <3>2. \A w \in Weapons : o.slot[w] # -1 => o2.ped.on[OutfitSlot(o.slot[w])] = o.ped.on[OutfitSlot(o.slot[w])]
      BY <2>3, <2>6
    <3>3. QED  BY <2>2, <3>1, <3>2 DEF Slotted
  <2>9. Wears(o2, parsed, cast, a[Me])  BY <2>4, <2>7, <2>8 DEF Wears
  <2>10. QED  BY <1>8, <1>10, <2>1, <2>5, <2>9 DEF outfitVars
<1>17. (fresh => m_bEnabled /\ m_bParsed /\ m_bUsedWeapon = OnBack)'
  BY <1>8 DEF outfitVars, OnBack, CarryInv
<1>18. QED  BY <1>7, <1>14, <1>15, <1>16, <1>17 DEF CarryInv

(* The player who dies loses all that hangs on him, and the outfit's       *)
(* weapons stay in their slots.                                            *)
LEMMA DeathKept == CarryInv /\ DieFlushed => CarryInv'
<1> SUFFICES ASSUME CarryInv, DieFlushed PROVE CarryInv'  OBVIOUS
<1>1. /\ SetOn(Me, FlushAttach(On(Me)))
      /\ flushed' = {w \in Weapons : m_iSlots[w] # -1}
      /\ attached' = [attached EXCEPT ![Me] = NoOrders]
      /\ UNCHANGED <<outfitVars, m_bEnabled, m_bParsed, m_bUpdated, arms, hand, fresh>>
  BY DEF DieFlushed
<1>2. Me \in Peds /\ m_aAttachedObjects[Me] # Nothing
  BY OnIsAMap DEF Peds, CarryInv, CarryTypeOK
<1>3. PICK v : v = On(Me) /\ v \in PedType  BY <1>2, OnOf
<1>4. PICK r : r = FlushAttach(v)  OBVIOUS
<1>5. r \in PedType /\ r.on = Bare /\ Elsewhere(r) = Elsewhere(v)  BY <1>3, <1>4, FlushIs
<1>6. r = [on |-> r.on, objects |-> r.objects] /\ r.on \in OnType /\ r.objects \in Int /\ r.on # Nothing
  BY <1>5, OnIsAMap DEF PedType
<1>7. SetOn(Me, [on |-> r.on, objects |-> r.objects])  BY <1>1, <1>3, <1>4, <1>6
<1>8. /\ m_aAttachedObjects' \in [Peds -> OnType \cup {Nothing}] /\ m_aAttachedObjects'[Me] \in OnType
      /\ objects' \in Int /\ objects' = Cardinality(Hung(m_aAttachedObjects'))
      /\ m_aAttachedObjects'[Me] = r.on
      /\ \A q \in Peds : q # Me => m_aAttachedObjects'[q] = m_aAttachedObjects[q]
  BY <1>2, <1>3, <1>5, <1>6, <1>7, SetOnKeeps
<1>9. /\ attached' \in [Peds -> [ServerSlots -> Shapes \cup {Nothing}]] /\ attached'[Me] = NoOrders
      /\ \A q \in Peds : q # Me => attached'[q] = attached[q]
  BY <1>1, <1>2 DEF CarryInv, CarryTypeOK, NoOrders
<1>10. CarryTypeOK'  BY <1>1, <1>8, <1>9 DEF outfitVars, CarryInv, CarryTypeOK
<1>11. \A s \in AttachSlots : m_aAttachedObjects'[Me][s] = Nothing  BY <1>5, <1>8 DEF Bare
<1>12. AsOrdered'
  <2>1. SUFFICES ASSUME NEW q \in Peds, NEW t \in ServerSlots
                 PROVE  IF m_aAttachedObjects'[q] = Nothing THEN attached'[q][t] = Nothing
                        ELSE m_aAttachedObjects'[q][t] = attached'[q][t]
    BY DEF AsOrdered
  <2>2. CASE q = Me  BY <2>2, <1>9, <1>11, SlotsApart DEF NoOrders
  <2>3. CASE q # Me  BY <2>3, <1>8, <1>9 DEF CarryInv, AsOrdered
  <2>4. QED  BY <2>2, <2>3
<1>13. (Wears(Outfit, m_bParsed, flushed, attached[Me]))'
  <2>1. PICK o, o2 : o = Outfit /\ o2 = Outfit'  OBVIOUS
  <2>2. /\ o2.slot = o.slot /\ o2.used = o.used /\ o2.slots = o.slots /\ o.slot = m_iSlots
        /\ o2.ped.on = m_aAttachedObjects'[Me]
    BY <1>1, <2>1 DEF outfitVars, Outfit, On
  <2>3. PICK parsed, cast, dropped : parsed = m_bParsed /\ cast = flushed /\ dropped = flushed'  OBVIOUS
  <2>4. Hangs(o2, parsed)  BY <2>2, <1>11, SlotsApart DEF Hangs
  <2>5. parsed => Slotted(o2, dropped)
    <3> SUFFICES ASSUME parsed PROVE Slotted(o2, dropped)  OBVIOUS
    <3>1. Slotted(o, cast)  BY <2>1, <2>3 DEF CarryInv, Wears
    <3>2. QED  BY <1>1, <2>2, <2>3, <3>1 DEF Slotted
  <2>6. \A s \in ServerSlots : o2.ped.on[s] = NoOrders[s]
    BY <2>2, <1>11, SlotsApart DEF NoOrders
  <2>7. Wears(o2, parsed, dropped, NoOrders)  BY <2>4, <2>5, <2>6 DEF Wears
  <2>8. QED  BY <1>1, <1>9, <2>1, <2>3, <2>7
<1>14. (fresh => m_bEnabled /\ m_bParsed /\ m_bUsedWeapon = OnBack)'
  BY <1>1 DEF outfitVars, OnBack, CarryInv
<1>15. QED  BY <1>8, <1>10, <1>12, <1>13, <1>14 DEF CarryInv

LEMMA PedGoneKept ==
    ASSUME NEW p \in Others, CarryInv, DestroyPed(p)
    PROVE  CarryInv'
<1>0. p \in Peds /\ p # Me /\ Me \in Peds  BY AttachmentsAssumption DEF Peds
<1>1. /\ m_aAttachedObjects[p] # Nothing
      /\ SetOn(p, [FlushAttach(On(p)) EXCEPT !.on = Nothing])
      /\ attached' = [attached EXCEPT ![p] = NoOrders]
      /\ UNCHANGED <<outfitVars, m_bEnabled, m_bParsed, m_bUpdated, arms, hand, fresh, flushed>>
  BY DEF DestroyPed
<1>3. PICK v : v = On(p) /\ v \in PedType  BY <1>0, <1>1, OnOf
<1>4. PICK r : r = FlushAttach(v)  OBVIOUS
<1>5. r \in PedType /\ r.on = Bare /\ Elsewhere(r) = Elsewhere(v)  BY <1>3, <1>4, FlushIs
<1>6. [r EXCEPT !.on = Nothing] = [on |-> Nothing, objects |-> r.objects] /\ r.objects \in Int
  BY <1>5 DEF PedType
<1>7. SetOn(p, [on |-> Nothing, objects |-> r.objects])  BY <1>1, <1>3, <1>4, <1>6
<1>8. /\ m_aAttachedObjects' \in [Peds -> OnType \cup {Nothing}] /\ m_aAttachedObjects'[Me] \in OnType
      /\ objects' \in Int /\ objects' = Cardinality(Hung(m_aAttachedObjects'))
      /\ m_aAttachedObjects'[p] = Nothing
      /\ \A q \in Peds : q # p => m_aAttachedObjects'[q] = m_aAttachedObjects[q]
  BY <1>0, <1>1, <1>3, <1>5, <1>6, <1>7, SetOnKeeps
<1>9. /\ attached' \in [Peds -> [ServerSlots -> Shapes \cup {Nothing}]] /\ attached'[p] = NoOrders
      /\ \A q \in Peds : q # p => attached'[q] = attached[q]
  BY <1>0, <1>1 DEF CarryInv, CarryTypeOK, NoOrders
<1>10. CarryTypeOK'  BY <1>1, <1>8, <1>9 DEF outfitVars, CarryInv, CarryTypeOK
<1>12. AsOrdered'
  <2>1. SUFFICES ASSUME NEW q \in Peds, NEW t \in ServerSlots
                 PROVE  IF m_aAttachedObjects'[q] = Nothing THEN attached'[q][t] = Nothing
                        ELSE m_aAttachedObjects'[q][t] = attached'[q][t]
    BY DEF AsOrdered
  <2>2. CASE q = p  BY <2>2, <1>8, <1>9 DEF NoOrders
  <2>3. CASE q # p  BY <2>3, <1>8, <1>9 DEF CarryInv, AsOrdered
  <2>4. QED  BY <2>2, <2>3
<1>13. (Wears(Outfit, m_bParsed, flushed, attached[Me]))'
  <2>1. PICK o, o2 : o = Outfit /\ o2 = Outfit'  OBVIOUS
  <2>2. /\ o2.slot = o.slot /\ o2.used = o.used /\ o2.slots = o.slots /\ o2.ped.on = o.ped.on
    BY <1>0, <1>1, <1>8, <2>1 DEF outfitVars, Outfit, On
  <2>3. PICK parsed, cast, given : parsed = m_bParsed /\ cast = flushed /\ given = attached[Me]  OBVIOUS
  <2>4. Wears(o, parsed, cast, given)  BY <2>1, <2>3 DEF CarryInv
  <2>5. Wears(o2, parsed, cast, given)  BY <2>2, <2>4 DEF Wears, Hangs, Slotted
  <2>6. QED  BY <1>0, <1>1, <1>9, <2>1, <2>3, <2>5
<1>14. (fresh => m_bEnabled /\ m_bParsed /\ m_bUsedWeapon = OnBack)'
  BY <1>1 DEF outfitVars, OnBack, CarryInv
<1>15. QED  BY <1>8, <1>10, <1>12, <1>13, <1>14 DEF CarryInv

LEMMA PedGivenKept ==
    ASSUME NEW p \in Others, CarryInv, PedGiven(p)
    PROVE  CarryInv'
<1>0. p \in Peds /\ p # Me /\ Me \in Peds  BY AttachmentsAssumption DEF Peds
<1>1. /\ m_aAttachedObjects[p] = Nothing
      /\ m_aAttachedObjects' = [m_aAttachedObjects EXCEPT ![p] = Bare]
      /\ UNCHANGED <<objects, outfitVars, m_bEnabled, m_bParsed, m_bUpdated,
                     arms, hand, spawned, fresh, flushed, attached>>
  BY DEF PedGiven
<1>2. m_aAttachedObjects \in [Peds -> OnType \cup {Nothing}]  BY DEF CarryInv, CarryTypeOK
<1>3. /\ m_aAttachedObjects' \in [Peds -> OnType \cup {Nothing}] /\ m_aAttachedObjects'[p] = Bare
      /\ \A q \in Peds : q # p => m_aAttachedObjects'[q] = m_aAttachedObjects[q]
  BY <1>0, <1>1, <1>2, OnIsAMap
<1>4. CarryTypeOK'  BY <1>0, <1>1, <1>3 DEF outfitVars, CarryInv, CarryTypeOK
<1>5. Hung(m_aAttachedObjects') = Hung(m_aAttachedObjects)  BY <1>1, <1>3 DEF Hung, Bare
<1>6. AsOrdered'
  <2>1. SUFFICES ASSUME NEW q \in Peds, NEW t \in ServerSlots
                 PROVE  IF m_aAttachedObjects'[q] = Nothing THEN attached[q][t] = Nothing
                        ELSE m_aAttachedObjects'[q][t] = attached[q][t]
    BY <1>1 DEF AsOrdered
  <2>2. CASE q = p  BY <2>2, <1>1, <1>3, OnIsAMap, SlotsApart DEF Bare, CarryInv, AsOrdered
  <2>3. CASE q # p  BY <2>3, <1>3 DEF CarryInv, AsOrdered
  <2>4. QED  BY <2>2, <2>3
<1>7. Outfit' = Outfit  BY <1>0, <1>1, <1>3 DEF outfitVars, Outfit, On
<1>8. QED  BY <1>1, <1>4, <1>5, <1>6, <1>7 DEF outfitVars, OnBack, CarryInv

LEMMA CarryStep == CarryInv /\ AttachNext => CarryInv'
<1> SUFFICES ASSUME CarryInv, AttachNext PROVE CarryInv'  OBVIOUS
<1>1. CASE ProcessLocalPlayer  BY <1>1, OutfitProcessed
<1>2. ASSUME NEW b \in BOOLEAN, SetEnabled(b) PROVE CarryInv'
  BY <1>2 DEF SetEnabled, outfitVars, CarryInv, CarryTypeOK, AsOrdered, Outfit, On
<1>3. CASE OnUpdateOffsets
  BY <1>3 DEF OnUpdateOffsets, outfitVars, CarryInv, CarryTypeOK, AsOrdered, Outfit, On, OnBack
<1>4. ASSUME NEW weapons \in SUBSET Weapons, NEW drawn \in Weapons \cup {Nothing}, Rearm(weapons, drawn)
      PROVE  CarryInv'
  BY <1>4 DEF Rearm, outfitVars, CarryInv, CarryTypeOK, AsOrdered, Outfit, On
<1>5. CASE DieFlushed  BY <1>5, DeathKept
<1>6. ASSUME NEW weapons \in SUBSET Weapons, SpawnArmed(weapons) PROVE CarryInv'
  BY <1>6 DEF SpawnArmed, outfitVars, CarryInv, CarryTypeOK, AsOrdered, Outfit, On
<1>7. ASSUME NEW p \in Others, PedGiven(p) PROVE CarryInv'  BY <1>7, PedGivenKept
<1>8. ASSUME NEW p \in Others, DestroyPed(p) PROVE CarryInv'  BY <1>8, PedGoneKept
<1>9. ASSUME NEW p \in Peds, NEW s \in ServerSlots, NEW thing \in Shapes \cup {Nothing},
             ScrSetPlayerAttachedObject(p, s, thing)
      PROVE  CarryInv'
  BY <1>9, OrderKept
<1>10. QED  BY <1>1, <1>2, <1>3, <1>4, <1>5, <1>6, <1>7, <1>8, <1>9 DEF AttachNext

(* The peds' objects are counted one ped after the other. *)
LEMMA ObjectsCounted ==
    \A m : MapThenSumSet(LAMBDA p : Cardinality({s \in AttachSlots : m[p][s] # Nothing}),
                         {p \in Peds : m[p] # Nothing}) = Cardinality(Hung(m))
<1> TAKE m
<1> DEFINE P == {p \in Peds : m[p] # Nothing}
           OnHim(p) == Cardinality({s \in AttachSlots : m[p][s] # Nothing})
           Table(iter) ==
             iter = [s \in SUBSET P |->
                       IF s = {} THEN 0 ELSE OnHim(Picked(s)) + iter[s \ {Picked(s)}]]
           table == CHOOSE iter : Table(iter)
<1>1. IsFiniteSet(P)
  <2>1. IsFiniteSet(Peds)
    BY AttachmentsAssumption, FS_AddElement, {Me} \cup Others = Others \cup {Me} DEF Peds
  <2>2. QED  BY <2>1, FS_Subset
<1>2. MapThenSumSet(OnHim, P) = table[P]
  BY DEF MapThenSumSet, MapThenFoldSet, Picked
<1>3. \A p : OnHim(p) = Cardinality(Hanging(m[p])) /\ OnHim(p) \in Nat  BY SlotsFinite DEF Hanging
<1> HIDE DEF OnHim
<1>4. Table(table)
  <2> DEFINE op == [q \in P \X Int |-> OnHim(q[1]) + q[2]]
  <2>1. op \in [P \X Int -> Int]  BY <1>3
  <2>2. PICK g \in [SUBSET P -> Int] : Folds(g, P, 0, op)
    <3>1. 0 \in Int  OBVIOUS
    <3> HIDE DEF op, P
    <3>2. QED  BY <1>1, <2>1, <3>1, FoldExists, Zenon
  <2>3. Table(g)
    <3>1. ASSUME NEW s \in SUBSET P, s # {}
          PROVE  op[<<Picked(s), g[s \ {Picked(s)}]>>] = OnHim(Picked(s)) + g[s \ {Picked(s)}]
      <4>1. Picked(s) \in P /\ s \ {Picked(s)} \in SUBSET P  BY <3>1 DEF Picked
      <4>2. g[s \ {Picked(s)}] \in Int  BY <4>1
      <4> HIDE DEF P
      <4>3. QED  BY <4>1, <4>2
    <3> HIDE DEF op, P
    <3>2. QED  BY <2>2, <3>1 DEF Folds
  <2> HIDE DEF Table
  <2>4. QED  BY <2>3
<1> DEFINE Part(s) == {h \in Hung(m) : h[1] \in s}
           T == {s \in SUBSET P : table[s] = Cardinality(Part(s))}
<1> HIDE DEF table
<1>5. {} \in T
  <2>1. Part({}) = {}  OBVIOUS
  <2>2. QED  BY <1>4, <2>1, FS_EmptySet
<1>6. ASSUME NEW s \in SUBSET P, s # {}, \A r \in SUBSET s : r # s => r \in T
      PROVE  s \in T
  <2>1. PICK x : x \in s /\ x = Picked(s) /\ s \ {x} \in T  BY <1>6 DEF Picked
  <2>2. table[s] = OnHim(x) + Cardinality(Part(s \ {x}))  BY <1>4, <1>6, <2>1
  <2>3. Cardinality(Part(s)) = Cardinality(Part(s \ {x})) + Cardinality(Hanging(m[x]))
    <3> DEFINE a == Part(s \ {x})
               b == {h \in Hung(m) : h[1] = x}
    <3>1. IsFiniteSet(a) /\ IsFiniteSet(b) /\ Part(s) = a \cup b /\ a \cap b = {}
      BY HungFinite, FS_Subset, <2>1
    <3>2. Cardinality(b) = Cardinality(Hanging(m[x]))
      <4> DEFINE f == [t \in Hanging(m[x]) |-> <<x, t>>]
      <4>1. \A t \in Hanging(m[x]) : f[t] \in b  BY <2>1 DEF Hanging, Hung
      <4>2. \A h \in b : \E t \in Hanging(m[x]) : f[t] = h  BY DEF Hanging, Hung
      <4>3. \A t, u \in Hanging(m[x]) : f[t] = f[u] => t = u  OBVIOUS
      <4>4. f \in [Hanging(m[x]) -> b] /\ DOMAIN f = Hanging(m[x])  BY <4>1
      <4> HIDE DEF f, b
      <4>5. f \in Bijection(Hanging(m[x]), b)
        BY <4>2, <4>3, <4>4 DEF Bijection, Injection, Surjection, IsInjective
      <4>6. QED  BY <4>5, SlotsFinite, FS_Bijection DEF ExistsBijection
    <3> HIDE DEF a, b
    <3>3. Cardinality(a \cup b) = Cardinality(a) + Cardinality(b) - Cardinality(a \cap b)
      BY <3>1, FS_Union
    <3>4. Cardinality(a \cap b) = 0  BY <3>1, FS_EmptySet
    <3>5. Cardinality(a) \in Nat /\ Cardinality(b) \in Nat  BY <3>1, FS_CardinalityType
    <3>6. Cardinality(Part(s)) = Cardinality(a \cup b)  BY <3>1
    <3> HIDE DEF Part
    <3>7. Cardinality(Part(s)) = Cardinality(a) + Cardinality(Hanging(m[x]))
      BY <3>2, <3>3, <3>4, <3>5, <3>6
    <3>8. QED  BY <3>7 DEF a
  <2>4. Cardinality(Part(s \ {x})) \in Nat
    <3>1. IsFiniteSet(Part(s \ {x}))  BY HungFinite, FS_Subset
    <3>2. QED  BY <3>1, FS_CardinalityType
  <2>5. table[s] = Cardinality(Part(s))  BY <1>3, <2>2, <2>3, <2>4
  <2>6. QED  BY <2>5
<1>7. P \in T
  <2> HIDE DEF T, P
  <2>1. SUBSET P \subseteq T  BY <1>1, <1>5, <1>6, Subsets
  <2>2. QED  BY <2>1
<1>8. Part(P) = Hung(m)  BY DEF Hung
<1>9. QED  BY <1>2, <1>7, <1>8 DEF OnHim

(* For any weapons, peds and slots: each taken slot of the outfit is one   *)
(* weapon's, and that weapon hangs there unless it was cast off when the   *)
(* player died; the server's objects are where it put them; and the game   *)
(* holds exactly the objects that hang somewhere.                          *)
THEOREM CarriesAsWorn == PlayerSpec => []WornAsCarried
<1>1. PlayerInit => CarryInv  BY CarryStart DEF PlayerInit
<1>2. CarryInv /\ [PlayerNext]_playerVars => CarryInv'
  <2> SUFFICES ASSUME CarryInv, [PlayerNext]_playerVars PROVE CarryInv'
    OBVIOUS
  <2>1. CASE AttachNext  BY <2>1, CarryStep
  <2>2. CASE UNCHANGED attachVars
    BY <2>2
    DEF attachVars, outfitVars, CarryInv, CarryTypeOK, AsOrdered, Outfit, On, OnBack
  <2>3. QED  BY <2>1, <2>2 DEF PlayerNext, playerVars
<1>3. CarryInv => WornAsCarried
  <2> SUFFICES ASSUME CarryInv PROVE WornAsCarried  OBVIOUS
  <2>1. OwnSlots  BY DEF CarryInv, Wears, Slotted, Outfit, OwnSlots
  <2>2. OnTheBack
    BY DEF CarryInv, Wears, Hangs, Slotted, Outfit, On, OnTheBack
  <2>3. PICK m : m = m_aAttachedObjects  OBVIOUS
  <2>4. NoneLeft  BY <2>3, ObjectsCounted DEF CarryInv, NoneLeft
  <2>5. QED  BY <2>1, <2>2, <2>4 DEF CarryInv, WornAsCarried
<1>4. QED  BY <1>1, <1>2, <1>3, PTL DEF PlayerSpec

-----------------------------------------------------------------------------
(* What is said *)

LEMMA GreatestOf ==
    ASSUME NEW n \in Nat, NEW S \in SUBSET (0 .. n), S # {}
    PROVE  Max(S) \in S /\ \A x \in S : x <= Max(S)
<1> DEFINE R == {n - x : x \in S}
<1>1. R \in SUBSET Nat /\ R # {}
  <2>1. \A x \in S : x \in 0 .. n  OBVIOUS
  <2>2. \A x \in S : n - x \in Nat  BY <2>1
  <2>3. QED  BY <2>2
<1>2. PICK k \in R : \A r \in R : <<r, k>> \notin OpToRel(<, Nat)
  <2> HIDE DEF R
  <2> QED  BY <1>1, NatLessThanWellFounded, WFMin
<1>3. ASSUME NEW r \in R, r < k PROVE FALSE
  <2>1. <<r, k>> \in OpToRel(<, Nat)  BY <1>1, <1>3 DEF OpToRel
  <2>2. QED  BY <1>2, <2>1
<1>4. PICK m \in S : k = n - m  BY <1>2
<1>5. ASSUME NEW x \in S PROVE x <= m
  <2>1. n - x \in R  OBVIOUS
  <2>2. ~(n - x < k)  BY <1>3, <2>1
  <2>3. QED  BY <1>4, <2>2
<1>6. \E y \in S : \A x \in S : y >= x  BY <1>5
<1>7. Max(S) \in S /\ \A x \in S : Max(S) >= x  BY <1>6 DEF Max
<1>8. QED  BY <1>7

(* What is cut off a message. *)
LEMMA CutsAtSpaces ==
    ASSUME NEW t \in Seq(Symbols)
    PROVE  LET parts == CutMessage(t)
           IN  /\ Len(parts[1]) <= MaxLine
               /\ Len(parts) = 2 => t \in {parts[1] \o parts[2], parts[1] \o <<"space">> \o parts[2]}
<1>1. MaxLine \in Nat /\ Slack \in Nat /\ 0 < Slack /\ Slack < MaxLine /\ Len(t) \in Nat
  BY ChatTextAssumption
<1>2. PICK b : b = iBestLineLength(t)  OBVIOUS
<1>3. b \in 0 .. MaxLine /\ (b # 0 => t[b + 1] = "space")
  <2> DEFINE S == {0} \cup {i \in 1 .. MaxLine : t[i + 1] = "space"}
  <2>1. S \in SUBSET (0 .. MaxLine) /\ S # {}
    <3>1. 0 \in 0 .. MaxLine /\ \A i \in 1 .. MaxLine : i \in 0 .. MaxLine  BY <1>1
    <3>2. {i \in 1 .. MaxLine : t[i + 1] = "space"} \in SUBSET (1 .. MaxLine)  OBVIOUS
    <3>3. QED  BY <3>1, <3>2, Zenon
  <2>2. b = Max(S)  BY <1>2 DEF iBestLineLength
  <2>3. b \in S
    <3> HIDE DEF S
    <3> QED  BY <1>1, <2>1, <2>2, GreatestOf
  <2>4. QED  BY <1>1, <2>3
<1>4. CASE Len(t) <= MaxLine
  BY <1>4 DEF CutMessage
<1>5. CASE Len(t) > MaxLine /\ MaxLine - b > Slack
  <2>1. CutMessage(t) = <<SubSeq(t, 1, MaxLine), SubSeq(t, MaxLine + 1, Len(t))>>
    BY <1>1, <1>2, <1>5 DEF CutMessage
  <2>2. Len(SubSeq(t, 1, MaxLine)) = MaxLine  BY <1>1, <1>5
  <2>3. t = SubSeq(t, 1, MaxLine) \o SubSeq(t, MaxLine + 1, Len(t))
    <3>1. 1 \in 1 .. Len(t) + 1 /\ MaxLine \in 1 - 1 .. Len(t) /\ Len(t) \in MaxLine .. Len(t)  BY <1>1, <1>5
    <3>2. QED  BY <3>1, ConcatAdjacentSubSeq, SubSeqFull
  <2>4. PICK a, c : a = SubSeq(t, 1, MaxLine) /\ c = SubSeq(t, MaxLine + 1, Len(t))  OBVIOUS
  <2>5. CutMessage(t) = <<a, c>>  BY <2>1, <2>4
  <2>6. t = a \o c  BY <2>3, <2>4, Zenon
  <2>7. Len(a) <= MaxLine  BY <1>1, <2>2, <2>4
  <2>8. QED  BY <2>5, <2>6, <2>7
<1>6. CASE Len(t) > MaxLine /\ ~(MaxLine - b > Slack)
  <2>1. CutMessage(t) = <<SubSeq(t, 1, b), SubSeq(t, b + 2, Len(t))>>
    BY <1>1, <1>2, <1>6 DEF CutMessage
  <2>2. b \in 1 .. MaxLine /\ b < Len(t) /\ t[b + 1] = "space"  BY <1>1, <1>3, <1>6
  <2>3. Len(SubSeq(t, 1, b)) = b  BY <1>1, <2>2
  <2>4. t = SubSeq(t, 1, b) \o <<"space">> \o SubSeq(t, b + 2, Len(t))
    <3>1. /\ 1 \in 1 .. Len(t) + 1 /\ b \in 1 - 1 .. Len(t) /\ b + 1 \in b .. Len(t)
          /\ b + 1 \in 1 - 1 .. Len(t) /\ Len(t) \in b + 1 .. Len(t) /\ b + 1 + 1 = b + 2
      BY <1>1, <2>2
    <3>2. SubSeq(t, 1, b) \o SubSeq(t, b + 1, b + 1) = SubSeq(t, 1, b + 1)  BY <3>1, ConcatAdjacentSubSeq
    <3>3. SubSeq(t, 1, b + 1) \o SubSeq(t, b + 2, Len(t)) = SubSeq(t, 1, Len(t))
      BY <3>1, ConcatAdjacentSubSeq
    <3>4. SubSeq(t, b + 1, b + 1) = <<"space">>
      <4>1. PICK u : u = SubSeq(t, b + 1, b + 1)  OBVIOUS
      <4>2. b + 1 \in Int /\ \A i \in b + 1 .. b + 1 : t[i] \in Symbols  BY <1>1, <2>2
      <4>3. u \in Seq(Symbols) /\ Len(u) = 1 /\ u[1] = t[b + 1]  BY <4>1, <4>2, SubSeqProperties
      <4>4. <<"space">> \in Seq(Symbols) /\ Len(<<"space">>) = 1 /\ <<"space">>[1] = "space"
        BY DEF Symbols
      <4>5. \A i \in 1 .. Len(u) : u[i] = <<"space">>[i]  BY <2>2, <4>3, <4>4
      <4>6. u = <<"space">>  BY <4>3, <4>4, <4>5, SeqEqual
      <4>7. QED  BY <4>1, <4>6
    <3>5. QED  BY <3>2, <3>3, <3>4, SubSeqFull
  <2>5. PICK a, c : a = SubSeq(t, 1, b) /\ c = SubSeq(t, b + 2, Len(t))  OBVIOUS
  <2>6. CutMessage(t) = <<a, c>>  BY <2>1, <2>5
  <2>7. t = a \o <<"space">> \o c  BY <2>4, <2>5, Zenon
  <2>8. Len(a) <= MaxLine  BY <1>1, <2>2, <2>3, <2>5
  <2>9. QED  BY <2>6, <2>7, <2>8
<1>7. Len(t) <= MaxLine \/ Len(t) > MaxLine  BY <1>1
<1>8. QED  BY <1>4, <1>5, <1>6, <1>7, Zenon

(* The window of the chat. *)
WindowInv ==
    /\ pushed \in Nat /\ m_vChatWindowEntries \in Seq(Nat)
    /\ Len(m_vChatWindowEntries) <= pushed
    /\ m_iMaxMessages \in Sizes /\ iChatMaxMessages \in Sizes
    /\ m_fChatPosY \in Int /\ m_fPosBeforeBoundChat \in Int /\ m_fOffsetBefore \in Int
    /\ bar \in [fY : Int, upY : Int, downY : Int, value : 0 .. NumMessages, drawState : BOOLEAN]
    /\ held \in Int
    /\ \A i \in DOMAIN m_vChatWindowEntries : m_vChatWindowEntries[i] = pushed + 1 - i
    /\ Len(m_vChatWindowEntries) >= Min({pushed, NumMessages + Min(Sizes)})
    /\ m_fChatPosY = m_fPosBeforeBoundChat - m_fOffsetBefore
    /\ bar.downY = m_fChatPosY + m_iMaxMessages + 1

LEMMA SmallerOfTwo == \A a, b \in Nat : Min({a, b}) \in Nat /\ Min({a, b}) = IF a <= b THEN a ELSE b
<1> TAKE a, b \in Nat
<1>1. PICK m : m = IF a <= b THEN a ELSE b  OBVIOUS
<1>2. m \in {a, b} /\ \A y \in {a, b} : m <= y  BY <1>1
<1>3. \A x \in {a, b} : (\A y \in {a, b} : x <= y) => x = m  BY <1>1, <1>2
<1>4. QED  BY <1>1, <1>2, <1>3 DEF Min

(* The newest messages in order, as many as the bar can reach. *)
Chats(e, p, least) ==
    /\ e \in Seq(Nat) /\ p \in Nat /\ Len(e) <= p
    /\ \A i \in DOMAIN e : e[i] = p + 1 - i
    /\ Len(e) >= Min({p, least})

LEMMA PushedIsKept ==
    ASSUME NEW e, NEW p, NEW limit \in Nat \ {0}, NEW least \in Nat, least <= limit, Chats(e, p, least)
    PROVE  Chats(PushBack(e, p + 1, limit), p + 1, least)
<1> DEFINE kept == IF Len(e) >= limit THEN Front(e) ELSE e
           d == <<p + 1>> \o kept
<1>0. /\ e \in Seq(Nat) /\ p \in Nat /\ Len(e) <= p
      /\ \A i \in DOMAIN e : e[i] = p + 1 - i
      /\ Len(e) >= Min({p, least})
  BY DEF Chats
<1>1. kept \in Seq(Nat) /\ Len(kept) = (IF Len(e) >= limit THEN Len(e) - 1 ELSE Len(e))
      /\ \A i \in 1 .. Len(kept) : kept[i] = e[i] /\ i \in DOMAIN e
  <2>1. CASE Len(e) >= limit
    <3>1. Len(e) - 1 \in Nat /\ kept = SubSeq(e, 1, Len(e) - 1)  BY <1>0, <2>1 DEF Front
    <3>2. \A i \in 1 .. Len(e) - 1 : e[i] \in Nat /\ i \in DOMAIN e  BY <1>0, <3>1
    <3> HIDE DEF kept
    <3>3. kept \in Seq(Nat) /\ Len(kept) = Len(e) - 1 /\ \A i \in 1 .. Len(e) - 1 : kept[i] = e[i]
      <4>1. PICK m : m = Len(e) - 1 /\ m \in Nat  BY <3>1
      <4>2. kept = SubSeq(e, 1, m) /\ \A i \in 1 .. m : e[i] \in Nat  BY <3>1, <3>2, <4>1
      <4>3. /\ SubSeq(e, 1, m) \in Seq(Nat)
            /\ Len(SubSeq(e, 1, m)) = IF 1 <= m THEN m - 1 + 1 ELSE 0
            /\ \A i \in 1 .. m - 1 + 1 : SubSeq(e, 1, m)[i] = e[1 + i - 1]
        BY <4>1, <4>2, 1 \in Int, m \in Int, SubSeqProperties
      <4>4. QED  BY <4>1, <4>2, <4>3
    <3>4. QED  BY <2>1, <3>2, <3>3
  <2>2. CASE ~(Len(e) >= limit)  BY <1>0, <2>2
  <2>3. QED  BY <2>1, <2>2
<1> HIDE DEF kept
<1>2. d \in Seq(Nat) /\ Len(d) = Len(kept) + 1 /\ \A i \in 1 .. Len(d) : d[i] = IF i = 1 THEN p + 1 ELSE kept[i - 1]
  BY <1>0, <1>1
<1>3. ASSUME NEW i \in DOMAIN d PROVE d[i] = (p + 1) + 1 - i
  <2>1. i \in 1 .. Len(d) /\ Len(d) = Len(kept) + 1 /\ Len(kept) \in Nat  BY <1>1, <1>2, <1>3
  <2>2. CASE i = 1  BY <1>0, <1>2, <2>1, <2>2
  <2>3. CASE i # 1
    <3>1. i - 1 \in 1 .. Len(kept)  BY <2>1, <2>3
    <3>2. d[i] = kept[i - 1] /\ kept[i - 1] = p + 1 - (i - 1)  BY <1>0, <1>1, <1>2, <2>1, <2>3, <3>1
    <3>3. QED  BY <1>0, <2>1, <3>2
  <2>4. QED  BY <2>2, <2>3
<1>4. Len(d) <= p + 1  BY <1>0, <1>1, <1>2
<1>5. Len(d) >= Min({p + 1, least})
  <2>1. PICK x : x = Len(d) /\ x = Len(kept) + 1  BY <1>2
  <2>2. Min({p + 1, least}) = (IF p + 1 <= least THEN p + 1 ELSE least)
        /\ Min({p, least}) = (IF p <= least THEN p ELSE least)
    BY <1>0, SmallerOfTwo
  <2>3. x \in Nat /\ (x = Len(e) \/ x = Len(e) + 1) /\ (x = Len(e) => Len(e) >= limit)  BY <1>0, <1>1, <2>1
  <2> HIDE DEF d
  <2>4. x >= Min({p + 1, least})  BY <1>0, <2>2, <2>3
  <2>5. QED  BY <2>1, <2>4
<1>6. p + 1 \in Nat  BY <1>0
<1>7. PushBack(e, p + 1, limit) = d  BY DEF PushBack, kept
<1> HIDE DEF d
<1>8. QED  BY <1>2, <1>3, <1>4, <1>5, <1>6, <1>7 DEF Chats

LEMMA SizesAre ==
    ASSUME NEW size \in Sizes
    PROVE  size \in Nat \ {0} /\ Min(Sizes) \in Nat \ {0} /\ Min(Sizes) <= size
<1>1. Sizes \in SUBSET Nat /\ Sizes \subseteq Nat \ {0} /\ Sizes # {}  BY ChatWindowAssumption
<1>2. Min(Sizes) \in Sizes  BY <1>1, LeastFree
<1>3. Min(Sizes) <= size
  <2>1. \E x \in Sizes : \A y \in Sizes : x <= y
    <3>1. PICK n \in Sizes : \A k \in Sizes : <<k, n>> \notin OpToRel(<, Nat)
      BY <1>1, NatLessThanWellFounded, WFMin
    <3>2. ASSUME NEW k \in Sizes, k < n PROVE FALSE
      <4>1. <<k, n>> \in OpToRel(<, Nat)  BY <1>1, <3>2 DEF OpToRel
      <4>2. QED  BY <3>1, <4>1
    <3>3. QED  BY <1>1, <3>2
  <2>2. QED  BY <2>1 DEF Min
<1>4. QED  BY <1>1, <1>2, <1>3

LEMMA WindowStart == ChatInit => WindowInv
<1> SUFFICES ASSUME ChatInit PROVE WindowInv  OBVIOUS
<1>1. PICK size \in Sizes : size = iChatMaxMessages  BY DEF ChatInit
<1>2. size \in Nat \ {0} /\ Min(Sizes) \in Nat \ {0}  BY SizesAre
<1>3. NumMessages \in Nat /\ TopY \in Nat /\ Box \in Nat  BY ChatWindowAssumption
<1>4. Min({0, NumMessages + Min(Sizes)}) = 0  BY <1>2, <1>3, SmallerOfTwo
<1>5. bar \in [fY : Int, upY : Int, downY : Int, value : 0 .. NumMessages, drawState : BOOLEAN]
      /\ bar.downY = TopY + size + 1
  BY <1>1, <1>2, <1>3 DEF ChatInit, BarAt
<1>6. QED  BY <1>1, <1>3, <1>4, <1>5 DEF ChatInit, WindowInv

(* How far the bar's handle is down, in messages. *)
LEMMA BarStands ==
    ASSUME NEW n \in Nat, NEW d \in Nat \ {0}, NEW a \in 0 .. d
    PROVE  (a * n) \div d \in 0 .. n
<1>1. PICK x : x = a * n  OBVIOUS
<1>2. x \in Nat /\ x <= d * n
  <2>1. a * n \in Nat  OBVIOUS
  <2>2. (d - a) * n \in Nat  OBVIOUS
  <2>3. d * n = a * n + (d - a) * n  OBVIOUS
  <2>4. QED  BY <1>1, <2>1, <2>2, <2>3
<1>3. PICK q : q = x \div d /\ q \in Int /\ q * d <= x /\ x < q * d + d
  <2>1. x % d \in 0 .. (d - 1) /\ x \div d \in Int  BY <1>2
  <2>2. x % d = x - d * (x \div d)  BY <1>2
  <2>3. PICK q \in Int, r \in Nat : q = x \div d /\ r = x % d /\ r < d  BY <2>1
  <2>4. PICK m \in Int : m = q * d  OBVIOUS
  <2>5. r = x - m  BY <2>2, <2>3, <2>4
  <2>6. QED  BY <1>2, <2>3, <2>4, <2>5
<1>4. q >= 0
  <2> SUFFICES ASSUME q <= -1 PROVE FALSE  BY <1>3
  <2>1. (-1 - q) * d \in Nat  BY <1>3
  <2>2. q * d + d = -((-1 - q) * d)  BY <1>3
  <2>3. QED  BY <1>2, <1>3, <2>1, <2>2
<1>5. q <= n
  <2> SUFFICES ASSUME q >= n + 1 PROVE FALSE  BY <1>3
  <2>1. (q - n - 1) * d \in Nat  BY <1>3
  <2>2. q * d = d * n + d + (q - n - 1) * d  BY <1>3
  <2>3. QED  BY <1>2, <1>3, <2>1, <2>2
<1>6. QED  BY <1>1, <1>3, <1>4, <1>5

LEMMA BarMoved == ASSUME NEW y \in Int, WindowInv, MoveBar(y) PROVE WindowInv'
<1>1. PICK fY : fY = Max({Min({bar.fY + y - held, bar.downY - Box}), bar.upY})  OBVIOUS
<1>2. /\ held' = y
      /\ bar' = [bar EXCEPT !.fY = fY,
                            !.value = IF Distance = 0 THEN @
                                      ELSE IF fY = bar.upY THEN 0
                                      ELSE ((fY - bar.upY) * NumMessages) \div Distance]
      /\ UNCHANGED <<m_vChatWindowEntries, pushed, iChatMaxMessages, m_bPendingReInit,
                     m_iMaxMessages, placeVars>>
  BY <1>1 DEF MoveBar
<1>3. NumMessages \in Nat /\ Box \in Nat  BY ChatWindowAssumption
<1>4. PICK f, u, d, v : f = bar.fY /\ u = bar.upY /\ d = bar.downY /\ v = bar.value
  OBVIOUS
<1>5. f \in Int /\ u \in Int /\ d \in Int /\ v \in 0 .. NumMessages /\ held \in Int
  BY <1>4 DEF WindowInv
<1>6. fY \in Int /\ fY >= u /\ (fY # u => fY <= d - Box)
  <2>1. PICK low : low = Min({f + y - held, d - Box})  OBVIOUS
  <2>2. low \in Int /\ low <= d - Box  BY <1>3, <1>5, <2>1, MinOfTwo
  <2>3. fY = IF low >= u THEN low ELSE u  BY <1>1, <1>4, <1>5, <2>1, <2>2, MaxOfTwo
  <2>4. QED  BY <1>3, <1>5, <2>2, <2>3
<1>7. PICK w : w = IF Distance = 0 THEN v ELSE IF fY = u THEN 0 ELSE ((fY - u) * NumMessages) \div Distance
  OBVIOUS
<1>8. w \in 0 .. NumMessages
  <2>1. PICK dist : dist = Distance /\ dist = d - u - Box  BY <1>4 DEF Distance
  <2>2. CASE dist # 0 /\ fY # u
    <3>1. dist \in Nat \ {0} /\ fY - u \in 0 .. dist  BY <1>3, <1>5, <1>6, <2>1, <2>2
    <3>2. ((fY - u) * NumMessages) \div dist \in 0 .. NumMessages  BY <1>3, <3>1, BarStands
    <3>3. QED  BY <1>7, <2>1, <2>2, <3>2
  <2>3. CASE dist = 0 \/ fY = u  BY <1>3, <1>5, <1>7, <2>1, <2>3
  <2>4. QED  BY <2>2, <2>3
<1>9. bar' = [bar EXCEPT !.fY = fY, !.value = w]  BY <1>2, <1>4, <1>7
<1>10. bar' \in [fY : Int, upY : Int, downY : Int, value : 0 .. NumMessages, drawState : BOOLEAN]
       /\ bar'.downY = bar.downY
  BY <1>6, <1>8, <1>9 DEF WindowInv
<1>11. QED  BY <1>2, <1>10 DEF WindowInv, placeVars

LEMMA MessageKept == ASSUME NEW parts \in {1, 2}, WindowInv, AddToChatWindowBuffer(parts) PROVE WindowInv'
<1>1. PICK limit : limit = NumMessages + m_iMaxMessages  OBVIOUS
<1>2. PICK least : least = NumMessages + Min(Sizes)  OBVIOUS
<1>3. limit \in Nat \ {0} /\ least \in Nat /\ least <= limit
  BY <1>1, <1>2, SizesAre, ChatWindowAssumption DEF WindowInv
<1>4. PICK e, p : e = m_vChatWindowEntries /\ p = pushed  OBVIOUS
<1>5. Chats(e, p, least) /\ p \in Nat /\ p + 1 + 1 = p + 2
  BY <1>2, <1>4 DEF WindowInv, Chats
<1>6. PICK once : once = PushBack(e, p + 1, limit)  OBVIOUS
<1>7. Chats(once, p + 1, least)  BY <1>3, <1>5, <1>6, PushedIsKept
<1>8. PICK twice : twice = PushBack(once, p + 2, limit)  OBVIOUS
<1>9. Chats(twice, p + 2, least)
  <2>1. Chats(PushBack(once, p + 1 + 1, limit), p + 1 + 1, least)  BY <1>3, <1>7, PushedIsKept
  <2>2. QED  BY <1>5, <1>8, <2>1
<1>10. /\ pushed' = p + parts
       /\ m_vChatWindowEntries' = IF parts = 1 THEN once ELSE twice
       /\ UNCHANGED <<iChatMaxMessages, m_bPendingReInit, m_iMaxMessages, placeVars, bar, held>>
  BY <1>1, <1>4, <1>6, <1>8 DEF AddToChatWindowBuffer
<1>11. Chats(m_vChatWindowEntries', pushed', least)
  <2>1. CASE parts = 1  BY <2>1, <1>7, <1>10
  <2>2. CASE parts = 2  BY <2>2, <1>9, <1>10
  <2>3. QED  BY <2>1, <2>2
<1>12. QED  BY <1>2, <1>10, <1>11 DEF WindowInv, placeVars, Chats

LEMMA WindowStep == WindowInv /\ ChatNext => WindowInv'
<1> SUFFICES ASSUME WindowInv, ChatNext PROVE WindowInv'  OBVIOUS
<1> NumMessages \in Nat /\ TopY \in Nat /\ Box \in Nat /\ Bounds \subseteq Nat  BY ChatWindowAssumption
<1>1. ASSUME NEW parts \in {1, 2}, AddToChatWindowBuffer(parts) PROVE WindowInv'  BY <1>1, MessageKept
<1>2. ASSUME NEW n \in Sizes, SetMaxMessages(n) PROVE WindowInv'
  BY <1>2 DEF SetMaxMessages, WindowInv, placeVars
<1>3. ASSUME NEW visible \in BOOLEAN, NEW typing \in BOOLEAN, Render(visible, typing) PROVE WindowInv'
  <2>1. PICK b, b2 : b = bar /\ b2 = bar'  OBVIOUS
  <2>2. b \in [fY : Int, upY : Int, downY : Int, value : 0 .. NumMessages, drawState : BOOLEAN]
    BY <2>1 DEF WindowInv
  <2>3. PICK size \in Nat : size = iChatMaxMessages  BY SizesAre DEF WindowInv
  <2>4. UNCHANGED <<m_vChatWindowEntries, pushed, iChatMaxMessages, held>>  BY <1>3 DEF Render
  <2>5. CASE m_bPendingReInit
    <3>1. PICK at : at = BarAt(TopY, size)  OBVIOUS
    <3>2. at \in [fY : Int, upY : Int, downY : Int, value : 0 .. NumMessages, drawState : BOOLEAN]
          /\ at.downY = TopY + size + 1
      BY <3>1 DEF BarAt
    <3>3. \E draws \in BOOLEAN : b2 = [at EXCEPT !.drawState = draws]
      <4>1. CASE visible
        <5>1. b2 = [[at EXCEPT !.drawState = b.drawState] EXCEPT !.drawState = typing]
          BY <1>3, <2>1, <2>3, <2>5, <3>1, <4>1 DEF Render
        <5>2. b2 = [at EXCEPT !.drawState = typing]  BY <3>2, <5>1
        <5>3. QED  BY <5>2
      <4>2. CASE ~visible
        <5>1. b2 = [at EXCEPT !.drawState = b.drawState]
          BY <1>3, <2>1, <2>3, <2>5, <3>1, <4>2 DEF Render
        <5>2. QED  BY <2>2, <5>1
      <4>3. QED  BY <4>1, <4>2
    <3>4. b2 \in [fY : Int, upY : Int, downY : Int, value : 0 .. NumMessages, drawState : BOOLEAN]
          /\ b2.downY = TopY + size + 1
      BY <3>2, <3>3
    <3>5. m_iMaxMessages' = size /\ m_fChatPosY' = TopY /\ m_fPosBeforeBoundChat' = TopY /\ m_fOffsetBefore' = 0
      BY <1>3, <2>3, <2>5 DEF Render
    <3>6. QED  BY <2>1, <2>3, <2>4, <3>4, <3>5 DEF WindowInv
  <2>6. CASE ~m_bPendingReInit
    <3>1. b2 = b \/ b2 = [b EXCEPT !.drawState = typing]  BY <1>3, <2>1, <2>6 DEF Render
    <3>2. b2 \in [fY : Int, upY : Int, downY : Int, value : 0 .. NumMessages, drawState : BOOLEAN]
          /\ b2.downY = b.downY
      BY <2>2, <3>1
    <3>3. UNCHANGED <<m_iMaxMessages, placeVars>>  BY <1>3, <2>6 DEF Render
    <3>4. QED  BY <2>1, <2>4, <3>2, <3>3 DEF WindowInv, placeVars
  <2>7. QED  BY <2>5, <2>6
<1>4. ASSUME NEW y \in Bounds, SetLowerBound(y) PROVE WindowInv'
  <2>1. PICK raised : raised = Max({0, m_fPosBeforeBoundChat + m_iMaxMessages + 2 - y + 1})  OBVIOUS
  <2>2. m_iMaxMessages \in Int  BY SizesAre DEF WindowInv
  <2>3. m_fPosBeforeBoundChat + m_iMaxMessages + 2 - y + 1 \in Int  BY <2>2 DEF WindowInv
  <2>4. raised \in Int  BY <2>1, <2>3, MaxOfTwo
  <2>5. /\ m_fChatPosY' = m_fPosBeforeBoundChat - raised /\ m_fOffsetBefore' = raised
        /\ bar' = [bar EXCEPT !.fY = @ + m_fOffsetBefore - raised,
                              !.downY = @ + m_fOffsetBefore - raised]
        /\ UNCHANGED <<m_vChatWindowEntries, pushed, iChatMaxMessages, m_bPendingReInit,
                       m_iMaxMessages, m_fPosBeforeBoundChat, held>>
    BY <1>4, <2>1 DEF SetLowerBound
  <2>6. bar' \in [fY : Int, upY : Int, downY : Int, value : 0 .. NumMessages, drawState : BOOLEAN]
        /\ bar'.downY = bar.downY + m_fOffsetBefore - raised
    <3>1. PICK b, off : b = bar /\ off = m_fOffsetBefore  OBVIOUS
    <3>2. /\ b \in [fY : Int, upY : Int, downY : Int, value : 0 .. NumMessages, drawState : BOOLEAN]
          /\ off \in Int
      BY <3>1 DEF WindowInv
    <3>3. PICK x, z : x = b.fY + off - raised /\ z = b.downY + off - raised /\ x \in Int /\ z \in Int
      BY <2>4, <3>2
    <3>4. bar' = [b EXCEPT !.fY = x, !.downY = z]  BY <2>5, <3>1, <3>3
    <3>5. QED  BY <3>1, <3>2, <3>3, <3>4
  <2>7. m_fChatPosY' \in Int /\ bar'.downY = m_fChatPosY' + m_iMaxMessages + 1
    <3>1. /\ m_fPosBeforeBoundChat \in Int /\ m_fOffsetBefore \in Int
          /\ bar.downY = m_fPosBeforeBoundChat - m_fOffsetBefore + m_iMaxMessages + 1
      BY DEF WindowInv
    <3>2. m_fChatPosY' = m_fPosBeforeBoundChat - raised  BY <2>5
    <3>3. QED  BY <2>2, <2>4, <2>6, <3>1, <3>2
  <2>8. QED  BY <2>4, <2>5, <2>6, <2>7 DEF WindowInv
<1>5. ASSUME NEW y \in Heights, PushBar(y) \/ MoveBar(y) PROVE WindowInv'
  <2>1. y \in Int  BY DEF Heights
  <2>2. CASE PushBar(y)  BY <2>1, <2>2 DEF PushBar, WindowInv, placeVars
  <2>3. QED  BY <1>5, <2>1, <2>2, BarMoved
<1>6. CASE PopBar  BY <1>6 DEF PopBar, WindowInv, placeVars
<1>7. QED  BY <1>1, <1>2, <1>3, <1>4, <1>5, <1>6 DEF ChatNext

LEMMA WindowShows == WindowInv => ChatInOrder
<1> SUFFICES ASSUME WindowInv PROVE ChatInOrder  OBVIOUS
<1>1. NumMessages \in Nat \ {0}  BY ChatWindowAssumption
<1>2. m_iMaxMessages \in Nat \ {0} /\ Min(Sizes) \in Nat \ {0}  BY SizesAre DEF WindowInv
<1>3. PICK e, v, p : e = m_vChatWindowEntries /\ v = bar.value /\ p = pushed  OBVIOUS
<1>4. /\ e \in Seq(Nat) /\ v \in 0 .. NumMessages /\ p \in Nat /\ Len(e) <= p
      /\ \A i \in DOMAIN e : e[i] = p + 1 - i
      /\ Len(e) >= IF p <= NumMessages + Min(Sizes) THEN p ELSE NumMessages + Min(Sizes)
  BY <1>1, <1>2, <1>3, SmallerOfTwo DEF WindowInv
<1>5. \A j \in 1 .. Len(e) : j - 1 \in NumMessages - v .. NumMessages - v + m_iMaxMessages => e[j] \in Shown
  BY <1>3 DEF Shown
<1>6. ASSUME v = NumMessages, p > 0 PROVE p \in Shown
  <2>1. 1 \in 1 .. Len(e)  BY <1>1, <1>2, <1>4, <1>6
  <2>2. e[1] = p  BY <1>4, <2>1
  <2>3. 1 - 1 \in NumMessages - v .. NumMessages - v + m_iMaxMessages  BY <1>1, <1>2, <1>4, <1>6
  <2>4. QED  BY <1>5, <2>1, <2>2, <2>3
<1>7. ASSUME v > 0, p > NumMessages PROVE Shown # {}
  <2>1. PICK j : j = NumMessages - v + 1  OBVIOUS
  <2>2. j \in 1 .. Len(e) /\ j - 1 \in NumMessages - v .. NumMessages - v + m_iMaxMessages
    BY <1>1, <1>2, <1>4, <1>7, <2>1
  <2>3. QED  BY <1>5, <2>2
<1>8. QED  BY <1>3, <1>6, <1>7 DEF WindowInv, ChatInOrder

(* What is drawn over heads. *)
OverheadInv ==
    /\ m_pSzText = said
    /\ late \in [Talkers -> 0 .. 1] /\ m_bChatBubbleStatus \in [Talkers -> BOOLEAN]
    /\ \A p \in Talkers : m_bChatBubbleStatus[p] => late[p] = 0 /\ m_pSzText[p] \in Texts
    /\ said \in [Talkers -> Texts \cup {NoAnchor}]
    /\ presence \in [Anchors -> {"gone", "unadded", "there", "dead"}]
    /\ \A b \in bubbles : b[1] \in Talkers /\ b[2] = said[b[1]] /\ presence[b[1]] = "there"
    /\ \A a \in marks \ {NoAnchor} : presence[a] = "there" /\ presence[LabelMe] = "there"

LEMMA OverheadStart == OverheadInit => OverheadInv
BY DEF OverheadInit, OverheadInv

LEMMA OverheadStep == OverheadInv /\ OverheadNext => OverheadInv'
<1> SUFFICES ASSUME OverheadInv, OverheadNext PROVE OverheadInv'  OBVIOUS
<1>1. ASSUME NEW a \in Anchors, NEW how \in {"gone", "unadded", "there", "dead"}, Comes(a, how)
      PROVE  OverheadInv'
  BY <1>1 DEF Comes, bubbleVars, OverheadInv
<1>2. ASSUME NEW p \in Talkers, NEW t \in Texts, NEW time \in BubbleTimes, AddChatBubble(p, t, time)
      PROVE  OverheadInv'
  BY <1>2 DEF AddChatBubble, OverheadInv
<1>3. ASSUME NEW near \in SUBSET Talkers, DrawOverhead(near) PROVE OverheadInv'
  <2>1. UNCHANGED <<presence, m_pSzText, said, label>>  BY <1>3 DEF DrawOverhead
  <2>2. bubbles' = {<<p, m_pSzText[p]>> : p \in {q \in Talkers : BubbleDrawn(q, near)}}
    BY <1>3 DEF DrawOverhead
  <2>3. \A b \in bubbles' : b[1] \in Talkers /\ b[2] = said[b[1]] /\ presence[b[1]] = "there"
    BY <2>2 DEF BubbleDrawn, OverheadInv
  <2>4. \A a \in marks' \ {NoAnchor} : presence[a] = "there" /\ presence[LabelMe] = "there"
    <3>1. marks' = LabelDrawn  BY <1>3 DEF DrawOverhead
    <3>2. QED
      BY <3>1 DEF LabelDrawn, DrawTextLabel, DrawAttachedToPlayer, DrawAttachedToVehicle
  <2>5. /\ late' = [p \in Talkers |->
                     IF BubbleDrawn(p, near) /\ age[p] >= m_dwTime[p] THEN late[p] + 1 ELSE late[p]]
        /\ m_bChatBubbleStatus' = [p \in Talkers |-> m_bChatBubbleStatus[p] /\ ~Expires(p, near)]
    BY <1>3 DEF DrawOverhead, ResetChatBubbles
  <2>6. ASSUME NEW p \in Talkers
        PROVE  /\ late'[p] \in 0 .. 1
               /\ m_bChatBubbleStatus'[p] => late'[p] = 0 /\ m_pSzText[p] \in Texts
    <3>1. CASE BubbleDrawn(p, near) /\ age[p] >= m_dwTime[p]
      <4>1. Expires(p, near) /\ m_bChatBubbleStatus[p]  BY <3>1 DEF BubbleDrawn, Expires, IsActive
      <4>2. late'[p] = 1  BY <2>5, <3>1, <4>1 DEF OverheadInv
      <4>3. ~m_bChatBubbleStatus'[p]  BY <2>5, <4>1, Zenon
      <4>4. QED  BY <4>2, <4>3
    <3>2. CASE ~(BubbleDrawn(p, near) /\ age[p] >= m_dwTime[p])
      BY <2>5, <3>2 DEF OverheadInv
    <3>3. QED  BY <3>1, <3>2
  <2>7. late' \in [Talkers -> 0 .. 1] /\ m_bChatBubbleStatus' \in [Talkers -> BOOLEAN]
    <3>1. \A p \in Talkers : late'[p] \in 0 .. 1  BY <2>6
    <3>2. DOMAIN late' = Talkers /\ late' = [p \in Talkers |-> late'[p]]  BY <2>5
    <3>3. \A p \in Talkers : (m_bChatBubbleStatus[p] /\ ~Expires(p, near)) \in BOOLEAN  OBVIOUS
    <3>4. m_bChatBubbleStatus' \in [Talkers -> BOOLEAN]  BY <2>5, <3>3, Zenon
    <3>5. QED  BY <3>1, <3>2, <3>4
  <2>8. QED  BY <2>1, <2>3, <2>4, <2>6, <2>7 DEF OverheadInv
<1>4. QED  BY <1>1, <1>2, <1>3 DEF OverheadNext, Anchors

LEMMA OverheadShown == OverheadInv => OverheadTrue
BY DEF OverheadInv, OverheadTrue

(* Who is listed as talking. *)
TagsInv ==
    /\ m_iVoiceTime \in [Tagged -> Nat] /\ sinceUpdated \in [Tagged -> Nat] /\ unbroken \in [Tagged -> Nat]
    /\ heardNow \in SUBSET Tagged
    /\ \A p \in Tagged : p \notin heardNow => unbroken[p] = 0
    /\ \A p \in heardNow : sinceUpdated[p] = 1
    /\ TalkersListed

LEMMA TagsStart == TagsInit => TagsInv
BY DEF TagsInit, TagsInv, TalkersListed

LEMMA TagsStep == TagsInv /\ TagsNext => TagsInv'
<1> SUFFICES ASSUME TagsInv, NEW drawn \in SUBSET Tagged, NEW talking \in SUBSET Tagged,
                    NEW jitter \in [Tagged -> {0, 1}], RenderTags(drawn, talking, jitter)
             PROVE  TagsInv'
  BY DEF TagsNext
<1> VoiceLimit \in Nat \ {0, 1} /\ VoiceRows \in Nat \ {0} /\ IsFiniteSet(Tagged)
  BY NameTagsAssumption
<1>1. PICK times : times = VoiceTimes(drawn, talking, jitter)  OBVIOUS
<1>2. PICK talkers : talkers = drawn \cap talking  OBVIOUS
<1>3. PICK o \in Orders(times, talkers) :
         voiceRows' = [i \in 1 .. (IF Len(o) < VoiceRows THEN Len(o) ELSE VoiceRows) |-> o[i]]
  BY <1>1, <1>2 DEF RenderTags
<1>4. /\ m_iVoiceTime' = times /\ heardNow' = talkers
      /\ sinceUpdated' = [p \in Tagged |-> IF p \in drawn THEN 1 ELSE UpTo(sinceUpdated[p] + 1)]
      /\ unbroken' = [p \in Tagged |->
                         IF p \notin talkers THEN 0 ELSE IF Starts(p) THEN 1 ELSE UpTo(unbroken[p] + 1)]
  BY <1>1, <1>2 DEF RenderTags
<1>5. \A n \in Nat : UpTo(n) \in Nat /\ (n >= 1 => UpTo(n) >= 1) /\ \A k \in Nat : k <= n => UpTo(k) <= UpTo(n)
  BY DEF UpTo, Beyond
<1>6. ASSUME NEW p \in Tagged
      PROVE  times[p] \in Nat /\ (p \in talkers => times[p] >= unbroken'[p])
  <2>1. PICK time, since, before : time = m_iVoiceTime[p] /\ since = sinceUpdated[p] /\ before = unbroken[p]
    OBVIOUS
  <2>2. time \in Nat /\ since \in Nat /\ before \in Nat /\ jitter[p] \in {0, 1}  BY <2>1 DEF TagsInv
  <2>3. times[p] = IF p \notin drawn THEN time
                   ELSE IF p \in talking THEN (IF Starts(p) THEN 1 + jitter[p] ELSE UpTo(time + since))
                   ELSE VoiceLimit + 1
    BY <1>1, <2>1 DEF VoiceTimes, VoiceTime, Silent
  <2>4. times[p] \in Nat  BY <1>5, <2>2, <2>3
  <2>5. ASSUME p \in talkers PROVE times[p] >= unbroken'[p]
    <3>1. CASE Starts(p)  BY <1>2, <1>4, <2>2, <2>3, <2>5, <3>1
    <3>2. CASE ~Starts(p)
      <4>1. times[p] = UpTo(time + since) /\ unbroken'[p] = UpTo(before + 1)
        BY <1>2, <1>4, <2>1, <2>3, <2>5, <3>2
      <4>2. time # 0  BY <2>1, <3>2 DEF Starts
      <4>3. before + 1 <= time + since
        <5>1. CASE p \in heardNow  BY <2>1, <2>2, <5>1 DEF TagsInv, TalkersListed
        <5>2. CASE p \notin heardNow
          <6>1. before = 0  BY <2>1, <5>2 DEF TagsInv
          <6>2. QED  BY <2>2, <4>2, <6>1
        <5>3. QED  BY <5>1, <5>2
      <4>4. UpTo(before + 1) <= UpTo(time + since) /\ UpTo(before + 1) \in Nat /\ UpTo(time + since) \in Nat
        BY <1>5, <2>2, <4>3
      <4>5. QED  BY <4>1, <4>4
    <3>3. QED  BY <3>1, <3>2
  <2>6. QED  BY <2>4, <2>5
<1>7. PICK listed : listed = {p \in talkers : times[p] < VoiceLimit}  OBVIOUS
<1>8. PICK n : n = Len(o)  OBVIOUS
<1>9. /\ n \in Nat /\ n = Cardinality(listed) /\ o \in [1 .. n -> listed]
      /\ \A i, j \in 1 .. n : i # j => o[i] # o[j]
      /\ \A i, j \in 1 .. n : i < j => times[o[i]] <= times[o[j]]
      /\ IsFiniteSet(listed)
  <2>1. IsFiniteSet(listed)  BY <1>2, <1>7, FS_Subset
  <2>2. Cardinality(listed) \in Nat  BY <2>1, FS_CardinalityType
  <2>3. o \in SetToSeqs(listed) /\ \A i, j \in 1 .. Len(o) : i < j => times[o[i]] <= times[o[j]]
    BY <1>7 DEF Orders
  <2>4. o \in [1 .. Cardinality(listed) -> listed]
        /\ \A i, j \in 1 .. Cardinality(listed) : i # j => o[i] # o[j]
    BY <2>3 DEF SetToSeqs
  <2>5. Len(o) = Cardinality(listed)  BY <2>2, <2>4
  <2>6. QED  BY <1>8, <2>1, <2>2, <2>3, <2>4, <2>5
<1>10. \A p \in listed : \E i \in 1 .. n : o[i] = p
  <2>1. o \in Injection(1 .. n, listed)  BY <1>9 DEF Injection, IsInjective
  <2>2. Cardinality(1 .. n) = Cardinality(listed)  BY <1>9, FS_Interval
  <2>3. o \in Surjection(1 .. n, listed)  BY <1>9, <2>1, <2>2, FS_Injection
  <2>4. QED  BY <2>3 DEF Surjection
<1>11. PICK m : m = IF n < VoiceRows THEN n ELSE VoiceRows  OBVIOUS
<1>12. PICK r : r = voiceRows'  OBVIOUS
<1>13. m \in Nat /\ m <= n /\ r = [i \in 1 .. m |-> o[i]] /\ Len(r) = m
  <2>1. m \in Nat /\ m <= n  BY <1>9, <1>11
  <2>2. r = [i \in 1 .. m |-> o[i]]  BY <1>3, <1>8, <1>11, <1>12
  <2>3. QED  BY <2>1, <2>2
<1>14. TalkersListed'
  <2>1. ASSUME NEW i \in 1 .. m
        PROVE  /\ r[i] \in talkers
               /\ \A j \in 1 .. i - 1 : r[j] # r[i] /\ times[r[j]] <= times[r[i]]
    <3>1. i \in 1 .. n /\ r[i] = o[i]  BY <1>9, <1>13
    <3>2. r[i] \in talkers  BY <1>7, <1>9, <3>1
    <3>3. ASSUME NEW j \in 1 .. i - 1 PROVE r[j] # r[i] /\ times[r[j]] <= times[r[i]]
      <4>1. j \in 1 .. n /\ j \in 1 .. m /\ j < i /\ j # i  BY <1>9, <1>13, <3>1
      <4>2. r[j] = o[j]  BY <1>13, <4>1
      <4>3. QED  BY <1>9, <3>1, <4>1, <4>2
    <3>4. QED  BY <3>2, <3>3
  <2>2. ASSUME NEW p \in talkers
        PROVE  (\E i \in 1 .. m : r[i] = p) \/ times[p] >= VoiceLimit \/ m = VoiceRows
    <3>1. p \in Tagged /\ times[p] \in Nat  BY <1>2, <1>6
    <3>2. CASE p \in listed /\ m # VoiceRows
      <4>1. m = n  BY <1>11, <3>2
      <4>2. PICK i \in 1 .. n : o[i] = p  BY <1>10, <3>2
      <4>3. QED  BY <1>13, <4>1, <4>2
    <3>3. QED  BY <1>7, <3>1, <3>2
  <2>3. \A p \in talkers : times[p] >= unbroken'[p]  BY <1>2, <1>6
  <2>4. QED  BY <1>4, <1>12, <1>13, <2>1, <2>2, <2>3 DEF TalkersListed
<1>15. /\ m_iVoiceTime' \in [Tagged -> Nat] /\ sinceUpdated' \in [Tagged -> Nat] /\ unbroken' \in [Tagged -> Nat]
  <2>1. m_iVoiceTime' \in [Tagged -> Nat]
    <3>1. DOMAIN times = Tagged /\ times = [p \in Tagged |-> times[p]]  BY <1>1 DEF VoiceTimes
    <3>2. QED  BY <1>4, <1>6, <3>1
  <2>2. \A p \in Tagged : UpTo(sinceUpdated[p] + 1) \in Nat /\ UpTo(unbroken[p] + 1) \in Nat
    BY <1>5 DEF TagsInv
  <2>3. QED  BY <1>4, <2>1, <2>2
<1>16. /\ heardNow' \in SUBSET Tagged /\ \A p \in Tagged : p \notin heardNow' => unbroken'[p] = 0
       /\ \A p \in heardNow' : sinceUpdated'[p] = 1
  BY <1>2, <1>4
<1>17. QED  BY <1>14, <1>15, <1>16 DEF TagsInv

LEMMA FirstPlaces ==
    ASSUME NEW N \in Nat, NEW k \in 1 .. N
    PROVE  /\ 1 .. k \in SUBSET (1 .. N) /\ 1 .. k # {} /\ 1 .. k - 1 \in SUBSET (1 .. N)
           /\ Max(1 .. k) = k /\ (1 .. k) \ {k} = 1 .. k - 1
<1>0. k \in Nat /\ 1 <= k  OBVIOUS
<1>1. k \in Nat /\ k \in 1 .. k  BY <1>0
<1>2. \A i \in 1 .. k : i \in 1 .. N /\ i \in 0 .. k  OBVIOUS
<1>3. \A i \in 1 .. k - 1 : i \in 1 .. N  OBVIOUS
<1>4. \A i : i \in (1 .. k) \ {k} <=> i \in 1 .. k - 1  BY <1>1
<1>5. Max(1 .. k) = k
  <2>1. 1 .. k \in SUBSET (0 .. k)  BY <1>2, Zenon
  <2>2. 1 .. k # {}  BY <1>1, Zenon
  <2>3. Max(1 .. k) \in 1 .. k /\ \A x \in 1 .. k : x <= Max(1 .. k)  BY <1>1, <2>1, <2>2, GreatestOf, Zenon
  <2>4. PICK m : m = Max(1 .. k)  OBVIOUS
  <2>5. m \in 1 .. k /\ k <= m  BY <1>1, <2>3, <2>4, Zenon
  <2>6. m = k  BY <1>1, <2>5
  <2>7. QED  BY <2>4, <2>6
<1>6. 1 .. k \in SUBSET (1 .. N) /\ 1 .. k - 1 \in SUBSET (1 .. N)  BY <1>2, <1>3, Zenon
<1>7. (1 .. k) \ {k} = 1 .. k - 1  BY <1>4, Zenon
<1>8. 1 .. k # {}  BY <1>1, Zenon
<1>9. QED  BY <1>5, <1>6, <1>7, <1>8, Zenon

(* Induction up to N. *)
LEMMA Reaches ==
    ASSUME NEW N \in Nat, NEW G, 0 \in G, \A k \in 1 .. N : k - 1 \in G => k \in G
    PROVE  \A k \in 0 .. N : k \in G
<1> DEFINE R == {k \in 0 .. N : k \notin G}
<1> SUFFICES ASSUME R # {} PROVE FALSE  OBVIOUS
<1>1. PICK m \in R : \A k \in R : <<k, m>> \notin OpToRel(<, Nat)
  <2>1. R \in SUBSET Nat  OBVIOUS
  <2> HIDE DEF R
  <2> QED  BY <2>1, NatLessThanWellFounded, WFMin
<1>2. m \in 1 .. N /\ m - 1 \in 0 .. N /\ m - 1 < m
  <2>1. m \in 0 .. N /\ m # 0  BY <1>1
  <2>2. QED  BY <2>1
<1>3. m - 1 \in R  BY <1>1, <1>2
<1>4. <<m - 1, m>> \in OpToRel(<, Nat)  BY <1>2 DEF OpToRel
<1>5. QED  BY <1>1, <1>3, <1>4

(* A table whose row for a set folds the values at the set's places, in order. *)
Fills(g, N, base, op, q) ==
    \A s \in SUBSET (1 .. N) : g[s] = IF s = {} THEN base ELSE op[<<g[s \ {Max(s)}], q[Max(s)]>>]

LEMMA StepsExist ==
    ASSUME NEW N \in Nat, NEW S, NEW q \in [1 .. N -> S], NEW V, NEW base \in V, NEW op \in [V \X S -> V]
    PROVE  \E g \in [SUBSET (1 .. N) -> V] : Fills(g, N, base, op, q)
<1> DEFINE D == 1 .. N
           pick == [s \in SUBSET D |-> Max(s)]
           turned == [p \in D \X V |-> op[<<p[2], q[p[1]]>>]]
<1>1. IsFiniteSet(D)  BY FS_Interval, 1 \in Int, N \in Int
<1>2. \A s \in SUBSET D : pick[s] = Max(s) /\ (s # {} => Max(s) \in s)
  <2> TAKE s \in SUBSET D
  <2>1. s \in SUBSET (0 .. N)  OBVIOUS
  <2>2. s # {} => Max(s) \in s  BY <2>1, GreatestOf
  <2>3. QED  BY <2>2
<1>3. turned \in [D \X V -> V]
  <2>1. \A p \in D \X V : q[p[1]] \in S /\ p[2] \in V  OBVIOUS
  <2> HIDE DEF D
  <2>2. \A p \in D \X V : op[<<p[2], q[p[1]]>>] \in V  BY <2>1
  <2>3. QED  BY <2>2
<1>4. PICK g \in [SUBSET D -> V] : FoldsBy(pick, g, D, base, turned)
  <2>1. \A s \in SUBSET D : s # {} => pick[s] \in s  BY <1>2
  <2> HIDE DEF D, pick, turned
  <2>2. QED  BY <1>1, <1>3, <2>1, FoldByExists
<1>5. \A s \in SUBSET D : g[s] = IF s = {} THEN base ELSE turned[<<pick[s], g[s \ {pick[s]}]>>]
  <2> HIDE DEF D, pick, turned
  <2>1. g = [s \in SUBSET D |-> IF s = {} THEN base ELSE turned[<<pick[s], g[s \ {pick[s]}]>>]]
    BY <1>4, Zenon DEF FoldsBy
  <2>2. QED  BY <2>1
<1>6. ASSUME NEW s \in SUBSET D, s # {}
      PROVE  turned[<<pick[s], g[s \ {pick[s]}]>>] = op[<<g[s \ {Max(s)}], q[Max(s)]>>]
  <2>1. Max(s) \in D /\ pick[s] = Max(s) /\ s \ {Max(s)} \in SUBSET D  BY <1>2, <1>6
  <2>2. g[s \ {Max(s)}] \in V  BY <2>1
  <2> HIDE DEF D, pick
  <2>3. QED  BY <2>1, <2>2
<1>7. ASSUME NEW s \in SUBSET D
      PROVE  g[s] = IF s = {} THEN base ELSE op[<<g[s \ {Max(s)}], q[Max(s)]>>]
  <2> HIDE DEF D, pick, turned
  <2>1. QED  BY <1>5, <1>6
<1>8. Fills(g, N, base, op, q)
  <2> HIDE DEF pick, turned
  <2> QED  BY <1>7 DEF Fills
<1>9. QED  BY <1>4, <1>8

-----------------------------------------------------------------------------
(* Folds over sequences, step by step *)

(* FilterColors, symbol by symbol: run[k] is what it has after k of them. *)
SkimFold(t, base, q) == FoldLeft(LAMBDA s, c : SkimSymbol(t, s, c), base, q)

SkimRun(t, run, N, base, q) ==
    /\ run[0] = base
    /\ \A k \in 1 .. N : run[k] = SkimSymbol(t, run[k - 1], q[k])
    /\ run[N] = SkimFold(t, base, q)

LEMMA SkimRuns ==
    ASSUME NEW t, NEW S, NEW V, NEW base \in V, NEW N \in Nat, NEW q \in [1 .. N -> S],
           \A s \in V : \A x \in S : SkimSymbol(t, s, x) \in V
    PROVE  \E run \in [0 .. N -> V] : SkimRun(t, run, N, base, q)
<1> DEFINE D == 1 .. N
           Table(iter) ==
               iter = [s \in SUBSET D |->
                          IF s = {} THEN base ELSE SkimSymbol(t, iter[s \ {Max(s)}], q[Max(s)])]
           table == CHOOSE iter : Table(iter)
           op == [p \in V \X S |-> SkimSymbol(t, p[1], p[2])]
<1>1. SkimFold(t, base, q) = table[D]
  BY DEF SkimFold, FoldLeft, MapThenFoldSet
<1>2. op \in [V \X S -> V]  OBVIOUS
<1>3. PICK g \in [SUBSET (1 .. N) -> V] : Fills(g, N, base, op, q)
  <2> HIDE DEF op
  <2> QED  BY <1>2, StepsExist
<1>4. \A s \in V, x \in S : op[<<s, x>>] = SkimSymbol(t, s, x)  OBVIOUS
<1> HIDE DEF op
<1>5. ASSUME NEW s \in SUBSET D, s # {}
      PROVE  op[<<g[s \ {Max(s)}], q[Max(s)]>>] = SkimSymbol(t, g[s \ {Max(s)}], q[Max(s)])
  <2>1. s \in SUBSET (0 .. N)  OBVIOUS
  <2>2. Max(s) \in D /\ s \ {Max(s)} \in SUBSET D  BY <1>5, <2>1, GreatestOf
  <2>3. g[s \ {Max(s)}] \in V /\ q[Max(s)] \in S  BY <2>2
  <2> HIDE DEF D
  <2>4. QED  BY <1>4, <2>3
<1>6. Table(g)
  <2>1. g = [s \in SUBSET D |-> g[s]]  BY <1>3
  <2>2. \A s \in SUBSET D : g[s] = IF s = {} THEN base ELSE SkimSymbol(t, g[s \ {Max(s)}], q[Max(s)])
    BY <1>3, <1>5 DEF Fills
  <2> HIDE DEF D
  <2>3. QED  BY <2>1, <2>2, Zenon
<1>7. Table(table)
  <2> HIDE DEF Table
  <2> QED  BY <1>6
<1> HIDE DEF table
<1> DEFINE run == [k \in 0 .. N |-> table[1 .. k]]
<1>8. run[0] = base  BY <1>7
<1>9. ASSUME NEW k \in 1 .. N PROVE run[k] = SkimSymbol(t, run[k - 1], q[k])
  <2>0. k - 1 \in 0 .. N /\ k \in 0 .. N  OBVIOUS
  <2>1. 1 .. k \in SUBSET (1 .. N) /\ 1 .. k # {} /\ Max(1 .. k) = k /\ (1 .. k) \ {k} = 1 .. k - 1
    BY FirstPlaces
  <2>2. run[k] = table[1 .. k] /\ run[k - 1] = table[1 .. k - 1]  BY <2>0
  <2>5. 1 .. k \in SUBSET D  BY <2>1
  <2> HIDE DEF run, D
  <2>3. table[1 .. k] = SkimSymbol(t, table[(1 .. k) \ {Max(1 .. k)}], q[Max(1 .. k)])  BY <1>7, <2>1, <2>5
  <2>4. QED  BY <2>1, <2>2, <2>3
<1>10. run[N] = table[D] /\ DOMAIN run = 0 .. N /\ run = [k \in 0 .. N |-> run[k]]  OBVIOUS
<1> HIDE DEF run, D
<1> DEFINE G == {m \in 0 .. N : run[m] \in V}
<1>11. 0 \in G  BY <1>8
<1>12. ASSUME NEW k \in 1 .. N, k - 1 \in G PROVE k \in G
  <2>1. run[k - 1] \in V /\ q[k] \in S /\ k \in 0 .. N  BY <1>12
  <2>2. run[k] \in V  BY <1>9, <2>1
  <2>3. QED  BY <2>1, <2>2
<1>13. \A k \in 0 .. N : k \in G
  <2> HIDE DEF G
  <2> QED  BY <1>11, <1>12, Reaches
<1>14. run \in [0 .. N -> V]  BY <1>10, <1>13
<1>15. SkimRun(t, run, N, base, q)  BY <1>1, <1>8, <1>9, <1>10 DEF SkimRun
<1>16. QED  BY <1>14, <1>15

(* RenderChat, likewise. *)
DrawFold(t, base, q) == FoldLeft(LAMBDA s, c : DrawSymbol(t, s, c), base, q)

DrawRun(t, run, N, base, q) ==
    /\ run[0] = base
    /\ \A k \in 1 .. N : run[k] = DrawSymbol(t, run[k - 1], q[k])
    /\ run[N] = DrawFold(t, base, q)

LEMMA DrawRuns ==
    ASSUME NEW t, NEW S, NEW V, NEW base \in V, NEW N \in Nat, NEW q \in [1 .. N -> S],
           \A s \in V : \A x \in S : DrawSymbol(t, s, x) \in V
    PROVE  \E run \in [0 .. N -> V] : DrawRun(t, run, N, base, q)
<1> DEFINE D == 1 .. N
           Table(iter) ==
               iter = [s \in SUBSET D |->
                          IF s = {} THEN base ELSE DrawSymbol(t, iter[s \ {Max(s)}], q[Max(s)])]
           table == CHOOSE iter : Table(iter)
           op == [p \in V \X S |-> DrawSymbol(t, p[1], p[2])]
<1>1. DrawFold(t, base, q) = table[D]
  BY DEF DrawFold, FoldLeft, MapThenFoldSet
<1>2. op \in [V \X S -> V]  OBVIOUS
<1>3. PICK g \in [SUBSET (1 .. N) -> V] : Fills(g, N, base, op, q)
  <2> HIDE DEF op
  <2> QED  BY <1>2, StepsExist
<1>4. \A s \in V, x \in S : op[<<s, x>>] = DrawSymbol(t, s, x)  OBVIOUS
<1> HIDE DEF op
<1>5. ASSUME NEW s \in SUBSET D, s # {}
      PROVE  op[<<g[s \ {Max(s)}], q[Max(s)]>>] = DrawSymbol(t, g[s \ {Max(s)}], q[Max(s)])
  <2>1. s \in SUBSET (0 .. N)  OBVIOUS
  <2>2. Max(s) \in D /\ s \ {Max(s)} \in SUBSET D  BY <1>5, <2>1, GreatestOf
  <2>3. g[s \ {Max(s)}] \in V /\ q[Max(s)] \in S  BY <2>2
  <2> HIDE DEF D
  <2>4. QED  BY <1>4, <2>3
<1>6. Table(g)
  <2>1. g = [s \in SUBSET D |-> g[s]]  BY <1>3
  <2>2. \A s \in SUBSET D : g[s] = IF s = {} THEN base ELSE DrawSymbol(t, g[s \ {Max(s)}], q[Max(s)])
    BY <1>3, <1>5 DEF Fills
  <2> HIDE DEF D
  <2>3. QED  BY <2>1, <2>2, Zenon
<1>7. Table(table)
  <2> HIDE DEF Table
  <2> QED  BY <1>6
<1> HIDE DEF table
<1> DEFINE run == [k \in 0 .. N |-> table[1 .. k]]
<1>8. run[0] = base  BY <1>7
<1>9. ASSUME NEW k \in 1 .. N PROVE run[k] = DrawSymbol(t, run[k - 1], q[k])
  <2>0. k - 1 \in 0 .. N /\ k \in 0 .. N  OBVIOUS
  <2>1. 1 .. k \in SUBSET (1 .. N) /\ 1 .. k # {} /\ Max(1 .. k) = k /\ (1 .. k) \ {k} = 1 .. k - 1
    BY FirstPlaces
  <2>2. run[k] = table[1 .. k] /\ run[k - 1] = table[1 .. k - 1]  BY <2>0
  <2>5. 1 .. k \in SUBSET D  BY <2>1
  <2> HIDE DEF run, D
  <2>3. table[1 .. k] = DrawSymbol(t, table[(1 .. k) \ {Max(1 .. k)}], q[Max(1 .. k)])  BY <1>7, <2>1, <2>5
  <2>4. QED  BY <2>1, <2>2, <2>3
<1>10. run[N] = table[D] /\ DOMAIN run = 0 .. N /\ run = [k \in 0 .. N |-> run[k]]  OBVIOUS
<1> HIDE DEF run, D
<1> DEFINE G == {m \in 0 .. N : run[m] \in V}
<1>11. 0 \in G  BY <1>8
<1>12. ASSUME NEW k \in 1 .. N, k - 1 \in G PROVE k \in G
  <2>1. run[k - 1] \in V /\ q[k] \in S /\ k \in 0 .. N  BY <1>12
  <2>2. run[k] \in V  BY <1>9, <2>1
  <2>3. QED  BY <2>1, <2>2
<1>13. \A k \in 0 .. N : k \in G
  <2> HIDE DEF G
  <2> QED  BY <1>11, <1>12, Reaches
<1>14. run \in [0 .. N -> V]  BY <1>10, <1>13
<1>15. DrawRun(t, run, N, base, q)  BY <1>1, <1>8, <1>9, <1>10 DEF DrawRun
<1>16. QED  BY <1>14, <1>15

(* TextWithColors. *)
ReadFold(t, keeps, base, q) == FoldLeft(LAMBDA s, c : ReadSymbol(t, keeps, s, c), base, q)

ReadRun(t, keeps, run, N, base, q) ==
    /\ run[0] = base
    /\ \A k \in 1 .. N : run[k] = ReadSymbol(t, keeps, run[k - 1], q[k])
    /\ run[N] = ReadFold(t, keeps, base, q)

LEMMA ReadRuns ==
    ASSUME NEW t, NEW keeps, NEW S, NEW V, NEW base \in V, NEW N \in Nat, NEW q \in [1 .. N -> S],
           \A s \in V : \A x \in S : ReadSymbol(t, keeps, s, x) \in V
    PROVE  \E run \in [0 .. N -> V] : ReadRun(t, keeps, run, N, base, q)
<1> DEFINE D == 1 .. N
           Table(iter) ==
               iter = [s \in SUBSET D |->
                          IF s = {} THEN base ELSE ReadSymbol(t, keeps, iter[s \ {Max(s)}], q[Max(s)])]
           table == CHOOSE iter : Table(iter)
           op == [p \in V \X S |-> ReadSymbol(t, keeps, p[1], p[2])]
<1>1. ReadFold(t, keeps, base, q) = table[D]
  BY DEF ReadFold, FoldLeft, MapThenFoldSet
<1>2. op \in [V \X S -> V]  OBVIOUS
<1>3. PICK g \in [SUBSET (1 .. N) -> V] : Fills(g, N, base, op, q)
  <2> HIDE DEF op
  <2> QED  BY <1>2, StepsExist
<1>4. \A s \in V, x \in S : op[<<s, x>>] = ReadSymbol(t, keeps, s, x)  OBVIOUS
<1> HIDE DEF op
<1>5. ASSUME NEW s \in SUBSET D, s # {}
      PROVE  op[<<g[s \ {Max(s)}], q[Max(s)]>>] = ReadSymbol(t, keeps, g[s \ {Max(s)}], q[Max(s)])
  <2>1. s \in SUBSET (0 .. N)  OBVIOUS
  <2>2. Max(s) \in D /\ s \ {Max(s)} \in SUBSET D  BY <1>5, <2>1, GreatestOf
  <2>3. g[s \ {Max(s)}] \in V /\ q[Max(s)] \in S  BY <2>2
  <2> HIDE DEF D
  <2>4. QED  BY <1>4, <2>3
<1>6. Table(g)
  <2>1. g = [s \in SUBSET D |-> g[s]]  BY <1>3
  <2>2. \A s \in SUBSET D : g[s] = IF s = {} THEN base ELSE ReadSymbol(t, keeps, g[s \ {Max(s)}], q[Max(s)])
    BY <1>3, <1>5 DEF Fills
  <2> HIDE DEF D
  <2>3. QED  BY <2>1, <2>2, Zenon
<1>7. Table(table)
  <2> HIDE DEF Table
  <2> QED  BY <1>6
<1> HIDE DEF table
<1> DEFINE run == [k \in 0 .. N |-> table[1 .. k]]
<1>8. run[0] = base  BY <1>7
<1>9. ASSUME NEW k \in 1 .. N PROVE run[k] = ReadSymbol(t, keeps, run[k - 1], q[k])
  <2>0. k - 1 \in 0 .. N /\ k \in 0 .. N  OBVIOUS
  <2>1. 1 .. k \in SUBSET (1 .. N) /\ 1 .. k # {} /\ Max(1 .. k) = k /\ (1 .. k) \ {k} = 1 .. k - 1
    BY FirstPlaces
  <2>2. run[k] = table[1 .. k] /\ run[k - 1] = table[1 .. k - 1]  BY <2>0
  <2>5. 1 .. k \in SUBSET D  BY <2>1
  <2> HIDE DEF run, D
  <2>3. table[1 .. k] = ReadSymbol(t, keeps, table[(1 .. k) \ {Max(1 .. k)}], q[Max(1 .. k)])  BY <1>7, <2>1, <2>5
  <2>4. QED  BY <2>1, <2>2, <2>3
<1>10. run[N] = table[D] /\ DOMAIN run = 0 .. N /\ run = [k \in 0 .. N |-> run[k]]  OBVIOUS
<1> HIDE DEF run, D
<1> DEFINE G == {m \in 0 .. N : run[m] \in V}
<1>11. 0 \in G  BY <1>8
<1>12. ASSUME NEW k \in 1 .. N, k - 1 \in G PROVE k \in G
  <2>1. run[k - 1] \in V /\ q[k] \in S /\ k \in 0 .. N  BY <1>12
  <2>2. run[k] \in V  BY <1>9, <2>1
  <2>3. QED  BY <2>1, <2>2
<1>13. \A k \in 0 .. N : k \in G
  <2> HIDE DEF G
  <2> QED  BY <1>11, <1>12, Reaches
<1>14. run \in [0 .. N -> V]  BY <1>10, <1>13
<1>15. ReadRun(t, keeps, run, N, base, q)  BY <1>1, <1>8, <1>9, <1>10 DEF ReadRun
<1>16. QED  BY <1>14, <1>15

(* Lines. *)
LineFold(ends, base, q) == FoldLeft(LAMBDA s, c : LineSymbol(ends, s, c), base, q)

LineRun(ends, run, N, base, q) ==
    /\ run[0] = base
    /\ \A k \in 1 .. N : run[k] = LineSymbol(ends, run[k - 1], q[k])
    /\ run[N] = LineFold(ends, base, q)

LEMMA LineRuns ==
    ASSUME NEW ends, NEW S, NEW V, NEW base \in V, NEW N \in Nat, NEW q \in [1 .. N -> S],
           \A s \in V : \A x \in S : LineSymbol(ends, s, x) \in V
    PROVE  \E run \in [0 .. N -> V] : LineRun(ends, run, N, base, q)
<1> DEFINE D == 1 .. N
           Table(iter) ==
               iter = [s \in SUBSET D |->
                          IF s = {} THEN base ELSE LineSymbol(ends, iter[s \ {Max(s)}], q[Max(s)])]
           table == CHOOSE iter : Table(iter)
           op == [p \in V \X S |-> LineSymbol(ends, p[1], p[2])]
<1>1. LineFold(ends, base, q) = table[D]
  BY DEF LineFold, FoldLeft, MapThenFoldSet
<1>2. op \in [V \X S -> V]  OBVIOUS
<1>3. PICK g \in [SUBSET (1 .. N) -> V] : Fills(g, N, base, op, q)
  <2> HIDE DEF op
  <2> QED  BY <1>2, StepsExist
<1>4. \A s \in V, x \in S : op[<<s, x>>] = LineSymbol(ends, s, x)  OBVIOUS
<1> HIDE DEF op
<1>5. ASSUME NEW s \in SUBSET D, s # {}
      PROVE  op[<<g[s \ {Max(s)}], q[Max(s)]>>] = LineSymbol(ends, g[s \ {Max(s)}], q[Max(s)])
  <2>1. s \in SUBSET (0 .. N)  OBVIOUS
  <2>2. Max(s) \in D /\ s \ {Max(s)} \in SUBSET D  BY <1>5, <2>1, GreatestOf
  <2>3. g[s \ {Max(s)}] \in V /\ q[Max(s)] \in S  BY <2>2
  <2> HIDE DEF D
  <2>4. QED  BY <1>4, <2>3
<1>6. Table(g)
  <2>1. g = [s \in SUBSET D |-> g[s]]  BY <1>3
  <2>2. \A s \in SUBSET D : g[s] = IF s = {} THEN base ELSE LineSymbol(ends, g[s \ {Max(s)}], q[Max(s)])
    BY <1>3, <1>5 DEF Fills
  <2> HIDE DEF D
  <2>3. QED  BY <2>1, <2>2, Zenon
<1>7. Table(table)
  <2> HIDE DEF Table
  <2> QED  BY <1>6
<1> HIDE DEF table
<1> DEFINE run == [k \in 0 .. N |-> table[1 .. k]]
<1>8. run[0] = base  BY <1>7
<1>9. ASSUME NEW k \in 1 .. N PROVE run[k] = LineSymbol(ends, run[k - 1], q[k])
  <2>0. k - 1 \in 0 .. N /\ k \in 0 .. N  OBVIOUS
  <2>1. 1 .. k \in SUBSET (1 .. N) /\ 1 .. k # {} /\ Max(1 .. k) = k /\ (1 .. k) \ {k} = 1 .. k - 1
    BY FirstPlaces
  <2>2. run[k] = table[1 .. k] /\ run[k - 1] = table[1 .. k - 1]  BY <2>0
  <2>5. 1 .. k \in SUBSET D  BY <2>1
  <2> HIDE DEF run, D
  <2>3. table[1 .. k] = LineSymbol(ends, table[(1 .. k) \ {Max(1 .. k)}], q[Max(1 .. k)])  BY <1>7, <2>1, <2>5
  <2>4. QED  BY <2>1, <2>2, <2>3
<1>10. run[N] = table[D] /\ DOMAIN run = 0 .. N /\ run = [k \in 0 .. N |-> run[k]]  OBVIOUS
<1> HIDE DEF run, D
<1> DEFINE G == {m \in 0 .. N : run[m] \in V}
<1>11. 0 \in G  BY <1>8
<1>12. ASSUME NEW k \in 1 .. N, k - 1 \in G PROVE k \in G
  <2>1. run[k - 1] \in V /\ q[k] \in S /\ k \in 0 .. N  BY <1>12
  <2>2. run[k] \in V  BY <1>9, <2>1
  <2>3. QED  BY <2>1, <2>2
<1>13. \A k \in 0 .. N : k \in G
  <2> HIDE DEF G
  <2> QED  BY <1>11, <1>12, Reaches
<1>14. run \in [0 .. N -> V]  BY <1>10, <1>13
<1>15. LineRun(ends, run, N, base, q)  BY <1>1, <1>8, <1>9, <1>10 DEF LineRun
<1>16. QED  BY <1>14, <1>15

(* firstTabs. *)
KeepFold(rows, base, q) == FoldLeft(LAMBDA s, c : KeepText(rows, s, c), base, q)

KeepRun(rows, run, N, base, q) ==
    /\ run[0] = base
    /\ \A k \in 1 .. N : run[k] = KeepText(rows, run[k - 1], q[k])
    /\ run[N] = KeepFold(rows, base, q)

LEMMA KeepRuns ==
    ASSUME NEW rows, NEW S, NEW V, NEW base \in V, NEW N \in Nat, NEW q \in [1 .. N -> S],
           \A s \in V : \A x \in S : KeepText(rows, s, x) \in V
    PROVE  \E run \in [0 .. N -> V] : KeepRun(rows, run, N, base, q)
<1> DEFINE D == 1 .. N
           Table(iter) ==
               iter = [s \in SUBSET D |->
                          IF s = {} THEN base ELSE KeepText(rows, iter[s \ {Max(s)}], q[Max(s)])]
           table == CHOOSE iter : Table(iter)
           op == [p \in V \X S |-> KeepText(rows, p[1], p[2])]
<1>1. KeepFold(rows, base, q) = table[D]
  BY DEF KeepFold, FoldLeft, MapThenFoldSet
<1>2. op \in [V \X S -> V]  OBVIOUS
<1>3. PICK g \in [SUBSET (1 .. N) -> V] : Fills(g, N, base, op, q)
  <2> HIDE DEF op
  <2> QED  BY <1>2, StepsExist
<1>4. \A s \in V, x \in S : op[<<s, x>>] = KeepText(rows, s, x)  OBVIOUS
<1> HIDE DEF op
<1>5. ASSUME NEW s \in SUBSET D, s # {}
      PROVE  op[<<g[s \ {Max(s)}], q[Max(s)]>>] = KeepText(rows, g[s \ {Max(s)}], q[Max(s)])
  <2>1. s \in SUBSET (0 .. N)  OBVIOUS
  <2>2. Max(s) \in D /\ s \ {Max(s)} \in SUBSET D  BY <1>5, <2>1, GreatestOf
  <2>3. g[s \ {Max(s)}] \in V /\ q[Max(s)] \in S  BY <2>2
  <2> HIDE DEF D
  <2>4. QED  BY <1>4, <2>3
<1>6. Table(g)
  <2>1. g = [s \in SUBSET D |-> g[s]]  BY <1>3
  <2>2. \A s \in SUBSET D : g[s] = IF s = {} THEN base ELSE KeepText(rows, g[s \ {Max(s)}], q[Max(s)])
    BY <1>3, <1>5 DEF Fills
  <2> HIDE DEF D
  <2>3. QED  BY <2>1, <2>2, Zenon
<1>7. Table(table)
  <2> HIDE DEF Table
  <2> QED  BY <1>6
<1> HIDE DEF table
<1> DEFINE run == [k \in 0 .. N |-> table[1 .. k]]
<1>8. run[0] = base  BY <1>7
<1>9. ASSUME NEW k \in 1 .. N PROVE run[k] = KeepText(rows, run[k - 1], q[k])
  <2>0. k - 1 \in 0 .. N /\ k \in 0 .. N  OBVIOUS
  <2>1. 1 .. k \in SUBSET (1 .. N) /\ 1 .. k # {} /\ Max(1 .. k) = k /\ (1 .. k) \ {k} = 1 .. k - 1
    BY FirstPlaces
  <2>2. run[k] = table[1 .. k] /\ run[k - 1] = table[1 .. k - 1]  BY <2>0
  <2>5. 1 .. k \in SUBSET D  BY <2>1
  <2> HIDE DEF run, D
  <2>3. table[1 .. k] = KeepText(rows, table[(1 .. k) \ {Max(1 .. k)}], q[Max(1 .. k)])  BY <1>7, <2>1, <2>5
  <2>4. QED  BY <2>1, <2>2, <2>3
<1>10. run[N] = table[D] /\ DOMAIN run = 0 .. N /\ run = [k \in 0 .. N |-> run[k]]  OBVIOUS
<1> HIDE DEF run, D
<1> DEFINE G == {m \in 0 .. N : run[m] \in V}
<1>11. 0 \in G  BY <1>8
<1>12. ASSUME NEW k \in 1 .. N, k - 1 \in G PROVE k \in G
  <2>1. run[k - 1] \in V /\ q[k] \in S /\ k \in 0 .. N  BY <1>12
  <2>2. run[k] \in V  BY <1>9, <2>1
  <2>3. QED  BY <2>1, <2>2
<1>13. \A k \in 0 .. N : k \in G
  <2> HIDE DEF G
  <2> QED  BY <1>11, <1>12, Reaches
<1>14. run \in [0 .. N -> V]  BY <1>10, <1>13
<1>15. KeepRun(rows, run, N, base, q)  BY <1>1, <1>8, <1>9, <1>10 DEF KeepRun
<1>16. QED  BY <1>14, <1>15

(* RowColumns. *)
PlaceFold(n, base, q) == FoldLeft(LAMBDA s, c : PlaceRow(n, s, c), base, q)

PlaceRun(n, run, N, base, q) ==
    /\ run[0] = base
    /\ \A k \in 1 .. N : run[k] = PlaceRow(n, run[k - 1], q[k])
    /\ run[N] = PlaceFold(n, base, q)

LEMMA PlaceRuns ==
    ASSUME NEW n, NEW S, NEW V, NEW base \in V, NEW N \in Nat, NEW q \in [1 .. N -> S],
           \A s \in V : \A x \in S : PlaceRow(n, s, x) \in V
    PROVE  \E run \in [0 .. N -> V] : PlaceRun(n, run, N, base, q)
<1> DEFINE D == 1 .. N
           Table(iter) ==
               iter = [s \in SUBSET D |->
                          IF s = {} THEN base ELSE PlaceRow(n, iter[s \ {Max(s)}], q[Max(s)])]
           table == CHOOSE iter : Table(iter)
           op == [p \in V \X S |-> PlaceRow(n, p[1], p[2])]
<1>1. PlaceFold(n, base, q) = table[D]
  BY DEF PlaceFold, FoldLeft, MapThenFoldSet
<1>2. op \in [V \X S -> V]  OBVIOUS
<1>3. PICK g \in [SUBSET (1 .. N) -> V] : Fills(g, N, base, op, q)
  <2> HIDE DEF op
  <2> QED  BY <1>2, StepsExist
<1>4. \A s \in V, x \in S : op[<<s, x>>] = PlaceRow(n, s, x)  OBVIOUS
<1> HIDE DEF op
<1>5. ASSUME NEW s \in SUBSET D, s # {}
      PROVE  op[<<g[s \ {Max(s)}], q[Max(s)]>>] = PlaceRow(n, g[s \ {Max(s)}], q[Max(s)])
  <2>1. s \in SUBSET (0 .. N)  OBVIOUS
  <2>2. Max(s) \in D /\ s \ {Max(s)} \in SUBSET D  BY <1>5, <2>1, GreatestOf
  <2>3. g[s \ {Max(s)}] \in V /\ q[Max(s)] \in S  BY <2>2
  <2> HIDE DEF D
  <2>4. QED  BY <1>4, <2>3
<1>6. Table(g)
  <2>1. g = [s \in SUBSET D |-> g[s]]  BY <1>3
  <2>2. \A s \in SUBSET D : g[s] = IF s = {} THEN base ELSE PlaceRow(n, g[s \ {Max(s)}], q[Max(s)])
    BY <1>3, <1>5 DEF Fills
  <2> HIDE DEF D
  <2>3. QED  BY <2>1, <2>2, Zenon
<1>7. Table(table)
  <2> HIDE DEF Table
  <2> QED  BY <1>6
<1> HIDE DEF table
<1> DEFINE run == [k \in 0 .. N |-> table[1 .. k]]
<1>8. run[0] = base  BY <1>7
<1>9. ASSUME NEW k \in 1 .. N PROVE run[k] = PlaceRow(n, run[k - 1], q[k])
  <2>0. k - 1 \in 0 .. N /\ k \in 0 .. N  OBVIOUS
  <2>1. 1 .. k \in SUBSET (1 .. N) /\ 1 .. k # {} /\ Max(1 .. k) = k /\ (1 .. k) \ {k} = 1 .. k - 1
    BY FirstPlaces
  <2>2. run[k] = table[1 .. k] /\ run[k - 1] = table[1 .. k - 1]  BY <2>0
  <2>5. 1 .. k \in SUBSET D  BY <2>1
  <2> HIDE DEF run, D
  <2>3. table[1 .. k] = PlaceRow(n, table[(1 .. k) \ {Max(1 .. k)}], q[Max(1 .. k)])  BY <1>7, <2>1, <2>5
  <2>4. QED  BY <2>1, <2>2, <2>3
<1>10. run[N] = table[D] /\ DOMAIN run = 0 .. N /\ run = [k \in 0 .. N |-> run[k]]  OBVIOUS
<1> HIDE DEF run, D
<1> DEFINE G == {m \in 0 .. N : run[m] \in V}
<1>11. 0 \in G  BY <1>8
<1>12. ASSUME NEW k \in 1 .. N, k - 1 \in G PROVE k \in G
  <2>1. run[k - 1] \in V /\ q[k] \in S /\ k \in 0 .. N  BY <1>12
  <2>2. run[k] \in V  BY <1>9, <2>1
  <2>3. QED  BY <2>1, <2>2
<1>13. \A k \in 0 .. N : k \in G
  <2> HIDE DEF G
  <2> QED  BY <1>11, <1>12, Reaches
<1>14. run \in [0 .. N -> V]  BY <1>10, <1>13
<1>15. PlaceRun(n, run, N, base, q)  BY <1>1, <1>8, <1>9, <1>10 DEF PlaceRun
<1>16. QED  BY <1>14, <1>15

-----------------------------------------------------------------------------
(* Colour tags *)

Painted == Symbols \X Seq(Symbols)
Skims == [next : Nat, out : Seq(Symbols)]
Drawings == [next : Nat, colour : Seq(Symbols), out : Seq(Painted)]
Pages == Seq(Seq(Painted)) \ {<< >>}
Readings == [next : Nat, colour : Seq(Symbols), over : BOOLEAN, lines : Pages]

LEMMA DigitsAre == Digits \in Nat \ {0} /\ LongDigits \in Nat
  BY ChatTextAssumption

LEMMA PositionsAre ==
    ASSUME NEW t \in Seq(Symbols)
    PROVE  /\ Len(t) \in Nat /\ DOMAIN t = 1 .. Len(t)
           /\ Positions(t) \in [1 .. Len(t) -> 1 .. Len(t)]
           /\ \A i \in 1 .. Len(t) : Positions(t)[i] = i /\ t[i] \in Symbols
  BY DEF Positions

LEMMA SkimTyped ==
    ASSUME NEW t \in Seq(Symbols), NEW s \in Skims, NEW i \in 1 .. Len(t)
    PROVE  SkimSymbol(t, s, i) \in Skims
<1>1. t[i] \in Symbols /\ i + Digits + 2 \in Nat  BY DigitsAre
<1>2. s.out \in Seq(Symbols) /\ s.next \in Nat  BY DEF Skims
<1>3. Append(s.out, t[i]) \in Seq(Symbols)  BY <1>1, <1>2
<1>4. QED  BY <1>1, <1>2, <1>3 DEF SkimSymbol, Skims

LEMMA PartOfText ==
    ASSUME NEW t \in Seq(Symbols), NEW a \in Nat, NEW b \in Nat, 1 <= a, b <= Len(t)
    PROVE  SubSeq(t, a, b) \in Seq(Symbols)
<1>1. \A i \in a .. b : t[i] \in Symbols  OBVIOUS
<1>2. a \in Int /\ b \in Int  OBVIOUS
<1>3. QED  BY <1>1, <1>2, SubSeqProperties

LEMMA DrawTyped ==
    ASSUME NEW t \in Seq(Symbols), NEW s \in Drawings, NEW i \in 1 .. Len(t)
    PROVE  DrawSymbol(t, s, i) \in Drawings
<1>1. t[i] \in Symbols /\ i + Digits + 2 \in Nat  BY DigitsAre
<1>2. s.out \in Seq(Painted) /\ s.next \in Nat /\ s.colour \in Seq(Symbols)  BY DEF Drawings
<1>3. <<t[i], s.colour>> \in Painted  BY <1>1, <1>2 DEF Painted
<1>4. PICK more : more = Append(s.out, <<t[i], s.colour>>)  OBVIOUS
<1>5. more \in Seq(Painted)  BY <1>2, <1>3, <1>4
<1>6. CASE i >= s.next /\ TagAt(t, i)
  <2>1. PICK digits : digits = SubSeq(t, i + 1, i + Digits)  OBVIOUS
  <2>2. i + 1 \in Nat /\ i + Digits \in Nat /\ 1 <= i + 1 /\ i + Digits <= Len(t)
    BY <1>6, DigitsAre, PositionsAre DEF TagAt
  <2>3. digits \in Seq(Symbols)  BY <2>1, <2>2, PartOfText
  <2>4. ChatColour(t, s, i) \in Seq(Symbols)  BY <1>2, <2>1, <2>3 DEF ChatColour
  <2>5. PICK colour \in Seq(Symbols) : colour = ChatColour(t, s, i)  BY <2>4
  <2>6. DrawSymbol(t, s, i) = [s EXCEPT !.next = i + Digits + 2, !.colour = colour]
    BY <1>2, <1>6, <2>5 DEF DrawSymbol
  <2>7. QED  BY <1>1, <2>6 DEF Drawings
<1>7. CASE i >= s.next /\ ~TagAt(t, i)
  <2>1. DrawSymbol(t, s, i) = [s EXCEPT !.out = more]  BY <1>2, <1>4, <1>7 DEF DrawSymbol
  <2>2. QED  BY <1>5, <2>1 DEF Drawings
<1>8. CASE i < s.next  BY <1>8 DEF DrawSymbol
<1>9. QED  BY <1>2, <1>6, <1>7, <1>8

LEMMA DrawnMore ==
    ASSUME NEW cs \in Seq(Painted), NEW c \in Painted
    PROVE  /\ Drawn(cs) \in Seq(Symbols) /\ Len(Drawn(cs)) = Len(cs)
           /\ Drawn(Append(cs, c)) = Append(Drawn(cs), c[1])
<1>1. \A i \in 1 .. Len(cs) : cs[i] \in Painted /\ cs[i][1] \in Symbols  BY DEF Painted
<1>2. Drawn(cs) = [i \in 1 .. Len(cs) |-> cs[i][1]]  BY DEF Drawn
<1>3. Drawn(cs) \in Seq(Symbols) /\ Len(Drawn(cs)) = Len(cs)  BY <1>1, <1>2
<1>4. PICK more : more = Append(cs, c)  OBVIOUS
<1>5. more \in Seq(Painted) /\ Len(more) = Len(cs) + 1
      /\ \A i \in 1 .. Len(more) : more[i] = IF i <= Len(cs) THEN cs[i] ELSE c
  BY <1>4
<1>6. Drawn(more) = [i \in 1 .. Len(more) |-> more[i][1]]  BY <1>5 DEF Drawn
<1>7. PICK d : d = Append(Drawn(cs), c[1])  OBVIOUS
<1>8. d = [i \in 1 .. Len(cs) + 1 |-> IF i <= Len(cs) THEN cs[i][1] ELSE c[1]]
  BY <1>2, <1>3, <1>7
<1>9. Drawn(more) = d  BY <1>5, <1>6, <1>8
<1>10. QED  BY <1>3, <1>4, <1>7, <1>9

(* What is left of a text is what the chat draws. *)
LEMMA StrippedIsDrawn ==
    ASSUME NEW t \in Seq(Symbols)
    PROVE  RenderChat(t) \in Seq(Painted) /\ Drawn(RenderChat(t)) = FilterColors(t)
<1> DEFINE N == Len(t)
           Skim0 == [next |-> 1, out |-> << >>]
           Chat0 == [next |-> 1, colour |-> Own, out |-> << >>]
<1>1. N \in Nat /\ Positions(t) \in [1 .. N -> 1 .. N] /\ \A i \in 1 .. N : Positions(t)[i] = i /\ t[i] \in Symbols
  BY PositionsAre
<1>2. Skim0 \in Skims /\ Chat0 \in Drawings  BY DEF Skims, Drawings, Own
<1>13. PICK a \in [0 .. N -> Skims] : SkimRun(t, a, N, Skim0, Positions(t))
  <2> HIDE DEF Skim0, N
  <2>1. \A s \in Skims : \A x \in 1 .. N : SkimSymbol(t, s, x) \in Skims  BY SkimTyped DEF N
  <2>2. QED  BY <1>1, <1>2, <2>1, SkimRuns
<1>3. /\ a[0] = Skim0 /\ \A k \in 1 .. N : a[k] = SkimSymbol(t, a[k - 1], Positions(t)[k])
      /\ a[N] = SkimFold(t, Skim0, Positions(t))
  BY <1>13 DEF SkimRun
<1>14. PICK b \in [0 .. N -> Drawings] : DrawRun(t, b, N, Chat0, Positions(t))
  <2> HIDE DEF Chat0, N
  <2>1. \A s \in Drawings : \A x \in 1 .. N : DrawSymbol(t, s, x) \in Drawings  BY DrawTyped DEF N
  <2>2. QED  BY <1>1, <1>2, <2>1, DrawRuns
<1>4. /\ b[0] = Chat0 /\ \A k \in 1 .. N : b[k] = DrawSymbol(t, b[k - 1], Positions(t)[k])
      /\ b[N] = DrawFold(t, Chat0, Positions(t))
  BY <1>14 DEF DrawRun
<1>5. FilterColors(t) = a[N].out  BY <1>3 DEF FilterColors, SkimFold
<1>6. RenderChat(t) = b[N].out  BY <1>4 DEF RenderChat, DrawFold
<1> HIDE DEF N
<1> DEFINE G == {k \in 0 .. N : a[k].next = b[k].next /\ Drawn(b[k].out) = a[k].out}
<1>7. 0 \in G
  <2>1. Drawn(<< >>) = << >>  BY DEF Drawn
  <2>2. 0 \in 0 .. N  BY <1>1
  <2>3. QED  BY <1>3, <1>4, <2>1, <2>2
<1>8. ASSUME NEW k \in 1 .. N, k - 1 \in G PROVE k \in G
  <2>1. PICK s, u : s = a[k - 1] /\ u = b[k - 1]  OBVIOUS
  <2>2. s \in Skims /\ u \in Drawings /\ s.next = u.next /\ Drawn(u.out) = s.out
    BY <1>8, <2>1
  <2>3. a[k] = SkimSymbol(t, s, k) /\ b[k] = DrawSymbol(t, u, k)  BY <1>1, <1>3, <1>4, <2>1
  <2>4. k \in 0 .. N /\ t[k] \in Symbols  BY <1>1
  <2>5. u.out \in Seq(Painted) /\ u.colour \in Seq(Symbols) /\ u.next \in Nat  BY <2>2 DEF Drawings
  <2>6. <<t[k], u.colour>> \in Painted /\ <<t[k], u.colour>>[1] = t[k]  BY <2>4, <2>5 DEF Painted
  <2>7. Drawn(Append(u.out, <<t[k], u.colour>>)) = Append(s.out, t[k])
    BY <2>2, <2>5, <2>6, DrawnMore
  <2>8. PICK z, w : z = SkimSymbol(t, s, k) /\ w = DrawSymbol(t, u, k)  OBVIOUS
  <2>9. z.next = w.next /\ Drawn(w.out) = z.out
    <3>1. CASE k < s.next  BY <2>2, <2>8, <3>1 DEF SkimSymbol, DrawSymbol
    <3>2. CASE ~(k < s.next) /\ TagAt(t, k)
      <4>1. z = [s EXCEPT !.next = k + Digits + 2]  BY <2>8, <3>2 DEF SkimSymbol
      <4>2. PICK colour : colour = ChatColour(t, u, k)  OBVIOUS
      <4>3. w = [u EXCEPT !.next = k + Digits + 2, !.colour = colour]
        BY <2>2, <2>8, <3>2, <4>2 DEF DrawSymbol
      <4>4. QED  BY <2>2, <4>1, <4>3 DEF Skims, Drawings
    <3>3. CASE ~(k < s.next) /\ ~TagAt(t, k)
      <4>1. z = [s EXCEPT !.out = Append(s.out, t[k])]  BY <2>8, <3>3 DEF SkimSymbol
      <4>2. w = [u EXCEPT !.out = Append(u.out, <<t[k], u.colour>>)]
        BY <2>2, <2>8, <3>3 DEF DrawSymbol
      <4>3. QED  BY <2>2, <2>7, <4>1, <4>2 DEF Skims, Drawings
    <3>4. QED  BY <3>1, <3>2, <3>3
  <2>10. QED  BY <2>3, <2>4, <2>8, <2>9
<1>9. N \in G
  <2>1. \A k \in 0 .. N : k \in G
    <3> HIDE DEF G
    <3> QED  BY <1>1, <1>7, <1>8, Reaches
  <2>2. QED  BY <1>1, <2>1
<1>10. b[N] \in Drawings  BY <1>1, <1>4
<1>11. b[N].out \in Seq(Painted)  BY <1>10 DEF Drawings
<1>12. QED  BY <1>5, <1>6, <1>9, <1>11

LEMMA LeastOf ==
    ASSUME NEW S \in SUBSET Nat, S # {}
    PROVE  Min(S) \in S /\ \A x \in S : Min(S) <= x
<1>1. PICK m \in S : \A k \in S : <<k, m>> \notin OpToRel(<, Nat)
  BY NatLessThanWellFounded, WFMin
<1>2. ASSUME NEW k \in S PROVE m <= k
  <2> SUFFICES ASSUME k < m PROVE FALSE  OBVIOUS
  <2>1. <<k, m>> \in OpToRel(<, Nat)  BY DEF OpToRel
  <2>2. QED  BY <1>1, <2>1
<1>3. \E x \in S : \A y \in S : x <= y  BY <1>2
<1>4. QED  BY <1>3 DEF Min

LEMMA ClosingIs ==
    ASSUME NEW t \in Seq(Symbols), NEW i \in 1 .. Len(t)
    PROVE  /\ Closing(t, i) \in i + 1 .. Len(t) + 1
           /\ (TagAt(t, i) /\ \A j \in i + 1 .. i + Digits : t[j] # "close")
              => Closing(t, i) = i + Digits + 1
<1>1. PICK S : S = {j \in i + 1 .. Len(t) : t[j] = "close"} \cup {Len(t) + 1}  OBVIOUS
<1>2. Closing(t, i) = Min(S)  BY <1>1 DEF Closing
<1>3. S \in SUBSET Nat /\ Len(t) + 1 \in S  BY <1>1
<1>4. PICK m : m = Min(S)  OBVIOUS
<1>5. m \in S /\ \A x \in S : m <= x  BY <1>3, <1>4, LeastOf
<1>6. m \in i + 1 .. Len(t) + 1  BY <1>1, <1>5
<1>7. ASSUME TagAt(t, i), \A j \in i + 1 .. i + Digits : t[j] # "close" PROVE m = i + Digits + 1
  <2>1. i + Digits + 1 \in S  BY <1>1, <1>7, DigitsAre DEF TagAt
  <2>2. m <= i + Digits + 1  BY <1>5, <2>1
  <2>3. m \in i + 1 .. i + Digits => t[m] = "close"  BY <1>1, <1>5, <1>7, DigitsAre DEF TagAt
  <2>4. QED  BY <1>6, <1>7, <2>2, <2>3, DigitsAre
<1>8. QED  BY <1>2, <1>4, <1>6, <1>7

LEMMA LineTyped ==
    ASSUME NEW S, NEW ends, NEW lines \in Seq(Seq(S)) \ {<< >>}, NEW c \in S
    PROVE  LineSymbol(ends, lines, c) \in Seq(Seq(S)) \ {<< >>}
<1>1. Len(lines) \in Nat \ {0} /\ lines[Len(lines)] \in Seq(S)  OBVIOUS
<1>2. CASE c \in ends
  <2>1. << >> \in Seq(S)  OBVIOUS
  <2>2. Append(lines, << >>) \in Seq(Seq(S)) /\ Len(Append(lines, << >>)) = Len(lines) + 1  BY <2>1
  <2>3. QED  BY <1>1, <1>2, <2>2 DEF LineSymbol
<1>3. CASE c \notin ends
  <2>4. PICK was \in Seq(S) : was = lines[Len(lines)]  BY <1>1
  <2>5. Append(was, c) \in Seq(S)  OBVIOUS
  <2>1. PICK last \in Seq(S) : last = Append(lines[Len(lines)], c)  BY <2>4, <2>5
  <2>2. LineSymbol(ends, lines, c) = [lines EXCEPT ![Len(lines)] = last]  BY <1>3, <2>1 DEF LineSymbol
  <2>3. QED  BY <1>1, <2>1, <2>2
<1>4. QED  BY <1>2, <1>3

(* What a reader of lines does with what is no brace. *)
LEMMA ReadPuts ==
    ASSUME NEW t \in Seq(Symbols), NEW keeps \in BOOLEAN, NEW s \in Readings, NEW i \in 1 .. Len(t),
           ~(i < s.next), t[i] # "open"
    PROVE  /\ <<t[i], s.colour>> \in Painted
           /\ ReadSymbol(t, keeps, s, i)
              = [s EXCEPT !.lines = LineSymbol(LineEnds, s.lines, <<t[i], s.colour>>)]
<1>1. t[i] \in Symbols /\ s.colour \in Seq(Symbols) /\ s.lines \in Pages  BY DEF Readings
<1>2. PICK c : c = <<t[i], s.colour>>  OBVIOUS
<1>3. c \in Painted /\ (c \in LineEnds <=> t[i] = "line")  BY <1>1, <1>2 DEF Painted, LineEnds
<1>4. PICK n : n = Len(s.lines)  OBVIOUS
<1>5. CASE t[i] = "line"
  <2>1. ReadSymbol(t, keeps, s, i) = [s EXCEPT !.lines = Append(s.lines, << >>)]
    BY <1>5 DEF ReadSymbol
  <2>2. LineSymbol(LineEnds, s.lines, c) = Append(s.lines, << >>)  BY <1>3, <1>5 DEF LineSymbol
  <2>3. QED  BY <1>2, <1>3, <2>1, <2>2
<1>6. CASE t[i] # "line"
  <2>1. ReadSymbol(t, keeps, s, i) = [s EXCEPT !.lines = [s.lines EXCEPT ![n] = Append(@, c)]]
    BY <1>2, <1>4, <1>6 DEF ReadSymbol
  <2>2. LineSymbol(LineEnds, s.lines, c) = [s.lines EXCEPT ![n] = Append(@, c)]
    BY <1>3, <1>4, <1>6 DEF LineSymbol
  <2>3. QED  BY <1>2, <1>3, <2>1, <2>2
<1>7. QED  BY <1>5, <1>6

LEMMA ReadTyped ==
    ASSUME NEW t \in Seq(Symbols), NEW keeps \in BOOLEAN, NEW s \in Readings, NEW i \in 1 .. Len(t)
    PROVE  ReadSymbol(t, keeps, s, i) \in Readings
<1>1. t[i] \in Symbols /\ s.next \in Nat /\ s.colour \in Seq(Symbols) /\ s.lines \in Pages
  BY DEF Readings
<1>2. CASE i < s.next  BY <1>2 DEF ReadSymbol
<1>3. CASE ~(i < s.next) /\ t[i] = "open"
  <2>1. PICK m : m = Closing(t, i)  OBVIOUS
  <2>2. m \in Nat /\ m - 1 \in Nat /\ i + 1 \in Nat /\ 1 <= i + 1 /\ m - 1 <= Len(t)
    BY <2>1, ClosingIs
  <2>3. PICK digits : digits = SubSeq(t, i + 1, m - 1)  OBVIOUS
  <2>4. digits \in Seq(Symbols)  BY <2>2, <2>3, PartOfText
  <2>5. PICK colour : colour = TagColour(t, keeps, s, i)  OBVIOUS
  <2>6. colour \in Seq(Symbols)  BY <1>1, <2>1, <2>3, <2>4, <2>5 DEF TagColour, Own
  <2>7. ReadSymbol(t, keeps, s, i) = [s EXCEPT !.next = m + 1, !.colour = colour, !.over = m > Len(t)]
    BY <1>3, <2>1, <2>5 DEF ReadSymbol
  <2>8. (m > Len(t)) \in BOOLEAN /\ m + 1 \in Nat  BY <2>2
  <2>9. QED  BY <2>6, <2>7, <2>8 DEF Readings
<1>4. CASE ~(i < s.next) /\ t[i] # "open"
  <2>1. PICK lines : lines = LineSymbol(LineEnds, s.lines, <<t[i], s.colour>>)  OBVIOUS
  <2>2. ReadSymbol(t, keeps, s, i) = [s EXCEPT !.lines = lines] /\ <<t[i], s.colour>> \in Painted
    BY <1>4, <2>1, ReadPuts
  <2>3. lines \in Pages  BY <1>1, <2>1, <2>2, LineTyped DEF Pages
  <2>4. QED  BY <2>2, <2>3 DEF Readings
<1>5. QED  BY <1>2, <1>3, <1>4

(* Lines, symbol by symbol. *)
Grows(S, ends, cs, c) ==
    /\ Lines(cs, ends) \in Seq(Seq(S)) \ {<< >>}
    /\ Lines(Append(cs, c), ends) = LineSymbol(ends, Lines(cs, ends), c)

LEMMA LinesGrow ==
    ASSUME NEW S, NEW ends
    PROVE  /\ Lines(<< >>, ends) = << << >> >>
           /\ \A cs \in Seq(S) : \A c \in S : Grows(S, ends, cs, c)
<1> DEFINE V == Seq(Seq(S)) \ {<< >>}
           first == << << >> >>
<1>1. first \in V /\ \A s \in V : \A x \in S : LineSymbol(ends, s, x) \in V
  BY LineTyped
<1>2. ASSUME NEW N \in Nat, NEW q \in [1 .. N -> S]
      PROVE  \E run \in [0 .. N -> V] :
                 /\ run[0] = first /\ \A k \in 1 .. N : run[k] = LineSymbol(ends, run[k - 1], q[k])
                 /\ run[N] = Lines(q, ends)
  <2> HIDE DEF V, first
  <2>1. PICK run \in [0 .. N -> V] : LineRun(ends, run, N, first, q)  BY <1>1, LineRuns
  <2>2. LineFold(ends, first, q) = Lines(q, ends)  BY DEF Lines, LineFold, first
  <2>3. /\ run[0] = first /\ \A k \in 1 .. N : run[k] = LineSymbol(ends, run[k - 1], q[k])
        /\ run[N] = LineFold(ends, first, q)
    BY <2>1 DEF LineRun
  <2>4. QED  BY <2>2, <2>3
<1> HIDE DEF V, first
<1>3. Lines(<< >>, ends) = first
  <2>1. << >> \in [1 .. 0 -> S] /\ 0 \in Nat  OBVIOUS
  <2>2. QED  BY <1>2, <2>1
<1>4. ASSUME NEW cs \in Seq(S), NEW c \in S
      PROVE  Lines(cs, ends) \in V /\ Lines(Append(cs, c), ends) = LineSymbol(ends, Lines(cs, ends), c)
  <2>1. PICK N \in Nat : N = Len(cs)  OBVIOUS
  <2>2. PICK more : more = Append(cs, c)  OBVIOUS
  <2>13. cs \in [1 .. N -> S]  BY <2>1
  <2>14. more \in Seq(S) /\ Len(more) = N + 1 /\ more[N + 1] = c /\ \A k \in 1 .. N : more[k] = cs[k]
    BY <2>1, <2>2
  <2>15. more \in [1 .. N + 1 -> S]  BY <2>14
  <2>3. /\ cs \in [1 .. N -> S] /\ more \in [1 .. N + 1 -> S] /\ N + 1 \in Nat
        /\ more[N + 1] = c /\ \A k \in 1 .. N : more[k] = cs[k]
    BY <2>13, <2>14, <2>15
  <2>4. PICK a \in [0 .. N -> V] :
           /\ a[0] = first /\ \A k \in 1 .. N : a[k] = LineSymbol(ends, a[k - 1], cs[k])
           /\ a[N] = Lines(cs, ends)
    BY <1>2, <2>3
  <2>5. PICK b \in [0 .. N + 1 -> V] :
           /\ b[0] = first /\ \A k \in 1 .. N + 1 : b[k] = LineSymbol(ends, b[k - 1], more[k])
           /\ b[N + 1] = Lines(more, ends)
    BY <1>2, <2>3
  <2> DEFINE G == {k \in 0 .. N : a[k] = b[k]}
  <2>6. 0 \in G  BY <2>4, <2>5
  <2>7. ASSUME NEW k \in 1 .. N, k - 1 \in G PROVE k \in G
    <3>1. k \in 1 .. N + 1 /\ more[k] = cs[k] /\ a[k - 1] = b[k - 1]  BY <2>3, <2>7
    <3>2. QED  BY <2>4, <2>5, <3>1
  <2>8. \A k \in 0 .. N : k \in G
    <3> HIDE DEF G
    <3> QED  BY <2>6, <2>7, Reaches
  <2>9. a[N] = b[N] /\ N \in 0 .. N /\ N + 1 \in 1 .. N + 1 /\ N + 1 - 1 = N  BY <2>8
  <2>10. b[N + 1] = LineSymbol(ends, b[N], c)
    <3>1. b[N + 1] = LineSymbol(ends, b[N + 1 - 1], more[N + 1])  BY <2>5, <2>9
    <3>2. QED  BY <2>3, <2>9, <3>1
  <2>11. a[N] \in V  BY <2>4, <2>9
  <2>12. QED  BY <2>2, <2>4, <2>5, <2>9, <2>10, <2>11
<1>5. QED  BY <1>3, <1>4 DEF V, first, Grows

(* The lines of coloured text are those of the text. *)
SameLines(L, M) ==
    /\ L \in Pages /\ M \in Seq(Seq(Symbols)) /\ Len(M) = Len(L)
    /\ \A j \in 1 .. Len(L) : Drawn(L[j]) = M[j]

LEMMA SameLinesGrow ==
    ASSUME NEW L, NEW M, SameLines(L, M), NEW c \in Painted
    PROVE  SameLines(LineSymbol(LineEnds, L, c), LineSymbol({"line"}, M, c[1]))
<1>1. /\ L \in Seq(Seq(Painted)) /\ L # << >> /\ M \in Seq(Seq(Symbols)) /\ M # << >>
      /\ Len(L) \in Nat \ {0} /\ Len(M) = Len(L)
      /\ \A j \in 1 .. Len(L) : L[j] \in Seq(Painted) /\ M[j] \in Seq(Symbols) /\ Drawn(L[j]) = M[j]
  BY DEF SameLines, Pages
<1>2. c[1] \in Symbols /\ (c \in LineEnds <=> c[1] \in {"line"})
  BY DEF Painted, LineEnds
<1>3. PICK L1, M1 : L1 = LineSymbol(LineEnds, L, c) /\ M1 = LineSymbol({"line"}, M, c[1])
  OBVIOUS
<1>4. L1 \in Pages  BY <1>1, <1>3, LineTyped DEF Pages
<1>5. M1 \in Seq(Seq(Symbols))  BY <1>1, <1>2, <1>3, LineTyped
<1>6. CASE c \in LineEnds
  <2>1. L1 = Append(L, << >>) /\ M1 = Append(M, << >>)  BY <1>2, <1>3, <1>6 DEF LineSymbol
  <2>2. Drawn(<< >>) = << >>  BY DEF Drawn
  <2>3. Len(L1) = Len(L) + 1 /\ Len(M1) = Len(M) + 1
        /\ \A j \in 1 .. Len(L) + 1 :
              /\ L1[j] = IF j <= Len(L) THEN L[j] ELSE << >>
              /\ M1[j] = IF j <= Len(L) THEN M[j] ELSE << >>
    BY <1>1, <2>1
  <2>4. ASSUME NEW j \in 1 .. Len(L1) PROVE Drawn(L1[j]) = M1[j]
    <3>1. j \in 1 .. Len(L) + 1  BY <2>3
    <3>2. CASE j \in 1 .. Len(L)
      <4>1. L1[j] = L[j] /\ M1[j] = M[j]  BY <2>3, <3>1, <3>2
      <4>2. QED  BY <1>1, <3>2, <4>1
    <3>3. CASE ~(j \in 1 .. Len(L))
      <4>1. ~(j <= Len(L))  BY <1>1, <3>1, <3>3
      <4>2. L1[j] = << >> /\ M1[j] = << >>  BY <2>3, <3>1, <4>1
      <4>3. QED  BY <2>2, <4>2
    <3>4. QED  BY <3>2, <3>3
  <2>5. QED  BY <1>1, <1>3, <1>4, <1>5, <2>3, <2>4 DEF SameLines
<1>7. CASE c \notin LineEnds
  <2>1. PICK n : n = Len(L)  OBVIOUS
  <2>2. PICK x, y : x = Append(L[n], c) /\ y = Append(M[n], c[1])  OBVIOUS
  <2>3. L1 = [L EXCEPT ![n] = x] /\ M1 = [M EXCEPT ![n] = y]
    BY <1>1, <1>2, <1>3, <1>7, <2>1, <2>2 DEF LineSymbol
  <2>4. Drawn(x) = y  BY <1>1, <2>1, <2>2, DrawnMore
  <2>5. Len(L1) = n /\ Len(M1) = n
        /\ \A j \in 1 .. n : L1[j] = (IF j = n THEN x ELSE L[j]) /\ M1[j] = (IF j = n THEN y ELSE M[j])
    BY <1>1, <1>4, <1>5, <2>1, <2>3 DEF Pages
  <2>6. \A j \in 1 .. Len(L1) : Drawn(L1[j]) = M1[j]  BY <1>1, <2>1, <2>4, <2>5
  <2>7. QED  BY <1>1, <1>3, <1>4, <1>5, <2>5, <2>6 DEF SameLines
<1>8. QED  BY <1>6, <1>7

LEMMA LinesMatch ==
    ASSUME NEW cs \in Seq(Painted)
    PROVE  SameLines(Lines(cs, LineEnds), Lines(Drawn(cs), {"line"}))
<1>1. PICK N \in Nat : N = Len(cs)  OBVIOUS
<1> DEFINE head(k) == SubSeq(cs, 1, k)
           same(k) == SameLines(Lines(head(k), LineEnds), Lines(Drawn(head(k)), {"line"}))
           G == {k \in 0 .. N : same(k)}
<1>2. head(0) = << >> /\ head(N) = cs  BY <1>1
<1>3. \A k \in 1 .. N : head(k - 1) \in Seq(Painted) /\ cs[k] \in Painted /\ head(k) = Append(head(k - 1), cs[k])
  <2> TAKE k \in 1 .. N
  <2>1. cs[k] \in Painted /\ k - 1 \in Nat /\ k <= Len(cs)  BY <1>1
  <2>2. PICK a, b : a = SubSeq(cs, 1, k - 1) /\ b = SubSeq(cs, 1, k)  OBVIOUS
  <2>3. a \in Seq(Painted) /\ b \in Seq(Painted) /\ Len(a) = k - 1 /\ Len(b) = k
        /\ (\A j \in 1 .. k - 1 : a[j] = cs[j]) /\ (\A j \in 1 .. k : b[j] = cs[j])
    BY <1>1, <2>1, <2>2
  <2>4. PICK d : d = Append(a, cs[k])  OBVIOUS
  <2>5. d \in Seq(Painted) /\ Len(d) = k /\ \A j \in 1 .. k : d[j] = cs[j]  BY <2>1, <2>3, <2>4
  <2>6. b = d  BY <2>3, <2>5, SeqEqual
  <2>7. QED  BY <2>1, <2>2, <2>3, <2>4, <2>6
<1>4. 0 \in G
  <2>1. Lines(<< >>, LineEnds) = << << >> >> /\ Lines(<< >>, {"line"}) = << << >> >>  BY LinesGrow
  <2>2. Drawn(<< >>) = << >>  BY DEF Drawn
  <2>3. SameLines(<< << >> >>, << << >> >>)  BY <2>2 DEF SameLines, Pages
  <2>4. same(0)
    <3> HIDE DEF head
    <3> QED  BY <1>2, <2>1, <2>2, <2>3
  <2>5. 0 \in 0 .. N  OBVIOUS
  <2> HIDE DEF same
  <2>6. QED  BY <2>4, <2>5
<1>5. ASSUME NEW k \in 1 .. N, k - 1 \in G PROVE k \in G
  <2>1. PICK a, c : a = head(k - 1) /\ c = cs[k]  OBVIOUS
  <2>2. a \in Seq(Painted) /\ c \in Painted /\ head(k) = Append(a, c)  BY <1>3, <2>1
  <2>3. SameLines(Lines(a, LineEnds), Lines(Drawn(a), {"line"}))  BY <1>5, <2>1
  <2>4. Drawn(a) \in Seq(Symbols) /\ Drawn(Append(a, c)) = Append(Drawn(a), c[1])  BY <2>2, DrawnMore
  <2>5. c[1] \in Symbols  BY <2>2 DEF Painted
  <2>10. Grows(Painted, LineEnds, a, c)  BY <2>2, LinesGrow
  <2>11. Grows(Symbols, {"line"}, Drawn(a), c[1])  BY <2>4, <2>5, LinesGrow
  <2>6. Lines(Append(a, c), LineEnds) = LineSymbol(LineEnds, Lines(a, LineEnds), c)
    BY <2>10 DEF Grows
  <2>7. Lines(Append(Drawn(a), c[1]), {"line"}) = LineSymbol({"line"}, Lines(Drawn(a), {"line"}), c[1])
    BY <2>11 DEF Grows
  <2>8. SameLines(Lines(Append(a, c), LineEnds), Lines(Drawn(Append(a, c)), {"line"}))
    BY <2>2, <2>3, <2>4, <2>6, <2>7, SameLinesGrow
  <2>9. same(k)
    <3> HIDE DEF head
    <3> QED  BY <2>2, <2>8
  <2>12. k \in 0 .. N  OBVIOUS
  <2> HIDE DEF same
  <2>13. QED  BY <2>9, <2>12
<1>6. N \in G
  <2>1. \A k \in 0 .. N : k \in G
    <3> HIDE DEF G
    <3> QED  BY <1>4, <1>5, Reaches
  <2>2. QED  BY <2>1
<1>7. QED  BY <1>2, <1>6

(* A tag that is a colour, to the chat and to the readers of lines. *)
LEMMA TagsAlike ==
    ASSUME NEW t \in Seq(Symbols), NEW keeps \in BOOLEAN, NEW i \in 1 .. Len(t), WellFormed(t),
           t[i] = "open", NEW s, NEW r
    PROVE  /\ TagAt(t, i) /\ Closing(t, i) = i + Digits + 1 /\ Closing(t, i) <= Len(t)
           /\ TagColour(t, keeps, r, i) = ChatColour(t, s, i)
<1>1. TagAt(t, i) /\ \A j \in i + 1 .. i + Digits : t[j] = "hex"  BY DEF WellFormed
<1>2. Closing(t, i) = i + Digits + 1
  <2>1. \A j \in i + 1 .. i + Digits : t[j] # "close"  BY <1>1
  <2>2. QED  BY <1>1, <2>1, ClosingIs
<1>3. i \in Nat /\ i + Digits + 1 <= Len(t) /\ Digits \in Nat \ {0}  BY <1>1, DigitsAre DEF TagAt
<1>4. PICK digits : digits = SubSeq(t, i + 1, i + Digits)  OBVIOUS
<1>5. Len(digits) = Digits /\ digits[1] = "hex" /\ 1 \in DOMAIN digits
  <2>1. \A j \in i + 1 .. i + Digits : t[j] \in Symbols  BY <1>3
  <2>2. i + 1 \in Int /\ i + Digits \in Int  BY <1>3
  <2>3. digits \in Seq(Symbols) /\ Len(digits) = (i + Digits) - (i + 1) + 1 /\ digits[1] = t[i + 1 + 1 - 1]
    BY <1>3, <1>4, <2>1, <2>2, SubSeqProperties
  <2>4. t[i + 1] = "hex" /\ i + 1 + 1 - 1 = i + 1  BY <1>1, <1>3
  <2>5. Len(digits) = Digits  BY <1>3, <2>3
  <2>6. QED  BY <1>3, <2>3, <2>4, <2>5
<1>6. ProcessInlineHexColor(digits)
  <2>1. \A j \in 1 .. 1 - 1 : digits[j] \in {"space", "line"}  OBVIOUS
  <2>2. QED  BY <1>5, <2>1, Zenon DEF ProcessInlineHexColor
<1>7. ChatColour(t, s, i) = digits  BY <1>4, <1>6, Zenon DEF ChatColour
<1>8. TagColour(t, keeps, r, i) = digits
  <2>1. Closing(t, i) - 1 = i + Digits  BY <1>2, <1>3
  <2>2. SubSeq(t, i + 1, Closing(t, i) - 1) = digits  BY <1>4, <2>1
  <2>3. QED  BY <1>6, <2>2, Zenon DEF TagColour
<1>9. QED  BY <1>1, <1>2, <1>3, <1>7, <1>8

(* A reader of lines that has come as far as the chat. *)
Abreast(r, s) ==
    /\ r.next = s.next /\ r.colour = s.colour /\ ~r.over /\ r.lines = Lines(s.out, LineEnds)

LEMMA StayAbreast ==
    ASSUME NEW t \in Seq(Symbols), NEW keeps \in BOOLEAN, NEW i \in 1 .. Len(t), WellFormed(t),
           NEW r \in Readings, NEW s \in Drawings, Abreast(r, s)
    PROVE  Abreast(ReadSymbol(t, keeps, r, i), DrawSymbol(t, s, i))
<1>1. /\ r.next = s.next /\ r.colour = s.colour /\ r.over = FALSE /\ r.lines = Lines(s.out, LineEnds)
      /\ s.out \in Seq(Painted) /\ s.next \in Nat
  BY DEF Abreast, Readings, Drawings
<1>2. CASE i < s.next  BY <1>1, <1>2 DEF ReadSymbol, DrawSymbol
<1>3. CASE ~(i < s.next) /\ t[i] = "open"
  <2>1. PICK m : m = Closing(t, i)  OBVIOUS
  <2>2. PICK colour : colour = ChatColour(t, s, i)  OBVIOUS
  <2>3. TagAt(t, i) /\ m = i + Digits + 1 /\ m <= Len(t) /\ TagColour(t, keeps, r, i) = colour
    BY <1>3, <2>1, <2>2, TagsAlike
  <2>4. ReadSymbol(t, keeps, r, i) = [r EXCEPT !.next = m + 1, !.colour = colour, !.over = m > Len(t)]
    BY <1>1, <1>3, <2>1, <2>3 DEF ReadSymbol
  <2>5. DrawSymbol(t, s, i) = [s EXCEPT !.next = i + Digits + 2, !.colour = colour]
    BY <1>3, <2>2, <2>3 DEF DrawSymbol
  <2>6. m + 1 = i + Digits + 2 /\ (m > Len(t)) = FALSE  BY <2>3, DigitsAre
  <2>7. QED  BY <1>1, <2>4, <2>5, <2>6 DEF Abreast, Readings, Drawings
<1>4. CASE ~(i < s.next) /\ t[i] # "open"
  <2>1. PICK c : c = <<t[i], s.colour>>  OBVIOUS
  <2>2. PICK lines : lines = LineSymbol(LineEnds, r.lines, c)  OBVIOUS
  <2>3. c \in Painted /\ ReadSymbol(t, keeps, r, i) = [r EXCEPT !.lines = lines]
    BY <1>1, <1>4, <2>1, <2>2, ReadPuts
  <2>4. DrawSymbol(t, s, i) = [s EXCEPT !.out = Append(s.out, c)]
    BY <1>4, <2>1 DEF DrawSymbol, TagAt
  <2>7. Grows(Painted, LineEnds, s.out, c)  BY <1>1, <2>3, LinesGrow
  <2>5. Lines(Append(s.out, c), LineEnds) = lines  BY <1>1, <2>2, <2>7 DEF Grows
  <2>6. QED  BY <1>1, <2>3, <2>4, <2>5 DEF Abreast, Readings, Drawings
<1>5. QED  BY <1>2, <1>3, <1>4

LEMMA ReadAsDrawn ==
    ASSUME NEW t \in Seq(Symbols), NEW keeps \in BOOLEAN, WellFormed(t)
    PROVE  ~TextWithColors(t, keeps).over /\ TextWithColors(t, keeps).lines = Lines(RenderChat(t), LineEnds)
<1> DEFINE N == Len(t)
           Read0 == [next |-> 1, colour |-> Own, over |-> FALSE, lines |-> << << >> >>]
           Chat0 == [next |-> 1, colour |-> Own, out |-> << >>]
<1>1. N \in Nat /\ Positions(t) \in [1 .. N -> 1 .. N] /\ \A i \in 1 .. N : Positions(t)[i] = i
  BY PositionsAre
<1>2. Read0 \in Readings /\ Chat0 \in Drawings  BY DEF Readings, Pages, Drawings, Own
<1>13. PICK a \in [0 .. N -> Readings] : ReadRun(t, keeps, a, N, Read0, Positions(t))
  <2> HIDE DEF Read0, N
  <2>1. \A s \in Readings : \A x \in 1 .. N : ReadSymbol(t, keeps, s, x) \in Readings
    BY ReadTyped DEF N
  <2>2. QED  BY <1>1, <1>2, <2>1, ReadRuns
<1>3. /\ a[0] = Read0 /\ \A k \in 1 .. N : a[k] = ReadSymbol(t, keeps, a[k - 1], Positions(t)[k])
      /\ a[N] = ReadFold(t, keeps, Read0, Positions(t))
  BY <1>13 DEF ReadRun
<1>14. PICK b \in [0 .. N -> Drawings] : DrawRun(t, b, N, Chat0, Positions(t))
  <2> HIDE DEF Chat0, N
  <2>1. \A s \in Drawings : \A x \in 1 .. N : DrawSymbol(t, s, x) \in Drawings  BY DrawTyped DEF N
  <2>2. QED  BY <1>1, <1>2, <2>1, DrawRuns
<1>4. /\ b[0] = Chat0 /\ \A k \in 1 .. N : b[k] = DrawSymbol(t, b[k - 1], Positions(t)[k])
      /\ b[N] = DrawFold(t, Chat0, Positions(t))
  BY <1>14 DEF DrawRun
<1>5. TextWithColors(t, keeps) = a[N]  BY <1>3 DEF TextWithColors, ReadFold
<1>6. RenderChat(t) = b[N].out  BY <1>4 DEF RenderChat, DrawFold
<1> DEFINE G == {k \in 0 .. N : Abreast(a[k], b[k])}
<1>7. 0 \in G
  <2>1. Lines(<< >>, LineEnds) = << << >> >>  BY LinesGrow
  <2>2. QED  BY <1>3, <1>4, <2>1 DEF Abreast
<1>8. ASSUME NEW k \in 1 .. N, k - 1 \in G PROVE k \in G
  <2>1. PICK r, s : r = a[k - 1] /\ s = b[k - 1]  OBVIOUS
  <2>2. r \in Readings /\ s \in Drawings /\ Abreast(r, s)  BY <1>8, <2>1
  <2>3. a[k] = ReadSymbol(t, keeps, r, k) /\ b[k] = DrawSymbol(t, s, k)  BY <1>1, <1>3, <1>4, <2>1
  <2>4. Abreast(a[k], b[k])  BY <2>2, <2>3, StayAbreast
  <2>5. QED  BY <2>4
<1>9. Abreast(a[N], b[N])
  <2>1. \A k \in 0 .. N : k \in G
    <3> HIDE DEF G, N
    <3> QED  BY <1>1, <1>7, <1>8, Reaches
  <2>2. QED  BY <1>1, <2>1
<1>10. QED  BY <1>5, <1>6, <1>9 DEF Abreast

LEMMA WidthsMeasured ==
    ASSUME NEW L, NEW stripped, SameLines(L, Lines(stripped, {"line"})), stripped # << >>
    PROVE  /\ Len(fLineOffsets(stripped)) = Len(L)
           /\ \A k \in DOMAIN fLineOffsets(stripped) : Len(L[k]) - fLineOffsets(stripped)[k] \in {0, 1}
<1>1. PICK M : M = Lines(stripped, {"line"})  OBVIOUS
<1>2. /\ L \in Seq(Seq(Painted)) /\ M \in Seq(Seq(Symbols)) /\ Len(M) = Len(L)
      /\ \A j \in 1 .. Len(L) : Drawn(L[j]) = M[j]
  BY <1>1 DEF SameLines, Pages
<1>3. PICK w : w = fLineOffsets(stripped)  OBVIOUS
<1>4. w = [k \in DOMAIN M |-> Max({0, Len(M[k]) - 1})]  BY <1>1, <1>3 DEF fLineOffsets
<1>5. DOMAIN M = 1 .. Len(L) /\ Len(L) \in Nat  BY <1>2
<1>6. Len(w) = Len(L) /\ DOMAIN w = 1 .. Len(L)  BY <1>4, <1>5
<1>7. ASSUME NEW k \in 1 .. Len(L) PROVE Len(L[k]) - w[k] \in {0, 1}
  <2>1. L[k] \in Seq(Painted) /\ M[k] \in Seq(Symbols) /\ Drawn(L[k]) = M[k]  BY <1>2, <1>7
  <2>2. PICK n \in Nat : n = Len(L[k])  BY <2>1
  <2>3. Len(M[k]) = n
    <3>1. Drawn(L[k]) = [i \in 1 .. n |-> L[k][i][1]]  BY <2>1, <2>2 DEF Drawn
    <3>2. QED  BY <2>1, <3>1
  <2>4. w[k] = Max({0, n - 1})  BY <1>4, <1>5, <1>7, <2>3
  <2>5. Max({0, n - 1}) = IF 0 >= n - 1 THEN 0 ELSE n - 1  BY MaxOfTwo
  <2>6. QED  BY <2>2, <2>4, <2>5
<1>8. QED  BY <1>3, <1>6, <1>7

LEMMA TagsRead ==
    ASSUME text \in Seq(Symbols)
    PROVE  TagsAgree
<1>1. PICK t \in Seq(Symbols) : t = text  OBVIOUS
<1>2. PICK drawn, stripped : drawn = RenderChat(t) /\ stripped = FilterColors(t)  OBVIOUS
<1>3. drawn \in Seq(Painted) /\ Drawn(drawn) = stripped  BY <1>2, StrippedIsDrawn
<1>4. ASSUME WellFormed(t)
      PROVE  /\ ~LabelText(t).over /\ LabelText(t).lines = DialogText(t).lines
             /\ LabelText(t).lines = Lines(drawn, LineEnds)
  <2>1. ~TextWithColors(t, TRUE).over /\ TextWithColors(t, TRUE).lines = Lines(drawn, LineEnds)
    BY <1>2, <1>4, ReadAsDrawn
  <2>2. TextWithColors(t, FALSE).lines = Lines(drawn, LineEnds)
    BY <1>2, <1>4, ReadAsDrawn
  <2>3. QED  BY <2>1, <2>2 DEF LabelText, DialogText
<1>5. PICK L, M, w : L = Lines(drawn, LineEnds) /\ M = Lines(stripped, {"line"}) /\ w = fLineOffsets(stripped)
  OBVIOUS
<1>6. SameLines(L, M)  BY <1>3, <1>5, LinesMatch
<1>7. [k \in DOMAIN L |-> Drawn(L[k])] = M
  <2>1. /\ DOMAIN L = 1 .. Len(L) /\ M \in Seq(Seq(Symbols)) /\ Len(M) = Len(L)
        /\ \A k \in 1 .. Len(L) : Drawn(L[k]) = M[k]
    BY <1>6 DEF SameLines, Pages
  <2>2. PICK f : f = [k \in DOMAIN L |-> Drawn(L[k])]  OBVIOUS
  <2>3. M \in [1 .. Len(L) -> Seq(Symbols)]  BY <2>1
  <2>4. f \in [1 .. Len(L) -> Seq(Symbols)] /\ \A k \in 1 .. Len(L) : f[k] = M[k]
    BY <2>1, <2>2, <2>3
  <2>5. f = M  BY <2>3, <2>4
  <2>6. QED  BY <2>2, <2>5
<1>8. stripped # << >> =>
         Len(w) = Len(L) /\ \A k \in DOMAIN w : Len(L[k]) - w[k] \in {0, 1}
  BY <1>5, <1>6, WidthsMeasured
<1>9. PICK seen : seen = LabelText(t)  OBVIOUS
<1>10. WellFormed(t) => ~seen.over /\ seen.lines = DialogText(t).lines /\ seen.lines = L
  BY <1>4, <1>5, <1>9
<1>11. QED
  BY <1>1, <1>2, <1>3, <1>5, <1>7, <1>8, <1>9, <1>10, Zenon DEF TagsAgree

-----------------------------------------------------------------------------
(* Tables *)

(* What was answered is what the window shows, which nobody can point at   *)
(* any more.                                                               *)
Answered ==
    /\ ~m_bRendered
    /\ answer \in [by : {"double click", "button"}, item : Int, text : Int, row : Int, sure : BOOLEAN]
    /\ answer.sure = pointed /\ answer.row = m_iSelectedItem /\ answer.text = TextOf(m_iSelectedItem)
    /\ answer.item = IF answer.by = "button" THEN TempItem ELSE m_iSelectedItem

TabInv ==
    /\ dialog \in [style : Styles, rows : Seq(Nat)]
    /\ dialog.rows # << >> => dialog.rows[1] > 0
    /\ m_bRendered \in BOOLEAN /\ pointed \in BOOLEAN
    /\ m_iSelectedItem \in Int
    /\ pointed => m_iSelectedItem \in TableRows(dialog)
    /\ answer = NoAnswer \/ Answered

(* The texts of a table without empty lines, one after the other. *)
LEMMA TextsInPlace ==
    ASSUME NEW d \in [style : Styles, rows : Seq(Nat)]
    PROVE  /\ DOMAIN firstTabs(d) \subseteq Int
           /\ \A i \in DOMAIN firstTabs(d) : firstTabs(d)[i] \in Int
           /\ (d.style = "list" \/ \A i \in DOMAIN d.rows : d.rows[i] > 0)
              => firstTabs(d) = [i \in 1 .. Len(d.rows) |-> i - 1]
<1>1. PICK rows \in Seq(Nat) : rows = d.rows  OBVIOUS
<1>2. PICK N \in Nat : N = Len(rows)  OBVIOUS
<1>3. PICK lines : lines = [i \in 1 .. N |-> i - 1]  OBVIOUS
<1>4. /\ DOMAIN rows = 1 .. N /\ lines \in [1 .. N -> 0 .. N]
      /\ \A k \in 1 .. N : lines[k] = k - 1 /\ k - 1 + 1 = k /\ rows[k] \in Nat
  BY <1>2, <1>3
<1>5. CASE d.style = "list"
  <2>1. firstTabs(d) = lines  BY <1>1, <1>3, <1>4, <1>5 DEF firstTabs
  <2>2. QED  BY <1>1, <1>2, <1>3, <1>4, <2>1
<1>6. CASE d.style # "list"
  <2>1. firstTabs(d) = KeepFold(rows, << >>, lines)
    BY <1>1, <1>3, <1>4, <1>6 DEF firstTabs, KeepFold
  <2>2. \A s \in Seq(Int) : \A x \in 0 .. N : KeepText(rows, s, x) \in Seq(Int)
    <3> TAKE s \in Seq(Int)
    <3> TAKE x \in 0 .. N
    <3>1. Append(s, x) \in Seq(Int)  OBVIOUS
    <3>2. QED  BY <3>1 DEF KeepText
  <2>3. << >> \in Seq(Int)  OBVIOUS
  <2>9. PICK run \in [0 .. N -> Seq(Int)] : KeepRun(rows, run, N, << >>, lines)
    BY <1>4, <2>2, <2>3, KeepRuns
  <2>4. /\ run[0] = << >> /\ \A k \in 1 .. N : run[k] = KeepText(rows, run[k - 1], lines[k])
        /\ run[N] = KeepFold(rows, << >>, lines)
    BY <2>9 DEF KeepRun
  <2>5. PICK all : all = firstTabs(d)  OBVIOUS
  <2>6. all = run[N] /\ all \in Seq(Int)  BY <2>1, <2>4, <2>5
  <2>7. ASSUME \A i \in DOMAIN d.rows : d.rows[i] > 0 PROVE all = [i \in 1 .. N |-> i - 1]
    <3> DEFINE numbers(k) == [i \in 1 .. k |-> i - 1]
               G == {k \in 0 .. N : run[k] = numbers(k)}
    <3>1. 0 \in G  BY <2>4
    <3>2. ASSUME NEW k \in 1 .. N, k - 1 \in G PROVE k \in G
      <4>1. run[k - 1] = [i \in 1 .. k - 1 |-> i - 1]  BY <3>2
      <4>2. rows[k] > 0  BY <1>1, <1>4, <2>7
      <4>3. PICK texts : texts = run[k - 1]  OBVIOUS
      <4>4. run[k] = Append(texts, k - 1)
        <5>1. run[k] = KeepText(rows, texts, k - 1)  BY <1>4, <2>4, <4>3
        <5>2. QED  BY <1>4, <4>2, <5>1 DEF KeepText
      <4>5. texts \in Seq(Int) /\ Len(texts) = k - 1  BY <4>1, <4>3
      <4>6. Append(texts, k - 1) = [i \in 1 .. k |-> i - 1]  BY <4>1, <4>3, <4>5
      <4>7. run[k] = numbers(k)  BY <4>3, <4>4, <4>6, Zenon
      <4>8. k \in 0 .. N  OBVIOUS
      <4> HIDE DEF numbers
      <4>9. QED  BY <4>7, <4>8
    <3>3. \A k \in 0 .. N : k \in G
      <4> HIDE DEF G
      <4> QED  BY <3>1, <3>2, Reaches
    <3>4. QED  BY <2>6, <3>3
  <2>8. DOMAIN all \subseteq Int /\ \A i \in DOMAIN all : all[i] \in Int  BY <2>6
  <2>10. (d.style = "list" \/ \A i \in DOMAIN d.rows : d.rows[i] > 0) => all = [i \in 1 .. Len(d.rows) |-> i - 1]
    BY <1>1, <1>2, <1>6, <2>7, Zenon
  <2>11. QED  BY <2>5, <2>8, <2>10, Zenon
<1>7. QED  BY <1>5, <1>6

LEMMA TabStart == TabInit => TabInv
<1> SUFFICES ASSUME TabInit PROVE TabInv  OBVIOUS
<1>1. << >> \in Seq(Nat)  OBVIOUS
<1>2. dialog \in [style : Styles, rows : Seq(Nat)] /\ dialog.rows = << >>  BY <1>1 DEF TabInit, Styles
<1>3. m_bRendered = FALSE /\ pointed = FALSE /\ m_iSelectedItem = -1 /\ answer = NoAnswer
  BY Zenon DEF TabInit
<1>4. m_bRendered \in BOOLEAN /\ pointed \in BOOLEAN  BY <1>3
<1>5. m_iSelectedItem \in Int
  <2>1. -1 \in Int  OBVIOUS
  <2>2. QED  BY <1>3, <2>1, Zenon
<1>6. QED  BY <1>2, <1>3, <1>4, <1>5, Zenon DEF TabInv

LEMMA TextOfTyped ==
    ASSUME dialog \in [style : Styles, rows : Seq(Nat)], NEW row \in Int
    PROVE  TextOf(row) \in Int
<1>1. PICK d \in [style : Styles, rows : Seq(Nat)] : d = dialog  OBVIOUS
<1>2. \A i \in DOMAIN firstTabs(d) : firstTabs(d)[i] \in Int  BY TextsInPlace
<1>3. QED  BY <1>1, <1>2 DEF TextOf

LEMMA TempItemTyped == ASSUME TabInv PROVE TempItem \in Int
<1>1. m_iSelectedItem \in Int  BY DEF TabInv
<1>2. Max({m_iSelectedItem, 1}) \in Int  BY <1>1, MaxOfTwo
<1>3. QED  BY <1>1, <1>2 DEF TempItem

LEMMA TableAnswers ==
    ASSUME TabInv, NEW by \in {"double click", "button"},
           SendDialogResponse(IF by = "button" THEN TempItem ELSE m_iSelectedItem, by)
    PROVE  TabInv'
<1>1. PICK item, row, words, sure :
         /\ item = (IF by = "button" THEN TempItem ELSE m_iSelectedItem) /\ row = m_iSelectedItem
         /\ words = TextOf(row) /\ sure = pointed
  OBVIOUS
<1>2. row \in Int /\ item \in Int /\ sure \in BOOLEAN  BY <1>1, TempItemTyped DEF TabInv
<1>3. words \in Int  BY <1>1, <1>2, TextOfTyped DEF TabInv
<1>4. /\ answer' = [by |-> by, item |-> item, text |-> words, row |-> row, sure |-> sure]
      /\ m_bRendered' = FALSE /\ dialog' = dialog /\ m_iSelectedItem' = row /\ pointed' = sure
  BY <1>1 DEF SendDialogResponse
<1>5. TextOf(m_iSelectedItem)' = words /\ TempItem' = TempItem
  BY <1>1, <1>4 DEF TextOf, TempItem
<1>6. answer' \in [by : {"double click", "button"}, item : Int, text : Int, row : Int, sure : BOOLEAN]
      /\ answer'.by = by /\ answer'.item = item /\ answer'.text = words /\ answer'.row = row /\ answer'.sure = sure
  BY <1>2, <1>3, <1>4
<1>7. Answered'
  BY <1>1, <1>4, <1>5, <1>6 DEF Answered
<1>8. QED  BY <1>1, <1>4, <1>7 DEF TabInv

LEMMA TabStep == TabInv /\ TabNext => TabInv'
<1> SUFFICES ASSUME TabInv, TabNext PROVE TabInv'  OBVIOUS
<1>1. ASSUME NEW style \in Styles, NEW rows \in {t \in Tables : t = << >> \/ t[1] > 0},
             ShowTable(style, rows)
      PROVE  TabInv'
  <2>1. rows \in Seq(Nat)
    <3>1. PICK n \in 0 .. MaxRows : rows \in [1 .. n -> 0 .. MaxTabs + 1]  BY DEF Tables
    <3>2. n \in Nat  BY <3>1, TabListAssumption
    <3>3. \A i \in 1 .. n : rows[i] \in Nat  BY <3>1, TabListAssumption
    <3>4. QED  BY <3>1, <3>2, <3>3
  <2>2. PICK after : after = IF rows = << >> THEN dialog.rows ELSE rows  OBVIOUS
  <2>3. after \in Seq(Nat) /\ (after # << >> => after[1] > 0)  BY <2>1, <2>2 DEF TabInv
  <2>4. /\ dialog' = [style |-> style, rows |-> after] /\ m_bRendered' = TRUE /\ pointed' = FALSE
        /\ answer' = NoAnswer /\ m_iSelectedItem' = m_iSelectedItem
    BY <1>1, <2>2 DEF ShowTable
  <2>5. QED  BY <2>3, <2>4 DEF TabInv
<1>2. ASSUME NEW row \in 0 .. MaxRows - 1, Point(row) PROVE TabInv'
  <2>1. m_bRendered /\ row \in TableRows(dialog) /\ row \in Int  BY <1>2 DEF Point
  <2>2. m_iSelectedItem' = row /\ pointed' = TRUE /\ UNCHANGED <<dialog, m_bRendered, answer>>
    BY <1>2 DEF Point
  <2>3. answer = NoAnswer  BY <2>1 DEF TabInv, Answered
  <2>4. TableRows(dialog)' = TableRows(dialog)  BY <2>2
  <2>5. QED  BY <2>1, <2>2, <2>3, <2>4 DEF TabInv
<1>3. CASE DoubleClick
  <2>1. SendDialogResponse(m_iSelectedItem, "double click")  BY <1>3 DEF DoubleClick
  <2>2. QED  BY <2>1, TableAnswers
<1>4. CASE TableButton
  <2>1. SendDialogResponse(TempItem, "button")  BY <1>4 DEF TableButton
  <2>2. QED  BY <2>1, TableAnswers
<1>5. QED  BY <1>1, <1>2, <1>3, <1>4 DEF TabNext

LEMMA AnswersHold == TabInv => AnswersRight
<1> SUFFICES ASSUME TabInv, answer # NoAnswer, answer.sure,
                    0 \notin ToSet(dialog.rows) \/ dialog.style = "list"
             PROVE  /\ answer.text = answer.row
                    /\ answer.item = IF Style(dialog) = "headers" /\ answer.by = "button"
                                     THEN answer.row - 1 ELSE answer.row
  BY DEF AnswersRight
<1>1. Answered  BY DEF TabInv
<1>2. PICK d \in [style : Styles, rows : Seq(Nat)] : d = dialog  BY DEF TabInv
<1>3. PICK row \in Int : row = m_iSelectedItem  BY DEF TabInv
<1>4. row \in TableRows(d) /\ answer.row = row /\ answer.text = TextOf(row)
      /\ answer.item = IF answer.by = "button" THEN TempItem ELSE row
  BY <1>1, <1>2, <1>3 DEF Answered, TabInv
<1>5. FirstRow(d) \in {0, 1} /\ (FirstRow(d) = 1 <=> Style(d) = "headers")  BY DEF FirstRow
<1>6. row \in FirstRow(d) .. Len(d.rows) - 1 /\ row + 1 \in 1 .. Len(d.rows)
  BY <1>4, <1>5 DEF TableRows
<1>7. TextOf(row) = row
  <2>1. ASSUME d.style # "list", NEW i \in DOMAIN d.rows PROVE d.rows[i] > 0
    <3>1. d.rows[i] \in ToSet(d.rows) /\ d.rows[i] \in Nat  BY DEF ToSet
    <3>2. QED  BY <1>2, <2>1, <3>1
  <2>2. firstTabs(d) = [i \in 1 .. Len(d.rows) |-> i - 1]  BY <2>1, TextsInPlace
  <2>3. QED  BY <1>2, <1>6, <2>2 DEF TextOf
<1>8. TempItem = IF Style(d) = "headers" THEN row - 1 ELSE row
  <2>1. CASE Style(d) = "headers"
    <3>1. row >= 1  BY <1>5, <1>6, <2>1
    <3>2. Max({row, 1}) = row  BY <3>1, MaxOfTwo
    <3>3. QED  BY <1>2, <1>3, <2>1, <3>2 DEF TempItem
  <2>2. CASE Style(d) # "headers"  BY <1>2, <1>3, <2>2 DEF TempItem
  <2>3. QED  BY <2>1, <2>2
<1>9. QED  BY <1>2, <1>4, <1>7, <1>8

(* A row that is no wider than the first ends where it began. *)
LEMMA PlaceTyped ==
    ASSUME NEW n \in Nat \ {0}, NEW columns \in Seq({0}) \ {<< >>}, NEW cells \in 0 .. n
    PROVE  PlaceRow(n, columns, cells) \in Seq({0}) \ {<< >>}
<1>1. Min({cells, n + 1}) = cells  BY MinOfTwo
<1>2. Max({cells, n}) = n  BY MaxOfTwo
<1>3. Last(columns) = 0  BY DEF Last
<1>4. n % n = 0
  <2>1. n = n * (n \div n) + (n % n) /\ (n % n) \in 0 .. n - 1 /\ n \div n \in Int  OBVIOUS
  <2>2. PICK q, r \in Int : q = n \div n /\ r = n % n  BY <2>1
  <2>3. n = n * q + r /\ 0 <= r /\ r < n  BY <2>1, <2>2
  <2>4. q = 1
    <3>1. CASE q >= 2
      <4>1. n * (q - 2) \in Nat /\ n * q = n * (q - 2) + 2 * n  BY <3>1
      <4>2. QED  BY <2>3, <4>1
    <3>2. CASE q <= 0
      <4>1. n * (0 - q) \in Nat /\ n * q = 0 - n * (0 - q)  BY <3>2
      <4>2. QED  BY <2>3, <4>1
    <3>3. QED  BY <2>2, <3>1, <3>2
  <2>5. QED  BY <2>2, <2>3, <2>4
<1>9. (Last(columns) + n) % n = 0  BY <1>3, <1>4
<1>10. Max({Min({cells, n + 1}), n}) = n  BY <1>1, <1>2
<1>5. PlaceRow(n, columns, cells) = Append(columns, 0)  BY <1>9, <1>10, Zenon DEF PlaceRow
<1>6. PICK more : more = Append(columns, 0)  OBVIOUS
<1>7. more \in Seq({0}) /\ Len(more) = Len(columns) + 1 /\ Len(columns) \in Nat  BY <1>6
<1>8. QED  BY <1>5, <1>6, <1>7

LEMMA RowsHold == TabInv => RowsAligned
<1> SUFFICES ASSUME TabInv, dialog.rows # << >>, Style(dialog) # "list",
                    \A i \in DOMAIN dialog.rows : dialog.rows[i] <= iTabsCount(dialog)
             PROVE  \A i \in DOMAIN RowColumns(dialog) : RowColumns(dialog)[i] = 0
  BY DEF RowsAligned
<1>1. PICK d \in [style : Styles, rows : Seq(Nat)] : d = dialog  BY DEF TabInv
<1>2. d.style # "list" /\ d.rows # << >> /\ d.rows[1] > 0  BY <1>1 DEF Style, TabInv
<1>3. PICK n : n = iTabsCount(d)  OBVIOUS
<1>4. n \in Nat \ {0}
  <2>1. MaxTabs \in Nat \ {0} /\ d.rows[1] \in Nat  BY <1>2, TabListAssumption
  <2>2. n = Min({d.rows[1], MaxTabs})  BY <1>2, <1>3 DEF iTabsCount
  <2>3. QED  BY <1>2, <2>1, <2>2, SmallerOfTwo
<1>5. PICK first \in {0, 1} : first = FirstRow(d)  BY DEF FirstRow
<1>6. PICK q : q = SubSeq(d.rows, first + 1, Len(d.rows))  OBVIOUS
<1>7. PICK N \in Nat : N = Len(q) /\ q \in [1 .. N -> 0 .. n]
  <2>1. \A i \in first + 1 .. Len(d.rows) : d.rows[i] \in 0 .. n
    <3> TAKE i \in first + 1 .. Len(d.rows)
    <3>1. i \in DOMAIN d.rows /\ d.rows[i] \in Nat  OBVIOUS
    <3>2. QED  BY <1>1, <1>3, <1>4, <3>1
  <2>2. first + 1 \in Int /\ Len(d.rows) \in Int  OBVIOUS
  <2>3. q \in Seq(0 .. n)  BY <1>6, <2>1, <2>2, SubSeqProperties
  <2>4. Len(q) \in Nat /\ q \in [1 .. Len(q) -> 0 .. n]
    <3>1. PICK S : S = 0 .. n  OBVIOUS
    <3>2. q \in Seq(S)  BY <2>3, <3>1
    <3>3. Len(q) \in Nat /\ q \in [1 .. Len(q) -> S]  BY <3>2
    <3>4. QED  BY <3>1, <3>3, Zenon
  <2>5. QED  BY <2>4, Zenon
<1>8. RowColumns(d) = PlaceFold(n, <<0>>, q)
  BY <1>3, <1>5, <1>6 DEF RowColumns, PlaceFold
<1> DEFINE V == Seq({0}) \ {<< >>}
<1>9. <<0>> \in V /\ \A s \in V : \A x \in 0 .. n : PlaceRow(n, s, x) \in V
  <2>1. <<0>> \in V  OBVIOUS
  <2>2. ASSUME NEW s \in V, NEW x \in 0 .. n PROVE PlaceRow(n, s, x) \in V  BY <1>4, PlaceTyped
  <2> HIDE DEF V
  <2>3. QED  BY <2>1, <2>2
<1>10. RowColumns(d) \in V
  <2> HIDE DEF V
  <2>1. PICK run \in [0 .. N -> V] : PlaceRun(n, run, N, <<0>>, q)  BY <1>7, <1>9, PlaceRuns
  <2>2. run[N] = PlaceFold(n, <<0>>, q)  BY <2>1 DEF PlaceRun
  <2>3. QED  BY <1>8, <2>2
<1>11. QED  BY <1>1, <1>10

-----------------------------------------------------------------------------

SayInv == text \in Seq(Symbols) /\ WindowInv /\ OverheadInv /\ TagsInv /\ TabInv

LEMMA TextStep == text \in Seq(Symbols) /\ TextNext => text' \in Seq(Symbols)
<1> SUFFICES ASSUME text \in Seq(Symbols), TextNext PROVE text' \in Seq(Symbols)  OBVIOUS
<1>1. ASSUME NEW c \in Symbols, Type(c) PROVE text' \in Seq(Symbols)  BY <1>1 DEF Type
<1>2. << >> \in Seq(Symbols)  OBVIOUS
<1>3. QED  BY <1>1, <1>2 DEF TextNext

(* Nothing is said: each part by itself. *)
LEMMA PartsRest ==
    /\ WindowInv /\ UNCHANGED chatVars => WindowInv'
    /\ OverheadInv /\ UNCHANGED overheadVars => OverheadInv'
    /\ TagsInv /\ UNCHANGED tagVars => TagsInv'
    /\ TabInv /\ UNCHANGED tabVars => TabInv'
<1>1. WindowInv /\ UNCHANGED chatVars => WindowInv'
  BY DEF WindowInv, chatVars, placeVars
<1>2. OverheadInv /\ UNCHANGED overheadVars => OverheadInv'
  BY DEF OverheadInv, overheadVars, bubbleVars
<1>3. TagsInv /\ UNCHANGED tagVars => TagsInv'
  BY DEF TagsInv, TalkersListed, tagVars
<1>4. TabInv /\ UNCHANGED tabVars => TabInv'
  <2> SUFFICES ASSUME TabInv, UNCHANGED tabVars PROVE TabInv'  OBVIOUS
  <2>1. UNCHANGED <<dialog, m_bRendered, m_iSelectedItem, pointed, answer>>  BY DEF tabVars
  <2>2. /\ TableRows(dialog)' = TableRows(dialog) /\ TempItem' = TempItem
        /\ TextOf(m_iSelectedItem)' = TextOf(m_iSelectedItem)
    BY <2>1 DEF TempItem, TextOf
  <2>3. Answered => Answered'  BY <2>1, <2>2 DEF Answered
  <2>4. QED  BY <2>1, <2>2, <2>3 DEF TabInv
<1>5. QED  BY <1>1, <1>2, <1>3, <1>4

LEMMA SayStep == SayInv /\ SayNext => SayInv'
<1> SUFFICES ASSUME SayInv, SayNext PROVE SayInv'  OBVIOUS
<1>1. text \in Seq(Symbols) /\ WindowInv /\ OverheadInv /\ TagsInv /\ TabInv  BY DEF SayInv
<1>2. CASE TextNext /\ UNCHANGED <<chatVars, overheadVars, tagVars, tabVars, sayPart>>
  BY <1>1, <1>2, TextStep, PartsRest DEF SayInv
<1>3. CASE ChatNext /\ UNCHANGED <<text, overheadVars, tagVars, tabVars, sayPart>>
  BY <1>1, <1>3, WindowStep, PartsRest DEF SayInv
<1>4. CASE OverheadNext /\ UNCHANGED <<text, chatVars, tagVars, tabVars, sayPart>>
  BY <1>1, <1>4, OverheadStep, PartsRest DEF SayInv
<1>5. CASE TagsNext /\ UNCHANGED <<text, chatVars, overheadVars, tabVars, sayPart>>
  BY <1>1, <1>5, TagsStep, PartsRest DEF SayInv
<1>6. CASE TabNext /\ UNCHANGED <<text, chatVars, overheadVars, tagVars, sayPart>>
  BY <1>1, <1>6, TabStep, PartsRest DEF SayInv
<1>7. QED  BY <1>2, <1>3, <1>4, <1>5, <1>6 DEF SayNext

(* For texts of any length, any chat, talkers, labels and tables: the      *)
(* parsers of colour tags agree, no letter of a message is cut off, the    *)
(* chat is in order, what hangs over heads is current, who is listed as    *)
(* talking talks, and a table answers for the row that was pointed at.     *)
THEOREM SaysAsShown == PlayerSpec => []SaidIsShown
<1>1. PlayerInit => SayInv
  <2> SUFFICES ASSUME SayInit PROVE SayInv  BY DEF PlayerInit
  <2>1. << >> \in Seq(Symbols)  OBVIOUS
  <2>2. QED
    BY <2>1, WindowStart, OverheadStart, TagsStart, TabStart DEF SayInit, TextInit, SayInv
<1>2. SayInv /\ [PlayerNext]_playerVars => SayInv'
  <2> SUFFICES ASSUME SayInv, [PlayerNext]_playerVars PROVE SayInv'  OBVIOUS
  <2>1. CASE SayNext  BY <2>1, SayStep
  <2>2. CASE UNCHANGED sayVars
    <3>1. UNCHANGED <<text, chatVars, overheadVars, tagVars, tabVars>>  BY <2>2 DEF sayVars
    <3>2. QED  BY <3>1, PartsRest DEF SayInv
  <2>3. QED  BY <2>1, <2>2 DEF PlayerNext, playerVars
<1>3. SayInv => SaidIsShown
  <2> SUFFICES ASSUME SayInv PROVE SaidIsShown  OBVIOUS
  <2>1. TagsAgree  BY TagsRead DEF SayInv
  <2>2. NothingCutOff
    <3>1. PICK t \in Seq(Symbols) : t = text  BY DEF SayInv
    <3>2. QED  BY <3>1, CutsAtSpaces DEF NothingCutOff
  <2>3. ChatInOrder /\ OverheadTrue  BY WindowShows, OverheadShown DEF SayInv
  <2>4. TalkersListed  BY DEF SayInv, TagsInv
  <2>5. AnswersRight /\ RowsAligned  BY AnswersHold, RowsHold DEF SayInv
  <2>6. QED  BY <2>1, <2>2, <2>3, <2>4, <2>5 DEF SaidIsShown
<1>4. QED  BY <1>1, <1>2, <1>3, PTL DEF PlayerSpec
=============================================================================
