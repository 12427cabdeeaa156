-------------------------- MODULE SPSCQueueProofs --------------------------
(***************************************************************************)
(* The queue, for any numbers of nodes and writes: its nodes stay one ring *)
(* wherever the threads stand, what is read is what was written, in order, *)
(* and every step of it is a step of the channel it implements.            *)
(***************************************************************************)
EXTENDS SPSCQueue, FiniteSetTheorems, TLAPS

(* The nodes that are in the ring: not the one being spliced in. *)
Size == IF producer = "link" THEN allocated - 1 ELSE allocated

(* The node behind each in the ring, also while one is being spliced in. *)
Links == [n \in Nodes |-> IF producer = "link" /\ n = writeAheadPointer THEN originalNext ELSE next[n]]

(* The consumer has taken the oldest node and not handed it back. *)
Reads == consumer \in {"reading", "unlock", "stepOver"}

(* How many objects are in nodes handed back, and in nodes that are not. *)
Base == IF consumer \in {"unlock", "stepOver"} THEN Len(received) - 1 ELSE Len(received)
Full == sent - Base

(* The nodes 1 to size, each once, in the order of their links from first. *)
IsRing(ring, size, links, first) ==
    /\ ring \in [0..(size - 1) -> 1..size]
    /\ \A i, j \in 0..(size - 1) : ring[i] = ring[j] => i = j
    /\ \A n \in 1..size : \E i \in 0..(size - 1) : ring[i] = n
    /\ \A i \in 0..(size - 2) : links[ring[i]] = ring[i + 1]
    /\ links[ring[size - 1]] = ring[0]
    /\ first = ring[0]

(* First the published nodes, then the one being filled, then the rest:    *)
(* both users have their places in that order.                             *)
Places(ring) ==
    /\ Full \in 0..(Size - 1)
    /\ producer \in {"testReady", "advance", "publish"} => Full <= Size - 2
    /\ consumer = "testReady" \/ Reads => Full >= 1
    /\ readAheadPointer = ring[IF Reads THEN 1 ELSE 0]
    /\ Reads => held = ring[0]
    /\ writePointer = ring[Full]
    /\ writeAheadPointer = ring[IF producer = "publish" THEN Full + 1 ELSE Full]
    /\ producer = "publish" => slot = ring[Full]

(* What the nodes hold. *)
Contents(ring) ==
    /\ \A i \in 0..(Full - 1) : object[ring[i]] = Base + i + 1
    /\ producer = "publish" /\ "object" \notin todo => object[ring[Full]] = sent + 1

Splice ==
    producer = "link" =>
        allocated > MinListSize /\ next[writeAheadPointer] = allocated /\ originalNext \in Nodes

Filling ==
    /\ producer # "idle" => sent < MaxWrites
    /\ producer = "publish" => "pointer" \in todo /\ ("object" \in todo => "ready" \in todo)

InOrder ==
    /\ received = [i \in 1..Len(received) |-> i]
    /\ consumer \in {"unlock", "stepOver"} => received # << >>
    /\ consumer = "late" => held \in Nodes

IInv ==
    /\ QueueTypeOK /\ Splice /\ Filling /\ InOrder
    /\ \E ring \in [0..(Size - 1) -> 1..Size] :
           IsRing(ring, Size, Links, readPointer) /\ Places(ring) /\ Contents(ring)

-----------------------------------------------------------------------------
(* Facts about the operators *)

(* The three stores of WriteUnlock. *)
LEMMA TheStores == Range(Stores) = {"object", "ready", "pointer"}
<1>1. DOMAIN Stores = 1..3  BY DEF Stores
<1>2. Stores[1] = "object" /\ Stores[2] = "ready" /\ Stores[3] = "pointer"  BY DEF Stores
<1>3. QED  BY <1>1, <1>2 DEF Range

(* In program order a store becomes visible after those before it. *)
LEMMA MayStoreInOrder ==
    ASSUME StoresInOrder, NEW s \in Range(Stores), MayStore(s)
    PROVE  /\ s \in todo
           /\ s = "ready" => "object" \notin todo
           /\ s = "pointer" => "object" \notin todo /\ "ready" \notin todo
<1>1. DOMAIN Stores = 1..3  BY DEF Stores
<1>2. Stores[1] = "object" /\ Stores[2] = "ready" /\ Stores[3] = "pointer"  BY DEF Stores
<1>3. QED  BY <1>1, <1>2 DEF MayStore

(* The ring is some of the nodes, and more than two. *)
LEMMA SizeFacts ==
    ASSUME QueueTypeOK, Splice
    PROVE  /\ Size \in Nat /\ 3 <= Size /\ Size <= MaxNodes /\ Size <= allocated
           /\ 1..Size \subseteq Nodes
BY SizesAssumption DEF QueueTypeOK, Splice, Size, Nodes

(* One more node, put in behind the node at place p of a ring.             *)
PutIn(size, p, ring, links, wider, spliced) ==
    /\ wider \in [0..size -> 1..(size + 1)]
    /\ \A i \in 0..p : wider[i] = ring[i]
    /\ wider[p + 1] = size + 1
    /\ \A i \in (p + 2)..size : wider[i] = ring[i - 1]
    /\ spliced[ring[p]] = size + 1 /\ spliced[size + 1] = links[ring[p]]
    /\ \A n \in 1..size : n # ring[p] => spliced[n] = links[n]

(* A ring stays one when a node is put in behind one of its nodes. *)
LEMMA Spliced ==
    ASSUME NEW size \in Nat, NEW p \in 0..(size - 1), NEW ring, NEW links, NEW wider, NEW spliced, NEW first,
           IsRing(ring, size, links, first), PutIn(size, p, ring, links, wider, spliced)
    PROVE  IsRing(wider, size + 1, spliced, first)
<1> USE DEF PutIn
<1>1. /\ \A i \in 0..p : wider[i] = ring[i] /\ i \in 0..(size - 1)
      /\ wider[p + 1] = size + 1
      /\ \A i \in (p + 2)..size : wider[i] = ring[i - 1] /\ i - 1 \in 0..(size - 1)
      /\ p + 1 \in 0..size
  OBVIOUS
<1>2. \A i \in 0..(size - 1) : ring[i] \in 1..size /\ ring[i] # size + 1
  <2>1. ring \in [0..(size - 1) -> 1..size]  BY DEF IsRing
  <2>2. QED  BY <2>1
<1>3. \A i, j \in 0..(size - 1) : ring[i] = ring[j] => i = j  BY DEF IsRing
<1>4. wider \in [0..size -> 1..(size + 1)]  OBVIOUS
<1>5. \A i, j \in 0..size : wider[i] = wider[j] => i = j
  <2>1. SUFFICES ASSUME NEW i \in 0..size, NEW j \in 0..size, wider[i] = wider[j], i < j PROVE FALSE
    OBVIOUS
  <2>2. CASE j <= p
    BY <2>1, <2>2, <1>1, <1>3
  <2>3. CASE j = p + 1
    BY <2>1, <2>3, <1>1, <1>2
  <2>4. CASE i = p + 1
    <3>1. j \in (p + 2)..size  BY <2>1, <2>4
    <3>2. QED  BY <3>1, <2>1, <2>4, <1>1, <1>2
  <2>5. CASE i <= p /\ j > p + 1
    <3>1. i \in 0..p /\ j \in (p + 2)..size  BY <2>1, <2>5
    <3>2. i = j - 1  BY <3>1, <2>1, <1>1, <1>3
    <3>3. QED  BY <3>2, <2>5
  <2>6. CASE i > p + 1
    <3>1. i \in (p + 2)..size /\ j \in (p + 2)..size  BY <2>1, <2>6
    <3>2. i - 1 = j - 1  BY <3>1, <2>1, <1>1, <1>3
    <3>3. QED  BY <3>2, <2>1
  <2>7. QED  BY <2>1, <2>2, <2>3, <2>4, <2>5, <2>6
<1>6. \A n \in 1..(size + 1) : \E i \in 0..size : wider[i] = n
  <2> TAKE n \in 1..(size + 1)
  <2>1. CASE n = size + 1
    BY <2>1, <1>1
  <2>2. CASE n \in 1..size
    <3>1. PICK i \in 0..(size - 1) : ring[i] = n  BY <2>2 DEF IsRing
    <3>2. CASE i <= p
      BY <3>1, <3>2, <1>1
    <3>3. CASE i > p
      <4>1. i + 1 \in (p + 2)..size /\ (i + 1) - 1 = i  BY <3>1, <3>3
      <4>2. wider[i + 1] = n /\ i + 1 \in 0..size  BY <4>1, <3>1, <1>1
      <4>3. QED  BY <4>2
    <3>4. QED  BY <3>1, <3>2, <3>3
  <2>3. QED  BY <2>1, <2>2
<1>7. \A i \in 0..(size - 1) : i # p => spliced[ring[i]] = links[ring[i]]
  BY <1>2, <1>3
<1>8. \A i \in 0..(size - 1) : spliced[wider[i]] = wider[i + 1]
  <2> TAKE i \in 0..(size - 1)
  <2>1. CASE i < p
    <3>1. i \in 0..p /\ i + 1 \in 0..p /\ i \in 0..(size - 2)  BY <2>1
    <3>2. wider[i] = ring[i] /\ wider[i + 1] = ring[i + 1]  BY <3>1, <1>1
    <3>3. links[ring[i]] = ring[i + 1]  BY <3>1 DEF IsRing
    <3>4. QED  BY <2>1, <3>2, <3>3, <1>7
  <2>2. CASE i = p
    BY <2>2, <1>1
  <2>3. CASE i = p + 1
    <3>1. p \in 0..(size - 2) /\ p + 2 \in (p + 2)..size /\ (p + 2) - 1 = p + 1 /\ i + 1 = p + 2
      BY <2>3
    <3>2. wider[i] = size + 1 /\ wider[i + 1] = ring[p + 1]  BY <3>1, <2>3, <1>1
    <3>3. links[ring[p]] = ring[p + 1]  BY <3>1 DEF IsRing
    <3>4. QED  BY <3>2, <3>3
  <2>4. CASE i > p + 1
    <3>1. /\ i \in (p + 2)..size /\ i + 1 \in (p + 2)..size /\ i - 1 \in 0..(size - 2)
          /\ (i + 1) - 1 = i /\ (i - 1) + 1 = i /\ i - 1 \in 0..(size - 1) /\ i - 1 # p
      BY <2>4
    <3>2. wider[i] = ring[i - 1] /\ wider[i + 1] = ring[i]  BY <3>1, <1>1
    <3>3. links[ring[i - 1]] = ring[(i - 1) + 1]  BY <3>1 DEF IsRing
    <3>4. spliced[ring[i - 1]] = links[ring[i - 1]]  BY <3>1, <1>7
    <3>5. QED  BY <3>1, <3>2, <3>3, <3>4
  <2>5. QED  BY <2>1, <2>2, <2>3, <2>4
<1>9. spliced[wider[size]] = wider[0]
  <2>1. links[ring[size - 1]] = ring[0] /\ wider[0] = ring[0]  BY <1>1 DEF IsRing
  <2>2. CASE p = size - 1
    BY <2>1, <2>2, <1>1
  <2>3. CASE p # size - 1
    <3>1. size \in (p + 2)..size /\ size - 1 \in 0..(size - 1) /\ size - 1 # p  BY <2>3
    <3>2. wider[size] = ring[size - 1]  BY <3>1, <1>1
    <3>3. QED  BY <3>1, <3>2, <2>1, <1>7
  <2>4. QED  BY <2>2, <2>3
<1>10. first = wider[0]  BY <1>1 DEF IsRing
<1>11. (size + 1) - 1 = size /\ (size + 1) - 2 = size - 1  OBVIOUS
<1>12. QED  BY <1>4, <1>5, <1>6, <1>8, <1>9, <1>10, <1>11 DEF IsRing

(* A ring stays one seen from its second node. *)
LEMMA Turned ==
    ASSUME NEW size \in Nat, size >= 3, NEW ring, NEW links, NEW turned, NEW first,
           IsRing(ring, size, links, first),
           turned = [i \in 0..(size - 1) |-> IF i = size - 1 THEN ring[0] ELSE ring[i + 1]]
    PROVE  IsRing(turned, size, links, links[first])
<1>1. /\ \A i \in 0..(size - 2) : turned[i] = ring[i + 1] /\ i + 1 \in 0..(size - 1)
      /\ turned[size - 1] = ring[0]
  OBVIOUS
<1>2. turned \in [0..(size - 1) -> 1..size]  BY DEF IsRing
<1>3. \A i, j \in 0..(size - 1) : ring[i] = ring[j] => i = j  BY DEF IsRing
<1>4. \A i, j \in 0..(size - 1) : turned[i] = turned[j] => i = j
  <2>1. SUFFICES ASSUME NEW i \in 0..(size - 1), NEW j \in 0..(size - 1), turned[i] = turned[j], i < j
                 PROVE  FALSE
    OBVIOUS
  <2>2. i \in 0..(size - 2)  BY <2>1
  <2>3. CASE j = size - 1
    <3>1. i + 1 = 0  BY <2>1, <2>2, <2>3, <1>1, <1>3
    <3>2. QED  BY <3>1
  <2>4. CASE j # size - 1
    <3>1. i + 1 = j + 1  BY <2>1, <2>2, <2>4, <1>1, <1>3
    <3>2. QED  BY <3>1, <2>1
  <2>5. QED  BY <2>3, <2>4
<1>5. \A n \in 1..size : \E i \in 0..(size - 1) : turned[i] = n
  <2> TAKE n \in 1..size
  <2>1. PICK i \in 0..(size - 1) : ring[i] = n  BY DEF IsRing
  <2>2. CASE i = 0
    BY <2>1, <2>2, <1>1
  <2>3. CASE i # 0
    <3>1. i - 1 \in 0..(size - 2) /\ (i - 1) + 1 = i  BY <2>3
    <3>2. turned[i - 1] = n /\ i - 1 \in 0..(size - 1)  BY <3>1, <2>1, <1>1
    <3>3. QED  BY <3>2
  <2>4. QED  BY <2>2, <2>3
<1>6. \A i \in 0..(size - 2) : links[turned[i]] = turned[i + 1]
  <2> TAKE i \in 0..(size - 2)
  <2>1. CASE i = size - 2
    <3>1. turned[i] = ring[size - 1] /\ turned[i + 1] = ring[0]  BY <2>1, <1>1
    <3>2. QED  BY <3>1 DEF IsRing
  <2>2. CASE i # size - 2
    <3>1. i + 1 \in 0..(size - 2)  BY <2>2
    <3>2. turned[i] = ring[i + 1] /\ turned[i + 1] = ring[(i + 1) + 1]  BY <3>1, <1>1
    <3>3. QED  BY <3>1, <3>2 DEF IsRing
  <2>3. QED  BY <2>1, <2>2
<1>7. links[turned[size - 1]] = turned[0]
  <2>1. turned[size - 1] = ring[0] /\ turned[0] = ring[1] /\ 0 \in 0..(size - 2) /\ 0 + 1 = 1  BY <1>1
  <2>2. links[ring[0]] = ring[0 + 1]  BY <2>1 DEF IsRing
  <2>3. QED  BY <2>1, <2>2
<1>8. links[first] = turned[0]
  BY <1>1, <1>7 DEF IsRing
<1>9. QED  BY <1>2, <1>4, <1>5, <1>6, <1>7, <1>8 DEF IsRing

-----------------------------------------------------------------------------
(* The invariant holds at first *)

LEMMA InitIInv == QueueInit => IInv
<1> SUFFICES ASSUME QueueInit PROVE IInv
  OBVIOUS
<1> USE SizesAssumption
<1>1. QueueTypeOK
  <2>1. next \in [Nodes -> Nodes \cup {Null}]  BY DEF QueueInit, Nodes, Null
  <2>2. object \in [Nodes -> 0..MaxWrites]  BY DEF QueueInit, Nodes, Null
  <2>3. received \in Seq(0..MaxWrites) /\ freed \in Seq(0..MaxWrites)  BY DEF QueueInit
  <2>4. allocated \in MinListSize..MaxNodes  BY DEF QueueInit
  <2>5. 1 \in Nodes /\ Null \in Nodes \cup {Null} /\ 0 \in 0..MaxWrites  BY DEF Nodes
  <2>6. {readPointer, readAheadPointer, writePointer, writeAheadPointer} \subseteq Nodes
    BY <2>5 DEF QueueInit
  <2>7. {originalNext, slot, held} \subseteq Nodes \cup {Null} /\ todo \subseteq Range(Stores)
    BY <2>5 DEF QueueInit
  <2>8. QED  BY <2>1, <2>2, <2>3, <2>4, <2>5, <2>6, <2>7 DEF QueueInit, QueueTypeOK
<1>2. Splice /\ Filling /\ InOrder
  <2>1. received = [i \in 1..Len(received) |-> i]  BY DEF QueueInit
  <2>2. QED  BY <2>1 DEF QueueInit, Splice, Filling, InOrder
<1>3. Size = MinListSize /\ Full = 0 /\ ~Reads /\ Base = 0
  <2>1. Len(received) = 0  BY DEF QueueInit
  <2>2. producer = "idle" /\ consumer = "idle" /\ allocated = MinListSize /\ sent = 0  BY DEF QueueInit
  <2>3. Size = MinListSize /\ ~Reads /\ Base = 0  BY <2>1, <2>2 DEF Size, Base, Reads
  <2>4. QED  BY <2>2, <2>3 DEF Full
<1> DEFINE ring == [i \in 0..(Size - 1) |-> i + 1]
<1>4. IsRing(ring, Size, Links, readPointer)
  <2>1. ring \in [0..(Size - 1) -> 1..Size]  BY <1>3
  <2>2. \A i, j \in 0..(Size - 1) : ring[i] = ring[j] => i = j  BY <1>3
  <2>3. \A n \in 1..Size : \E i \in 0..(Size - 1) : ring[i] = n
    <3> TAKE n \in 1..Size
    <3>1. n - 1 \in 0..(Size - 1) /\ ring[n - 1] = n  BY <1>3
    <3> QED  BY <3>1
  <2>4. Links = next  BY DEF QueueInit, Links
  <2>5. \A i \in 0..(Size - 2) : Links[ring[i]] = ring[i + 1]
    BY <1>3, <2>4 DEF QueueInit, Nodes
  <2>6. Links[ring[Size - 1]] = ring[0]
    BY <1>3, <2>4 DEF QueueInit, Nodes
  <2>7. readPointer = ring[0]  BY <1>3 DEF QueueInit
  <2>8. QED  BY <2>1, <2>2, <2>3, <2>5, <2>6, <2>7 DEF IsRing
<1>5. Places(ring) /\ Contents(ring)
  BY <1>3 DEF QueueInit, Places, Contents
<1>6. QED
  <2>1. ring \in [0..(Size - 1) -> 1..Size]  BY <1>3
  <2> HIDE DEF ring
  <2> QED  BY <2>1, <1>1, <1>2, <1>4, <1>5 DEF IInv

-----------------------------------------------------------------------------
(* The producer's steps *)

(* What an action finds: the ring, and that its links are the next fields  *)
(* unless a node is being spliced in.                                      *)
LEMMA TheRing ==
    ASSUME IInv
    PROVE  \E ring : /\ IsRing(ring, Size, Links, readPointer) /\ Places(ring) /\ Contents(ring)
                     /\ ring \in [0..(Size - 1) -> 1..Size]
                     /\ \A i \in 0..(Size - 1) : ring[i] \in Nodes /\ ring[i] <= Size
                     /\ readPointer = ring[0]
<1>1. PICK ring \in [0..(Size - 1) -> 1..Size] :
                IsRing(ring, Size, Links, readPointer) /\ Places(ring) /\ Contents(ring)
  BY DEF IInv
<1>2. QueueTypeOK /\ Splice  BY DEF IInv
<1>3. readPointer = ring[0]  BY <1>1 DEF IsRing
<1>4. Size \in Nat /\ 1..Size \subseteq Nodes  BY <1>2, SizeFacts
<1>5. \A i \in 0..(Size - 1) : ring[i] \in Nodes /\ ring[i] <= Size  BY <1>1, <1>4
<1>6. QED  BY <1>1, <1>3, <1>5

LEMMA PlainLinks == QueueTypeOK /\ producer # "link" => Links = next
BY DEF QueueTypeOK, Links

LEMMA TestReaderIInv == IInv /\ TestReader => IInv'
<1> SUFFICES ASSUME IInv, TestReader PROVE IInv'
  OBVIOUS
<1>1. QueueTypeOK /\ Splice /\ Filling /\ InOrder  BY DEF IInv
<1>2. PICK ring : IsRing(ring, Size, Links, readPointer) /\ Places(ring) /\ Contents(ring)
                  /\ readPointer = ring[0] /\ ring \in [0..(Size - 1) -> 1..Size]
                  /\ \A i \in 0..(Size - 1) : ring[i] \in Nodes
  BY TheRing
<1>3. /\ producer = "idle" /\ producer' \in {"extend", "testReady"} /\ sent < MaxWrites
      /\ UNCHANGED <<list, writePointer, writeAheadPointer, originalNext, slot, todo, sent, cvars>>
      /\ producer' = "testReady" => next[writeAheadPointer] # readPointer
  BY DEF TestReader
<1>4. Size' = Size /\ Base' = Base /\ Full' = Full /\ Reads' = Reads
  BY <1>3 DEF Size, Base, Full, Reads, list, cvars
<1>5. Links = next /\ Links' = Links
  <2>1. Links = next  BY <1>1, <1>3, PlainLinks
  <2>2. Links' = next  BY <1>1, <1>3 DEF Links, QueueTypeOK, list
  <2>3. QED  BY <2>1, <2>2
<1>6. QueueTypeOK' /\ Splice' /\ Filling' /\ InOrder'
  BY <1>1, <1>3 DEF QueueTypeOK, Splice, Filling, InOrder, list, cvars
<1>7. producer' = "testReady" => Full <= Size - 2
  <2>1. Size \in Nat /\ 3 <= Size  BY <1>1, SizeFacts
  <2>2. Full \in 0..(Size - 1) /\ writeAheadPointer = ring[Full]  BY <1>2, <1>3 DEF Places
  <2>3. Full = Size - 1 => next[writeAheadPointer] = readPointer
    BY <1>2, <1>5, <2>2 DEF IsRing
  <2>4. QED  BY <2>1, <2>2, <2>3, <1>3
<1>8. Places(ring)'
  BY <1>2, <1>3, <1>4, <1>7 DEF Places, cvars
<1>9. Contents(ring)'
  BY <1>2, <1>3, <1>4 DEF Contents, list
<1>10. IsRing(ring, Size', Links', readPointer')
  BY <1>2, <1>3, <1>4, <1>5 DEF cvars
<1>11. QED  BY <1>2, <1>4, <1>6, <1>8, <1>9, <1>10 DEF IInv

LEMMA TestReadyIInv == IInv /\ TestReady => IInv'
<1> SUFFICES ASSUME IInv, TestReady PROVE IInv'
  OBVIOUS
<1>1. QueueTypeOK /\ Splice /\ Filling /\ InOrder  BY DEF IInv
<1>2. PICK ring : IsRing(ring, Size, Links, readPointer) /\ Places(ring) /\ Contents(ring)
                  /\ ring \in [0..(Size - 1) -> 1..Size]
  BY TheRing
<1>3. /\ producer = "testReady" /\ producer' \in {"extend", "advance"}
      /\ UNCHANGED <<list, writePointer, writeAheadPointer, originalNext, slot, todo, sent, cvars>>
  BY DEF TestReady
<1>4. Size' = Size /\ Base' = Base /\ Full' = Full /\ Reads' = Reads
  BY <1>3 DEF Size, Base, Full, Reads, list, cvars
<1>5. Links' = Links
  <2>1. Links = next  BY <1>1, <1>3, PlainLinks
  <2>2. Links' = next  BY <1>1, <1>3 DEF Links, QueueTypeOK, list
  <2>3. QED  BY <2>1, <2>2
<1>6. QueueTypeOK' /\ Splice' /\ Filling' /\ InOrder'
  BY <1>1, <1>3 DEF QueueTypeOK, Splice, Filling, InOrder, list, cvars
<1>7. Places(ring)'
  BY <1>2, <1>3, <1>4 DEF Places, cvars
<1>8. Contents(ring)'
  BY <1>2, <1>3, <1>4 DEF Contents, list
<1>9. IsRing(ring, Size', Links', readPointer')
  BY <1>2, <1>3, <1>4, <1>5 DEF cvars
<1>10. QED  BY <1>2, <1>4, <1>6, <1>7, <1>8, <1>9 DEF IInv

LEMMA AllocateNodeIInv == IInv /\ AllocateNode => IInv'
<1> SUFFICES ASSUME IInv, AllocateNode PROVE IInv'
  OBVIOUS
<1> USE SizesAssumption
<1>1. QueueTypeOK /\ Splice /\ Filling /\ InOrder  BY DEF IInv
<1>2. PICK ring : IsRing(ring, Size, Links, readPointer) /\ Places(ring) /\ Contents(ring)
                  /\ ring \in [0..(Size - 1) -> 1..Size]
                  /\ \A i \in 0..(Size - 1) : ring[i] \in Nodes
  BY TheRing
<1>3. /\ producer = "extend" /\ producer' = "link"
      /\ allocated < MaxNodes /\ allocated' = allocated + 1
      /\ originalNext' = next[writeAheadPointer]
      /\ next' = [next EXCEPT ![writeAheadPointer] = allocated + 1]
      /\ UNCHANGED <<readyToRead, object, writePointer, writeAheadPointer, slot, todo, sent, cvars>>
  BY DEF AllocateNode
<1>4. allocated \in Nat /\ Size = allocated /\ allocated \in MinListSize..MaxNodes
  BY <1>1, <1>3 DEF QueueTypeOK, Size
<1>5. Size' = Size /\ Base' = Base /\ Full' = Full /\ Reads' = Reads
  BY <1>3, <1>4 DEF Size, Base, Full, Reads, cvars
<1>6. writeAheadPointer \in Nodes /\ next \in [Nodes -> Nodes \cup {Null}] /\ allocated + 1 \in Nodes
  BY <1>1, <1>3, <1>4 DEF QueueTypeOK, Nodes
<1>7. Links = next /\ Links' = Links
  <2>1. Links = next  BY <1>1, <1>3, PlainLinks
  <2>2. \A n \in Nodes : Links'[n] = next[n]  BY <1>3, <1>6 DEF Links
  <2>3. Links' = [n \in Nodes |-> Links'[n]]  BY DEF Links
  <2>4. QED  BY <2>1, <2>2, <2>3, <1>6
<1>8. next[writeAheadPointer] \in Nodes
  <2>1. Size \in Nat /\ 3 <= Size  BY <1>1, SizeFacts
  <2>2. Full \in 0..(Size - 1) /\ writeAheadPointer = ring[Full]  BY <1>2, <1>3 DEF Places
  <2>3. CASE Full = Size - 1
    <3>1. next[writeAheadPointer] = ring[0] /\ 0 \in 0..(Size - 1)  BY <1>2, <1>7, <2>1, <2>2, <2>3 DEF IsRing
    <3>2. QED  BY <3>1, <1>2
  <2>4. CASE Full # Size - 1
    <3>1. Full \in 0..(Size - 2) /\ Full + 1 \in 0..(Size - 1)  BY <2>1, <2>2, <2>4
    <3>2. next[writeAheadPointer] = ring[Full + 1]  BY <1>2, <1>7, <2>2, <3>1 DEF IsRing
    <3>3. QED  BY <3>1, <3>2, <1>2
  <2>5. QED  BY <2>3, <2>4
<1>9. QueueTypeOK'
  <2>1. next' \in [Nodes -> Nodes \cup {Null}]  BY <1>3, <1>6
  <2>2. allocated' \in MinListSize..MaxNodes  BY <1>3, <1>4
  <2>3. QED  BY <1>1, <1>3, <1>8, <2>1, <2>2 DEF QueueTypeOK, cvars
<1>10. Splice' /\ Filling' /\ InOrder'
  <2>1. allocated' > MinListSize  BY <1>3, <1>4
  <2>2. next'[writeAheadPointer'] = allocated'  BY <1>3, <1>6
  <2>3. Splice'  BY <1>3, <1>8, <2>1, <2>2 DEF Splice
  <2>4. Filling' /\ InOrder'  BY <1>1, <1>3 DEF Filling, InOrder, cvars
  <2>5. QED  BY <2>3, <2>4
<1>11. Places(ring)'
  BY <1>2, <1>3, <1>5 DEF Places, cvars
<1>12. Contents(ring)'
  BY <1>2, <1>3, <1>5 DEF Contents
<1>13. IsRing(ring, Size', Links', readPointer')
  BY <1>2, <1>3, <1>5, <1>7 DEF cvars
<1>14. QED  BY <1>2, <1>5, <1>9, <1>10, <1>11, <1>12, <1>13 DEF IInv

LEMMA LinkNodeIInv == IInv /\ LinkNode => IInv'
<1> SUFFICES ASSUME IInv, LinkNode PROVE IInv'
  OBVIOUS
<1> USE SizesAssumption
<1>1. QueueTypeOK /\ Splice /\ Filling /\ InOrder  BY DEF IInv
<1>2. PICK ring : IsRing(ring, Size, Links, readPointer) /\ Places(ring) /\ Contents(ring)
                  /\ ring \in [0..(Size - 1) -> 1..Size]
                  /\ \A i \in 0..(Size - 1) : ring[i] \in Nodes /\ ring[i] <= Size
  BY TheRing
<1>3. /\ producer = "link" /\ producer' = "advance"
      /\ next' = [next EXCEPT ![next[writeAheadPointer]] = originalNext]
      /\ originalNext' = Null
      /\ UNCHANGED <<readyToRead, object, allocated, writePointer, writeAheadPointer, slot, todo, sent, cvars>>
  BY DEF LinkNode
<1>4. Size \in Nat /\ 3 <= Size /\ Size' = Size + 1 /\ allocated = Size + 1 /\ Size + 1 \in Nodes
  BY <1>1, <1>3 DEF QueueTypeOK, Splice, Size, Nodes
<1>5. Base' = Base /\ Full' = Full /\ Reads' = Reads
  BY <1>3 DEF Base, Full, Reads, cvars
<1>6. PICK size : size = Size
  OBVIOUS
<1>7. PICK p : p = Full
  OBVIOUS
<1>8. p \in 0..(size - 1) /\ ring[p] = writeAheadPointer
  BY <1>2, <1>3, <1>6, <1>7 DEF Places
<1>9. /\ next \in [Nodes -> Nodes \cup {Null}] /\ writeAheadPointer \in Nodes /\ originalNext \in Nodes
      /\ next[writeAheadPointer] = size + 1 /\ writeAheadPointer # size + 1
  <2>1. next[writeAheadPointer] = size + 1 /\ originalNext \in Nodes
    BY <1>1, <1>3, <1>4, <1>6 DEF Splice
  <2>2. ring[p] \in 1..size  BY <1>2, <1>6, <1>8
  <2>3. writeAheadPointer # size + 1  BY <2>2, <1>4, <1>6, <1>8
  <2>4. QED  BY <2>1, <2>3, <1>1 DEF QueueTypeOK
<1>10. QueueTypeOK'
  <2>1. next' \in [Nodes -> Nodes \cup {Null}]  BY <1>3, <1>9
  <2>2. Null \in Nodes \cup {Null}  OBVIOUS
  <2>3. QED  BY <1>1, <1>3, <2>1, <2>2 DEF QueueTypeOK, cvars
<1>11. Splice' /\ Filling' /\ InOrder'
  BY <1>1, <1>3 DEF Splice, Filling, InOrder, cvars
<1>12. Links' = next'
  BY <1>3, <1>10 DEF Links, QueueTypeOK
<1> DEFINE wider == [i \in 0..size |-> IF i <= p THEN ring[i] ELSE IF i = p + 1 THEN size + 1 ELSE ring[i - 1]]
<1>13. /\ wider \in [0..size -> 1..(size + 1)]
       /\ \A i \in 0..p : wider[i] = ring[i]
       /\ wider[p + 1] = size + 1
       /\ \A i \in (p + 2)..size : wider[i] = ring[i - 1]
  <2>1. ring \in [0..(size - 1) -> 1..size] /\ size \in Nat  BY <1>2, <1>4, <1>6
  <2>2. \A i \in 0..size : wider[i] \in 1..(size + 1)
    <3> TAKE i \in 0..size
    <3>1. CASE i <= p
      <4>1. i \in 0..(size - 1)  BY <3>1, <1>8, <2>1
      <4>2. ring[i] \in 1..size  BY <4>1, <2>1
      <4>3. wider[i] = ring[i]  BY <3>1
      <4>4. QED  BY <4>2, <4>3, <2>1
    <3>2. CASE i = p + 1
      <4>1. wider[i] = size + 1  BY <3>2, <1>8, <2>1
      <4>2. QED  BY <4>1, <2>1
    <3>3. CASE i > p + 1
      <4>1. i - 1 \in 0..(size - 1)  BY <3>3, <1>8, <2>1
      <4>2. ring[i - 1] \in 1..size  BY <4>1, <2>1
      <4>3. wider[i] = ring[i - 1]  BY <3>3, <1>8, <2>1
      <4>4. QED  BY <4>2, <4>3, <2>1
    <3>4. QED  BY <3>1, <3>2, <3>3, <1>8, <2>1
  <2>3. \A i \in 0..p : wider[i] = ring[i]  BY <1>8, <2>1
  <2>4. wider[p + 1] = size + 1  BY <1>8, <2>1
  <2>5. \A i \in (p + 2)..size : wider[i] = ring[i - 1]  BY <1>8, <2>1
  <2>6. QED  BY <2>2, <2>3, <2>4, <2>5
<1> HIDE DEF wider
<1>14. IsRing(wider, Size', Links', readPointer')
  <2>1. Links[ring[p]] = originalNext  BY <1>3, <1>8, <1>9 DEF Links
  <2>2. next'[ring[p]] = size + 1 /\ next'[size + 1] = Links[ring[p]]
    BY <1>3, <1>4, <1>6, <1>8, <1>9, <2>1
  <2>3. \A n \in 1..size : n # ring[p] => next'[n] = Links[n]
    <3>1. 1..size \subseteq Nodes  BY <1>1, <1>6, SizeFacts
    <3>2. QED  BY <1>3, <1>4, <1>6, <1>8, <1>9, <3>1 DEF Links
  <2>4. IsRing(ring, size, Links, readPointer) /\ size \in Nat  BY <1>2, <1>4, <1>6
  <2>5. IsRing(wider, size + 1, next', readPointer)
    <3>1. PutIn(size, p, ring, Links, wider, next')  BY <2>2, <2>3, <1>13 DEF PutIn
    <3>2. QED  BY <3>1, <2>4, <1>8, Spliced
  <2>6. QED  BY <2>5, <1>3, <1>4, <1>6, <1>12 DEF cvars
<1>15. Full \in 0..(Size - 1) /\ \A i \in 0..Full : wider[i] = ring[i]
  BY <1>6, <1>7, <1>8, <1>13
<1>16. Places(wider)'
  <2>1. Full' \in 0..(Size' - 1) /\ Full' <= Size' - 2  BY <1>4, <1>5, <1>15
  <2>2. consumer' = "testReady" \/ Reads' => Full' >= 1  BY <1>2, <1>3, <1>5 DEF Places, cvars
  <2>3. readAheadPointer = ring[IF Reads THEN 1 ELSE 0] /\ (Reads => held = ring[0] /\ Full >= 1)
    BY <1>2 DEF Places
  <2>4. (IF Reads THEN 1 ELSE 0) \in 0..Full /\ 0 \in 0..Full /\ Full \in 0..Full
    BY <1>15, <2>3, <1>4
  <2>5. readAheadPointer' = wider[IF Reads' THEN 1 ELSE 0] /\ (Reads' => held' = wider[0])
    BY <1>3, <1>5, <1>15, <2>3, <2>4 DEF cvars
  <2>6. writePointer = ring[Full] /\ writeAheadPointer = ring[Full]  BY <1>2, <1>3 DEF Places
  <2>7. writePointer' = wider[Full'] /\ writeAheadPointer' = wider[Full']
    BY <1>3, <1>5, <1>15, <2>4, <2>6
  <2>8. QED  BY <1>3, <2>1, <2>2, <2>5, <2>7 DEF Places
<1>17. Contents(wider)'
  <2>1. \A i \in 0..(Full - 1) : object[ring[i]] = Base + i + 1  BY <1>2 DEF Contents
  <2>2. \A i \in 0..(Full - 1) : object[wider[i]] = Base + i + 1  BY <2>1, <1>15, <1>4
  <2>3. QED  BY <1>3, <1>5, <2>2 DEF Contents
<1>18. wider \in [0..(Size' - 1) -> 1..Size']
  <2>1. Size' - 1 = size /\ Size' = size + 1  BY <1>4, <1>6
  <2>2. QED  BY <2>1, <1>13
<1>19. QED  BY <1>10, <1>11, <1>14, <1>16, <1>17, <1>18 DEF IInv

(* While WriteLock does not extend the ring, a node's links are its next   *)
(* field, and the ring's order the pointers'.                              *)
LEMMA AdvanceWriteIInv == IInv /\ AdvanceWrite => IInv'
<1> SUFFICES ASSUME IInv, AdvanceWrite PROVE IInv'
  OBVIOUS
<1>1. QueueTypeOK /\ Splice /\ Filling /\ InOrder  BY DEF IInv
<1>2. PICK ring : IsRing(ring, Size, Links, readPointer) /\ Places(ring) /\ Contents(ring)
                  /\ ring \in [0..(Size - 1) -> 1..Size]
                  /\ \A i \in 0..(Size - 1) : ring[i] \in Nodes
  BY TheRing
<1>3. /\ producer = "advance" /\ producer' = "publish"
      /\ slot' = writeAheadPointer /\ writeAheadPointer' = next[writeAheadPointer]
      /\ todo' = Range(Stores)
      /\ UNCHANGED <<list, writePointer, originalNext, sent, cvars>>
  BY DEF AdvanceWrite
<1>4. Size' = Size /\ Base' = Base /\ Full' = Full /\ Reads' = Reads
  BY <1>3 DEF Size, Base, Full, Reads, list, cvars
<1>5. Links = next /\ Links' = Links
  <2>1. Links = next  BY <1>1, <1>3, PlainLinks
  <2>2. Links' = next  BY <1>1, <1>3 DEF Links, QueueTypeOK, list
  <2>3. QED  BY <2>1, <2>2
<1>6. Full \in 0..(Size - 2) /\ Full + 1 \in 0..(Size - 1) /\ ring[Full] = writeAheadPointer
  <2>1. Size \in Nat /\ 3 <= Size  BY <1>1, SizeFacts
  <2>2. QED  BY <1>2, <1>3, <2>1 DEF Places
<1>7. next[writeAheadPointer] = ring[Full + 1] /\ ring[Full + 1] \in Nodes
  BY <1>2, <1>5, <1>6 DEF IsRing
<1>8. QueueTypeOK' /\ Splice' /\ InOrder'
  BY <1>1, <1>3, <1>7 DEF QueueTypeOK, Splice, InOrder, list, cvars
<1>9. Filling'
  BY <1>1, <1>3, TheStores DEF Filling
<1>10. Places(ring)'
  BY <1>2, <1>3, <1>4, <1>6, <1>7 DEF Places, cvars
<1>11. Contents(ring)'
  BY <1>2, <1>3, <1>4, TheStores DEF Contents, list
<1>12. IsRing(ring, Size', Links', readPointer')
  BY <1>2, <1>3, <1>4, <1>5 DEF cvars
<1>13. QED  BY <1>2, <1>4, <1>8, <1>9, <1>10, <1>11, <1>12 DEF IInv

LEMMA StoreIInv == ASSUME StoresInOrder, NEW s \in Range(Stores), IInv, Store(s) PROVE IInv'
<1>1. QueueTypeOK /\ Splice /\ Filling /\ InOrder  BY DEF IInv
<1>2. PICK ring : IsRing(ring, Size, Links, readPointer) /\ Places(ring) /\ Contents(ring)
                  /\ ring \in [0..(Size - 1) -> 1..Size]
                  /\ \A i \in 0..(Size - 1) : ring[i] \in Nodes
  BY TheRing
<1>3. /\ producer = "publish" /\ todo' = todo \ {s}
      /\ object' = IF s = "object" THEN [object EXCEPT ![slot] = sent + 1] ELSE object
      /\ readyToRead' = IF s = "ready" THEN [readyToRead EXCEPT ![slot] = TRUE] ELSE readyToRead
      /\ writePointer' = IF s = "pointer" THEN next[slot] ELSE writePointer
      /\ IF todo' = {} THEN producer' = "idle" /\ slot' = Null /\ sent' = sent + 1
                       ELSE UNCHANGED <<producer, slot, sent>>
      /\ UNCHANGED <<next, allocated, writeAheadPointer, originalNext, cvars>>
  BY DEF Store
<1>4. /\ s \in todo
      /\ s = "ready" => "object" \notin todo
      /\ s = "pointer" => "object" \notin todo /\ "ready" \notin todo
  <2>1. MayStore(s)  BY DEF Store
  <2>2. QED  BY <2>1, MayStoreInOrder
<1>5. /\ s \in {"object", "ready", "pointer"} /\ todo \subseteq {"object", "ready", "pointer"}
      /\ "pointer" \in todo /\ ("object" \in todo => "ready" \in todo)
      /\ sent \in 0..MaxWrites /\ sent < MaxWrites
  BY <1>1, <1>3, TheStores DEF QueueTypeOK, Filling
<1>6. todo' = {} <=> s = "pointer"
  <2>1. CASE s = "pointer"
    BY <2>1, <1>3, <1>4, <1>5
  <2>2. CASE s # "pointer"
    BY <2>2, <1>3, <1>5
  <2>3. QED  BY <2>1, <2>2
<1>7. Size' = Size /\ Base' = Base /\ Reads' = Reads
  BY <1>3 DEF Size, Base, Reads, cvars
<1>8. Links = next /\ Links' = Links
  <2>1. Links = next  BY <1>1, <1>3, PlainLinks
  <2>2. Links' = next  BY <1>1, <1>3 DEF Links, QueueTypeOK
  <2>3. QED  BY <2>1, <2>2
<1>9. /\ Full \in 0..(Size - 2) /\ Full + 1 \in 0..(Size - 1) /\ Full \in 0..(Size - 1)
      /\ slot = ring[Full] /\ writeAheadPointer = ring[Full + 1] /\ writePointer = ring[Full]
  <2>1. Size \in Nat /\ 3 <= Size  BY <1>1, SizeFacts
  <2>2. QED  BY <1>2, <1>3, <2>1 DEF Places
<1>10. next[slot] = ring[Full + 1] /\ ring[Full + 1] \in Nodes /\ slot \in Nodes
  BY <1>2, <1>8, <1>9 DEF IsRing
<1>11. QueueTypeOK'
  <2>1. object' \in [Nodes -> 0..MaxWrites]  BY <1>1, <1>3, <1>5, <1>10, SizesAssumption DEF QueueTypeOK
  <2>2. readyToRead' \in [Nodes -> BOOLEAN]  BY <1>1, <1>3 DEF QueueTypeOK
  <2>3. {readPointer', readAheadPointer', writePointer', writeAheadPointer'} \subseteq Nodes
    BY <1>1, <1>3, <1>10 DEF QueueTypeOK, cvars
  <2>4. sent' \in 0..MaxWrites /\ slot' \in Nodes \cup {Null}
        /\ producer' \in {"idle", "testReady", "extend", "link", "advance", "publish"}
    BY <1>1, <1>3, <1>5, SizesAssumption DEF QueueTypeOK
  <2>5. todo' \subseteq Range(Stores)  BY <1>1, <1>3 DEF QueueTypeOK
  <2>6. next' \in [Nodes -> Nodes \cup {Null}] /\ allocated' \in MinListSize..MaxNodes
        /\ {originalNext', held'} \subseteq Nodes \cup {Null}
        /\ consumer' \in {"idle", "testReady", "reading", "unlock", "stepOver", "late"}
        /\ received' \in Seq(0..MaxWrites) /\ freed' \in Seq(0..MaxWrites)
    BY <1>1, <1>3 DEF QueueTypeOK, cvars
  <2>7. QED  BY <2>1, <2>2, <2>3, <2>4, <2>5, <2>6 DEF QueueTypeOK
<1>12. Splice' /\ InOrder'
  BY <1>1, <1>3, <1>6 DEF Splice, InOrder, cvars
<1>13. Filling'
  BY <1>1, <1>3, <1>4, <1>5, <1>6 DEF Filling
<1>14. IsRing(ring, Size', Links', readPointer')
  BY <1>2, <1>3, <1>7, <1>8 DEF cvars
<1>15. CASE s = "pointer"
  <2>1. producer' = "idle" /\ sent' = sent + 1 /\ object' = object /\ writePointer' = ring[Full + 1]
    BY <1>3, <1>6, <1>10, <1>15
  <2>2. Full' = Full + 1 /\ Base \in Int /\ sent = Base + Full
    <3>1. Len(received) \in Nat /\ sent \in Nat  BY <1>1, SizesAssumption DEF QueueTypeOK
    <3>2. Base \in Int  BY <3>1 DEF Base
    <3>3. QED  BY <2>1, <3>1, <3>2, <1>7 DEF Full
  <2>3. Places(ring)'
    BY <1>2, <1>3, <1>7, <1>9, <2>1, <2>2 DEF Places, cvars
  <2>4. object[ring[Full]] = Base + Full + 1
    BY <1>2, <1>3, <1>4, <1>15, <2>2 DEF Contents
  <2>5. \A i \in 0..Full : object[ring[i]] = Base + i + 1
    <3>1. \A i \in 0..(Full - 1) : object[ring[i]] = Base + i + 1  BY <1>2 DEF Contents
    <3>2. QED  BY <3>1, <2>4, <1>9
  <2>6. Contents(ring)'
    <3>1. Full' - 1 = Full  BY <2>2, <1>9
    <3>2. QED  BY <3>1, <1>7, <2>1, <2>5 DEF Contents
  <2>7. QED  BY <1>2, <1>7, <1>11, <1>12, <1>13, <1>14, <2>3, <2>6 DEF IInv
<1>16. CASE s # "pointer"
  <2>1. producer' = "publish" /\ sent' = sent /\ slot' = slot /\ writePointer' = writePointer
    BY <1>3, <1>6, <1>16
  <2>2. Full' = Full  BY <2>1, <1>7 DEF Full
  <2>3. Places(ring)'
    BY <1>2, <1>3, <1>7, <2>1, <2>2 DEF Places, cvars
  <2>4. \A i \in 0..(Full - 1) : object'[ring[i]] = object[ring[i]]
    <3>1. \A i, j \in 0..(Size - 1) : ring[i] = ring[j] => i = j  BY <1>2 DEF IsRing
    <3>2. Size \in Nat  BY <1>1, SizeFacts
    <3>3. \A i \in 0..(Full - 1) : i \in 0..(Size - 1) /\ i # Full  BY <1>9, <3>2
    <3>4. \A i \in 0..(Full - 1) : ring[i] # ring[Full] /\ ring[i] \in Nodes  BY <1>2, <1>9, <3>1, <3>3
    <3>5. QED  BY <3>4, <1>1, <1>3, <1>9 DEF QueueTypeOK
  <2>5. "object" \notin todo' => object'[ring[Full]] = sent + 1
    <3>1. CASE s = "object"
      BY <3>1, <1>1, <1>3, <1>9, <1>10 DEF QueueTypeOK
    <3>2. CASE s # "object"
      BY <3>2, <1>2, <1>3 DEF Contents
    <3>3. QED  BY <3>1, <3>2
  <2>6. Contents(ring)'
    BY <1>2, <1>7, <2>1, <2>2, <2>4, <2>5 DEF Contents
  <2>7. QED  BY <1>2, <1>7, <1>11, <1>12, <1>13, <1>14, <2>3, <2>6 DEF IInv
<1>17. QED  BY <1>15, <1>16

-----------------------------------------------------------------------------
(* The consumer's steps *)

(* The oldest node, while one is published, is not where WriteLock splices: *)
(* its next field is the second node's number.                              *)
LEMMA OldestNode ==
    ASSUME QueueTypeOK, Splice, NEW ring, IsRing(ring, Size, Links, readPointer), Places(ring), Full >= 1
    PROVE  /\ readPointer = ring[0] /\ next[ring[0]] = ring[1] /\ ring[0] # ring[1]
           /\ ring[0] \in Nodes /\ ring[1] \in Nodes /\ Links[readPointer] = ring[1]
<1>1. Size \in Nat /\ 3 <= Size /\ 1..Size \subseteq Nodes  BY SizeFacts
<1>2. 0 \in 0..(Size - 1) /\ 1 \in 0..(Size - 1) /\ 0 \in 0..(Size - 2) /\ 0 + 1 = 1  BY <1>1
<1>3. ring[0] \in Nodes /\ ring[1] \in Nodes
  <2>1. ring \in [0..(Size - 1) -> 1..Size]  BY DEF IsRing
  <2>2. QED  BY <2>1, <1>1, <1>2
<1>4. readPointer = ring[0] /\ Links[ring[0]] = ring[0 + 1]  BY <1>2 DEF IsRing
<1>5. \A i, j \in 0..(Size - 1) : ring[i] = ring[j] => i = j  BY DEF IsRing
<1>6. ring[0] # ring[1]  BY <1>2, <1>5
<1>7. Links[ring[0]] = next[ring[0]]
  <2>1. CASE producer = "link"
    <3>1. writeAheadPointer = ring[Full] /\ Full \in 0..(Size - 1)  BY <2>1 DEF Places
    <3>2. Full # 0  BY <3>1, <1>1
    <3>3. writeAheadPointer # ring[0]  BY <3>1, <3>2, <1>2, <1>5
    <3>4. QED  BY <3>3, <1>3 DEF Links
  <2>2. CASE producer # "link"
    BY <2>2, <1>3 DEF Links
  <2>3. QED  BY <2>1, <2>2
<1>8. QED  BY <1>2, <1>3, <1>4, <1>6, <1>7

(* A step of the consumer leaves the ring's nodes and links. *)
LEMMA SameRing ==
    ASSUME UNCHANGED <<next, allocated, pvars>>
    PROVE  Size' = Size /\ Links' = Links
BY DEF Size, Links, pvars

LEMMA TestWriterIInv == IInv /\ TestWriter => IInv'
<1> SUFFICES ASSUME IInv, TestWriter PROVE IInv'
  OBVIOUS
<1>1. QueueTypeOK /\ Splice /\ Filling /\ InOrder  BY DEF IInv
<1>2. PICK ring : IsRing(ring, Size, Links, readPointer) /\ Places(ring) /\ Contents(ring)
                  /\ ring \in [0..(Size - 1) -> 1..Size]
  BY TheRing
<1>3. /\ consumer = "idle" /\ consumer' = "testReady" /\ readAheadPointer # writePointer
      /\ UNCHANGED <<list, pvars, readPointer, readAheadPointer, held, received, freed>>
  BY DEF TestWriter
<1>4. Size' = Size /\ Links' = Links /\ Base' = Base /\ Full' = Full /\ Reads' = FALSE /\ Reads = FALSE
  <2>1. Size' = Size /\ Links' = Links  BY <1>3, SameRing DEF list
  <2>2. QED  BY <1>3, <2>1 DEF Base, Full, Reads, list, pvars
<1>5. Full >= 1
  <2>1. Full \in 0..(Size - 1) /\ readAheadPointer = ring[0] /\ writePointer = ring[Full]
    BY <1>2, <1>4 DEF Places
  <2>2. Size \in Nat  BY <1>1, SizeFacts
  <2>3. Full # 0  BY <2>1, <1>3
  <2>4. QED  BY <2>1, <2>2, <2>3
<1>6. QueueTypeOK' /\ Splice' /\ Filling' /\ InOrder'
  BY <1>1, <1>3 DEF QueueTypeOK, Splice, Filling, InOrder, list, pvars
<1>7. Places(ring)'
  BY <1>2, <1>3, <1>4, <1>5 DEF Places, pvars
<1>8. Contents(ring)'
  BY <1>2, <1>3, <1>4 DEF Contents, list, pvars
<1>9. IsRing(ring, Size', Links', readPointer')
  BY <1>2, <1>3, <1>4
<1>10. QED  BY <1>2, <1>4, <1>6, <1>7, <1>8, <1>9 DEF IInv

LEMMA AdvanceReadIInv == IInv /\ AdvanceRead => IInv'
<1> SUFFICES ASSUME IInv, AdvanceRead PROVE IInv'
  OBVIOUS
<1>1. QueueTypeOK /\ Splice /\ Filling /\ InOrder  BY DEF IInv
<1>2. PICK ring : IsRing(ring, Size, Links, readPointer) /\ Places(ring) /\ Contents(ring)
                  /\ ring \in [0..(Size - 1) -> 1..Size]
  BY TheRing
<1>3. /\ consumer = "testReady"
      /\ \/ /\ held' = readAheadPointer /\ readAheadPointer' = next[readAheadPointer] /\ consumer' = "reading"
         \/ consumer' = "idle" /\ UNCHANGED <<held, readAheadPointer>>
      /\ UNCHANGED <<list, pvars, readPointer, received, freed>>
  BY DEF AdvanceRead
<1>4. Size' = Size /\ Links' = Links /\ Base' = Base /\ Full' = Full /\ ~Reads
  <2>1. Size' = Size /\ Links' = Links  BY <1>3, SameRing DEF list
  <2>2. QED  BY <1>3, <2>1 DEF Base, Full, Reads, list, pvars
<1>5. Full >= 1 /\ readAheadPointer = ring[0]  BY <1>2, <1>3, <1>4 DEF Places
<1>6. readPointer = ring[0] /\ next[ring[0]] = ring[1] /\ ring[0] \in Nodes /\ ring[1] \in Nodes
  BY <1>1, <1>2, <1>5, OldestNode
<1>7. QueueTypeOK' /\ Splice' /\ Filling' /\ InOrder'
  <2>1. readAheadPointer' \in Nodes /\ held' \in Nodes \cup {Null}  BY <1>1, <1>3, <1>5, <1>6 DEF QueueTypeOK
  <2>2. QueueTypeOK'  BY <1>1, <1>3, <2>1 DEF QueueTypeOK, list, pvars
  <2>3. QED  BY <1>1, <1>3, <2>2 DEF Splice, Filling, InOrder, list, pvars
<1>8. Places(ring)'
  <2>1. CASE consumer' = "reading"
    <3>1. Reads' /\ held' = ring[0] /\ readAheadPointer' = ring[1]  BY <2>1, <1>3, <1>5, <1>6 DEF Reads
    <3>2. QED  BY <3>1, <1>2, <1>3, <1>4, <1>5 DEF Places, pvars
  <2>2. CASE consumer' = "idle"
    <3>1. ~Reads' /\ readAheadPointer' = ring[0]  BY <2>2, <1>3, <1>5 DEF Reads
    <3>2. QED  BY <2>2, <3>1, <1>2, <1>3, <1>4 DEF Places, pvars
  <2>3. QED  BY <2>1, <2>2, <1>3
<1>9. Contents(ring)'
  BY <1>2, <1>3, <1>4 DEF Contents, list, pvars
<1>10. IsRing(ring, Size', Links', readPointer')
  BY <1>2, <1>3, <1>4
<1>11. QED  BY <1>2, <1>4, <1>7, <1>8, <1>9, <1>10 DEF IInv

(* What the consumer reads is the object that is next in order. *)
LEMMA NextObject ==
    ASSUME IInv, consumer = "reading"
    PROVE  held \in Nodes /\ object[held] = Len(received) + 1 /\ object[held] \in 0..MaxWrites
<1>1. QueueTypeOK /\ Splice  BY DEF IInv
<1>2. PICK ring : IsRing(ring, Size, Links, readPointer) /\ Places(ring) /\ Contents(ring)
                  /\ ring \in [0..(Size - 1) -> 1..Size]
  BY TheRing
<1>3. Reads /\ Base = Len(received)  BY DEF Reads, Base
<1>4. Full >= 1 /\ held = ring[0] /\ Full \in 0..(Size - 1)  BY <1>2, <1>3 DEF Places
<1>5. Size \in Nat  BY <1>1, SizeFacts
<1>6. held \in Nodes  BY <1>1, <1>2, <1>4, OldestNode
<1>7. object[ring[0]] = Base + 0 + 1
  <2>1. 0 \in 0..(Full - 1)  BY <1>4, <1>5
  <2>2. QED  BY <1>2, <2>1 DEF Contents
<1>8. Len(received) \in Nat  BY <1>1 DEF QueueTypeOK
<1>9. QED  BY <1>1, <1>3, <1>4, <1>6, <1>7, <1>8 DEF QueueTypeOK

LEMMA UseObjectIInv == IInv /\ UseObject => IInv'
<1> SUFFICES ASSUME IInv, UseObject PROVE IInv'
  OBVIOUS
<1>1. QueueTypeOK /\ Splice /\ Filling /\ InOrder  BY DEF IInv
<1>2. PICK ring : IsRing(ring, Size, Links, readPointer) /\ Places(ring) /\ Contents(ring)
                  /\ ring \in [0..(Size - 1) -> 1..Size]
  BY TheRing
<1>3. /\ consumer = "reading" /\ consumer' = "unlock"
      /\ received' = Append(received, object[held])
      /\ freed' = IF FreeAfterUnlock THEN freed ELSE Append(freed, object[held])
      /\ UNCHANGED <<list, pvars, readPointer, readAheadPointer, held>>
  BY DEF UseObject
<1>4. object[held] = Len(received) + 1 /\ object[held] \in 0..MaxWrites  BY <1>3, NextObject
<1>5. /\ received \in Seq(0..MaxWrites) /\ Len(received) \in Nat /\ Len(received') = Len(received) + 1
      /\ received' \in Seq(0..MaxWrites) /\ freed' \in Seq(0..MaxWrites)
  <2>1. received \in Seq(0..MaxWrites) /\ freed \in Seq(0..MaxWrites)  BY <1>1 DEF QueueTypeOK
  <2>2. received' \in Seq(0..MaxWrites) /\ Len(received') = Len(received) + 1 /\ Len(received) \in Nat
    BY <1>3, <1>4, <2>1
  <2>3. Append(freed, object[held]) \in Seq(0..MaxWrites)  BY <1>4, <2>1
  <2>4. freed' \in Seq(0..MaxWrites)  BY <1>3, <2>1, <2>3
  <2>5. QED  BY <2>1, <2>2, <2>4
<1>6. Size' = Size /\ Links' = Links /\ Base' = Base /\ Full' = Full /\ Reads' /\ Reads
  <2>1. Size' = Size /\ Links' = Links  BY <1>3, SameRing DEF list
  <2>2. Base = Len(received) /\ Base' = Len(received') - 1  BY <1>3 DEF Base
  <2>3. Base' = Base  BY <2>2, <1>5
  <2>4. sent' = sent  BY <1>3 DEF pvars
  <2>5. QED  BY <1>3, <2>1, <2>3, <2>4 DEF Full, Reads
<1>7. InOrder'
  <2>1. received = [i \in 1..Len(received) |-> i]  BY <1>1 DEF InOrder
  <2>2. \A i \in 1..Len(received) : received[i] = i  BY <2>1
  <2>3. \A i \in 1..Len(received') : received'[i] = i  BY <1>3, <1>4, <1>5, <2>2
  <2>4. received' = [i \in 1..Len(received') |-> received'[i]]  BY <1>5
  <2>5. received' = [i \in 1..Len(received') |-> i]  BY <2>3, <2>4
  <2>6. received' # << >>
    <3>1. Len(<< >>) = 0  OBVIOUS
    <3>2. QED  BY <1>5, <3>1
  <2>7. QED  BY <1>3, <2>5, <2>6 DEF InOrder
<1>8. QueueTypeOK' /\ Splice' /\ Filling'
  BY <1>1, <1>3, <1>5 DEF QueueTypeOK, Splice, Filling, list, pvars
<1>9. Places(ring)'
  BY <1>2, <1>3, <1>6 DEF Places, pvars
<1>10. Contents(ring)'
  BY <1>2, <1>3, <1>6 DEF Contents, list, pvars
<1>11. IsRing(ring, Size', Links', readPointer')
  BY <1>2, <1>3, <1>6
<1>12. QED  BY <1>2, <1>6, <1>7, <1>8, <1>9, <1>10, <1>11 DEF IInv

LEMMA ClearReadyIInv == IInv /\ ClearReady => IInv'
<1> SUFFICES ASSUME IInv, ClearReady PROVE IInv'
  OBVIOUS
<1>1. QueueTypeOK /\ Splice /\ Filling /\ InOrder  BY DEF IInv
<1>2. PICK ring : IsRing(ring, Size, Links, readPointer) /\ Places(ring) /\ Contents(ring)
                  /\ ring \in [0..(Size - 1) -> 1..Size]
  BY TheRing
<1>3. /\ consumer = "unlock" /\ consumer' = "stepOver"
      /\ readyToRead' = [readyToRead EXCEPT ![readPointer] = FALSE]
      /\ UNCHANGED <<next, object, allocated, pvars, readPointer, readAheadPointer, held, received, freed>>
  BY DEF ClearReady
<1>4. Size' = Size /\ Links' = Links /\ Base' = Base /\ Full' = Full /\ Reads' /\ Reads
  <2>1. Size' = Size /\ Links' = Links  BY <1>3, SameRing
  <2>2. QED  BY <1>3, <2>1 DEF Base, Full, Reads, pvars
<1>5. QueueTypeOK' /\ Splice' /\ Filling' /\ InOrder'
  BY <1>1, <1>3 DEF QueueTypeOK, Splice, Filling, InOrder, pvars
<1>6. Places(ring)'
  BY <1>2, <1>3, <1>4 DEF Places, pvars
<1>7. Contents(ring)'
  BY <1>2, <1>3, <1>4 DEF Contents, pvars
<1>8. IsRing(ring, Size', Links', readPointer')
  BY <1>2, <1>3, <1>4
<1>9. QED  BY <1>2, <1>4, <1>5, <1>6, <1>7, <1>8 DEF IInv

LEMMA StepReadIInv == IInv /\ StepRead => IInv'
<1> SUFFICES ASSUME IInv, StepRead PROVE IInv'
  OBVIOUS
<1>1. QueueTypeOK /\ Splice /\ Filling /\ InOrder  BY DEF IInv
<1>2. PICK ring : IsRing(ring, Size, Links, readPointer) /\ Places(ring) /\ Contents(ring)
                  /\ ring \in [0..(Size - 1) -> 1..Size]
  BY TheRing
<1>3. /\ consumer = "stepOver" /\ consumer' \in {"late", "idle"}
      /\ readPointer' = next[readPointer]
      /\ consumer' = "late" => held' = held
      /\ consumer' = "idle" => held' = Null
      /\ UNCHANGED <<list, pvars, readAheadPointer, received, freed>>
  BY DEF StepRead
<1>4. Reads /\ ~Reads' /\ Base = Len(received) - 1 /\ Base' = Len(received) /\ Len(received) \in Nat
  BY <1>1, <1>3 DEF Reads, Base, QueueTypeOK
<1>5. /\ Size' = Size /\ Links' = Links /\ Base' = Base + 1 /\ Full' = Full - 1
  <2>1. Size' = Size /\ Links' = Links  BY <1>3, SameRing DEF list
  <2>2. sent \in Nat /\ sent' = sent  BY <1>1, <1>3, SizesAssumption DEF QueueTypeOK, pvars
  <2>3. Base' = Base + 1 /\ Base \in Int  BY <1>4
  <2>4. QED  BY <2>1, <2>2, <2>3 DEF Full
<1>6. /\ Full >= 1 /\ Full \in 0..(Size - 1) /\ held = ring[0] /\ readAheadPointer = ring[1]
      /\ writePointer = ring[Full]
      /\ producer \in {"testReady", "advance", "publish"} => Full <= Size - 2
      /\ writeAheadPointer = ring[IF producer = "publish" THEN Full + 1 ELSE Full]
      /\ producer = "publish" => slot = ring[Full]
  BY <1>2, <1>4 DEF Places
<1>7. /\ readPointer = ring[0] /\ next[ring[0]] = ring[1] /\ ring[0] \in Nodes /\ ring[1] \in Nodes
      /\ Links[readPointer] = ring[1]
  BY <1>1, <1>2, <1>6, OldestNode
<1>8. PICK size : size = Size
  OBVIOUS
<1>9. size \in Nat /\ size >= 3  BY <1>1, <1>8, SizeFacts
<1> DEFINE turned == [i \in 0..(size - 1) |-> IF i = size - 1 THEN ring[0] ELSE ring[i + 1]]
<1>10. /\ turned \in [0..(size - 1) -> 1..size]
       /\ \A i \in 0..(size - 2) : turned[i] = ring[i + 1]
  <2>1. ring \in [0..(size - 1) -> 1..size]  BY <1>2, <1>8
  <2>2. QED  BY <2>1, <1>9
<1>11. IsRing(turned, size, Links, ring[1])
  <2>1. IsRing(ring, size, Links, readPointer)  BY <1>2, <1>8
  <2>2. IsRing(turned, size, Links, Links[readPointer])  BY <2>1, <1>9, Turned
  <2>3. QED  BY <2>2, <1>7
<1> HIDE DEF turned
<1>12. QueueTypeOK' /\ Splice' /\ Filling' /\ InOrder'
  <2>1. readPointer' \in Nodes /\ held' \in Nodes \cup {Null}
    BY <1>1, <1>3, <1>7 DEF QueueTypeOK
  <2>2. QueueTypeOK'  BY <1>1, <1>3, <2>1 DEF QueueTypeOK, list, pvars
  <2>3. consumer' = "late" => held' \in Nodes  BY <1>3, <1>6, <1>7
  <2>4. QED  BY <1>1, <1>3, <2>2, <2>3 DEF Splice, Filling, InOrder, list, pvars
<1>13. IsRing(turned, Size', Links', readPointer')
  BY <1>3, <1>5, <1>7, <1>8, <1>11
<1>14. Places(turned)'
  <2>1. Full - 1 \in 0..(size - 2) /\ Full - 1 + 1 = Full /\ 0 \in 0..(size - 2) /\ 0 + 1 = 1
    BY <1>6, <1>8, <1>9
  <2>2. turned[Full - 1] = ring[Full] /\ turned[0] = ring[1]  BY <2>1, <1>10
  <2>3. producer = "publish" => turned[Full] = ring[Full + 1]
    <3>1. producer = "publish" => Full \in 0..(size - 2)  BY <1>6, <1>8, <1>9
    <3>2. QED  BY <3>1, <1>10
  <2>4. (Full - 1) + 1 = Full  BY <1>6, <1>8, <1>9
  <2>5. writeAheadPointer' = turned[IF producer' = "publish" THEN Full' + 1 ELSE Full']
    BY <1>3, <1>5, <1>6, <2>2, <2>3, <2>4 DEF pvars
  <2>6. Full' \in 0..(Size' - 1)
        /\ (producer' \in {"testReady", "advance", "publish"} => Full' <= Size' - 2)
    BY <1>3, <1>5, <1>6, <1>8, <1>9, <2>1 DEF pvars
  <2>7. readAheadPointer' = turned[IF Reads' THEN 1 ELSE 0] /\ writePointer' = turned[Full']
        /\ (producer' = "publish" => slot' = turned[Full'])
    BY <1>3, <1>4, <1>5, <1>6, <2>2 DEF pvars
  <2>8. QED  BY <1>3, <1>4, <2>5, <2>6, <2>7 DEF Places
<1>15. Contents(turned)'
  <2>1. \A i \in 0..(Full' - 1) : object[turned[i]] = Base' + i + 1
    <3> TAKE i \in 0..(Full' - 1)
    <3>1. i \in 0..(size - 2) /\ i + 1 \in 0..(Full - 1)  BY <1>5, <1>6, <1>8, <1>9
    <3>2. object[ring[i + 1]] = Base + (i + 1) + 1  BY <1>2, <3>1 DEF Contents
    <3>3. Base \in Int /\ Base' = Base + 1  BY <1>4
    <3>4. QED  BY <3>1, <3>2, <3>3, <1>10
  <2>2. producer = "publish" /\ "object" \notin todo => object[turned[Full']] = sent + 1
    <3>1. producer = "publish" => slot = ring[Full] /\ Full - 1 \in 0..(size - 2) /\ (Full - 1) + 1 = Full
      BY <1>6, <1>8, <1>9
    <3>2. producer = "publish" => turned[Full'] = ring[Full]  BY <3>1, <1>5, <1>10
    <3>3. QED  BY <3>2, <1>2 DEF Contents
  <2>3. QED  BY <1>3, <2>1, <2>2 DEF Contents, list, pvars
<1>16. turned \in [0..(Size' - 1) -> 1..Size']  BY <1>5, <1>8, <1>10
<1>17. QED  BY <1>12, <1>13, <1>14, <1>15, <1>16 DEF IInv

LEMMA FreeLateIInv == IInv /\ FreeLate => IInv'
<1> SUFFICES ASSUME IInv, FreeLate PROVE IInv'
  OBVIOUS
<1>1. QueueTypeOK /\ Splice /\ Filling /\ InOrder  BY DEF IInv
<1>2. PICK ring : IsRing(ring, Size, Links, readPointer) /\ Places(ring) /\ Contents(ring)
                  /\ ring \in [0..(Size - 1) -> 1..Size]
  BY TheRing
<1>3. /\ consumer = "late" /\ consumer' = "idle"
      /\ freed' = Append(freed, object[held]) /\ held' = Null
      /\ UNCHANGED <<list, pvars, readPointer, readAheadPointer, received>>
  BY DEF FreeLate
<1>4. Size' = Size /\ Links' = Links /\ Base' = Base /\ Full' = Full /\ ~Reads' /\ ~Reads
  <2>1. Size' = Size /\ Links' = Links  BY <1>3, SameRing DEF list
  <2>2. QED  BY <1>3, <2>1 DEF Base, Full, Reads, pvars
<1>5. QueueTypeOK' /\ Splice' /\ Filling' /\ InOrder'
  <2>1. object[held] \in 0..MaxWrites  BY <1>1, <1>3 DEF QueueTypeOK, InOrder
  <2>2. freed' \in Seq(0..MaxWrites)  BY <1>1, <1>3, <2>1 DEF QueueTypeOK
  <2>3. held' \in Nodes \cup {Null}  BY <1>3
  <2>4. QueueTypeOK'  BY <1>1, <1>3, <2>2, <2>3 DEF QueueTypeOK, list, pvars
  <2>5. QED  BY <1>1, <1>3, <2>4 DEF Splice, Filling, InOrder, list, pvars
<1>6. Places(ring)'
  BY <1>2, <1>3, <1>4 DEF Places, pvars
<1>7. Contents(ring)'
  BY <1>2, <1>3, <1>4 DEF Contents, list, pvars
<1>8. IsRing(ring, Size', Links', readPointer')
  BY <1>2, <1>3, <1>4
<1>9. QED  BY <1>2, <1>4, <1>5, <1>6, <1>7, <1>8 DEF IInv

-----------------------------------------------------------------------------
(* The invariant holds always, and implies the properties of the runs.     *)

LEMMA NextIInv == ASSUME StoresInOrder, IInv, [QueueNext]_queueVars PROVE IInv'
<1>1. CASE TestReader  BY <1>1, TestReaderIInv
<1>2. CASE TestReady  BY <1>2, TestReadyIInv
<1>3. CASE AllocateNode  BY <1>3, AllocateNodeIInv
<1>4. CASE LinkNode  BY <1>4, LinkNodeIInv
<1>5. CASE AdvanceWrite  BY <1>5, AdvanceWriteIInv
<1>6. ASSUME NEW s \in Range(Stores), Store(s) PROVE IInv'  BY <1>6, StoreIInv
<1>7. CASE TestWriter  BY <1>7, TestWriterIInv
<1>8. CASE AdvanceRead  BY <1>8, AdvanceReadIInv
<1>9. CASE UseObject  BY <1>9, UseObjectIInv
<1>10. CASE ClearReady  BY <1>10, ClearReadyIInv
<1>11. CASE StepRead  BY <1>11, StepReadIInv
<1>12. CASE FreeLate  BY <1>12, FreeLateIInv
<1>13. CASE UNCHANGED queueVars
  <2>1. PICK ring : IsRing(ring, Size, Links, readPointer) /\ Places(ring) /\ Contents(ring)
                    /\ ring \in [0..(Size - 1) -> 1..Size]
    BY TheRing
  <2>2. QueueTypeOK' /\ Splice' /\ Filling' /\ InOrder'
    BY <1>13 DEF IInv, QueueTypeOK, Splice, Filling, InOrder, queueVars, list, pvars, cvars
  <2>3. Size' = Size /\ Links' = Links /\ readPointer' = readPointer
    BY <1>13, SameRing DEF queueVars, list, cvars
  <2>4. Base' = Base /\ Full' = Full /\ Reads' = Reads
    BY <1>13 DEF Base, Full, Reads, queueVars, pvars, cvars
  <2>5. Places(ring)' /\ Contents(ring)'
    BY <1>13, <2>1, <2>3, <2>4 DEF Places, Contents, queueVars, list, pvars, cvars
  <2>6. QED  BY <2>1, <2>2, <2>3, <2>5 DEF IInv
<1>14. QED
  BY <1>1, <1>2, <1>3, <1>4, <1>5, <1>6, <1>7, <1>8, <1>9, <1>10, <1>11, <1>12, <1>13
  DEF QueueNext, Producer, QueueConsumer

LEMMA Invariance == ASSUME StoresInOrder PROVE QueueSpec => []IInv
<1>1. IInv /\ [QueueNext]_queueVars => IInv'  BY NextIInv
<1>2. QED  BY <1>1, InitIInv, PTL DEF QueueSpec

(* Neither thread uses a node the other one is using, whatever the places  *)
(* at which they stop.                                                     *)
LEMMA Apart == IInv => NoSharedNode
<1> SUFFICES ASSUME IInv PROVE NoSharedNode
  OBVIOUS
<1>1. QueueTypeOK /\ Splice  BY DEF IInv
<1>2. PICK ring : IsRing(ring, Size, Links, readPointer) /\ Places(ring) /\ Contents(ring)
  BY TheRing
<1>3. Size \in Nat /\ 3 <= Size  BY <1>1, SizeFacts
<1>4. \A i, j \in 0..(Size - 1) : ring[i] = ring[j] => i = j  BY <1>2 DEF IsRing
<1>5. /\ Full \in 0..(Size - 1) /\ writePointer = ring[Full]
      /\ Reads => Full >= 1 /\ held = ring[0] /\ readAheadPointer = ring[1]
      /\ producer = "publish" =>
            Full <= Size - 2 /\ slot = ring[Full] /\ writeAheadPointer = ring[Full + 1]
  BY <1>2 DEF Places
<1>6. readPointer = ring[0]  BY <1>2 DEF IsRing
<1>7. 0 \in 0..(Size - 1) /\ 1 \in 0..(Size - 1)  BY <1>3
<1>8. Reads => slot # held \/ producer # "publish"
  <2>1. Reads => Full # 0  BY <1>3, <1>5
  <2>2. QED  BY <2>1, <1>4, <1>5, <1>7
<1>9. producer = "publish" => next[writePointer] # readPointer /\ writePointer # writeAheadPointer
  <2>1. SUFFICES ASSUME producer = "publish"
                 PROVE  next[writePointer] # readPointer /\ writePointer # writeAheadPointer
    OBVIOUS
  <2>2. Links = next  BY <1>1, <2>1, PlainLinks
  <2>3. Full \in 0..(Size - 2) /\ Full + 1 \in 0..(Size - 1) /\ Full + 1 # 0 /\ Full + 1 # Full
    BY <1>3, <1>5, <2>1
  <2>4. next[ring[Full]] = ring[Full + 1]  BY <1>2, <2>2, <2>3 DEF IsRing
  <2>5. QED  BY <1>4, <1>5, <1>6, <1>7, <2>1, <2>3, <2>4
<1>10. Reads => readAheadPointer # readPointer /\ readPointer # writePointer
  <2>1. Reads => Full # 0  BY <1>3, <1>5
  <2>2. QED  BY <2>1, <1>4, <1>5, <1>6, <1>7
<1>11. QED  BY <1>8, <1>9, <1>10 DEF NoSharedNode, Reads

(* Two functions of the naturals that differ at k differ first somewhere up *)
(* to k.                                                                    *)
LEMMA FirstDifference ==
    ASSUME NEW k \in Nat, NEW f, NEW g, f[k] # g[k]
    PROVE  \E m \in 0..k : f[m] # g[m] /\ \A i \in 0..(m - 1) : f[i] = g[i]
<1> DEFINE differ == {m \in 0..k : f[m] # g[m]}
           upTo == {0..m : m \in differ}
           ordering == StrictSubsetOrdering(0..k)
<1>1. IsWellFoundedOn(ordering, SUBSET (0..k))
  <2>1. IsFiniteSet(0..k)  BY FS_Interval
  <2>2. FiniteSubsetsOf(0..k) = SUBSET (0..k)  BY <2>1, FS_FiniteSubsetsOfFinite
  <2>3. QED  BY <2>2, FS_StrictSubsetOrderingWellFounded
<1>2. upTo \subseteq SUBSET (0..k) /\ upTo # {}
  OBVIOUS
<1>3. PICK least \in upTo : \A other \in upTo : <<other, least>> \notin ordering
  <2> HIDE DEF upTo, ordering
  <2> QED  BY <1>1, <1>2, WFMin
<1>4. PICK m \in differ : least = 0..m
  OBVIOUS
<1>5. \A i \in 0..(m - 1) : f[i] = g[i]
  <2> SUFFICES ASSUME NEW i \in 0..(m - 1), f[i] # g[i] PROVE FALSE
    OBVIOUS
  <2>1. m \in 0..k /\ i \in differ /\ i < m  OBVIOUS
  <2>2. 0..i \in upTo /\ 0..i \subseteq 0..m /\ 0..m \in SUBSET (0..k) /\ 0..i \in SUBSET (0..k)
    BY <2>1
  <2>3. 0..i # 0..m
    <3>1. m \in 0..m /\ m \notin 0..i  BY <2>1
    <3>2. QED  BY <3>1
  <2>4. <<0..i, 0..m>> \in ordering  BY <2>2, <2>3 DEF StrictSubsetOrdering
  <2>5. QED  BY <2>2, <2>4, <1>3, <1>4
<1>6. QED  BY <1>5

(* A walk along the next fields is where After ends. *)
LEMMA Walk ==
    ASSUME NEW n, NEW k \in Nat, NEW f, f[0] = n, \A i \in 1..k : f[i] = next[f[i - 1]]
    PROVE  After(n, k) = f[k]
<1> DEFINE Walks(g) == g = [i \in 0..k |-> IF i = 0 THEN n ELSE next[g[i - 1]]]
           h == [i \in 0..k |-> f[i]]
           walk == CHOOSE g : Walks(g)
<1>1. Walks(h)
  <2>1. \A i \in 0..k : h[i] = IF i = 0 THEN n ELSE next[h[i - 1]]
    <3> TAKE i \in 0..k
    <3>1. CASE i = 0
      BY <3>1
    <3>2. CASE i # 0
      <4>1. i \in 1..k /\ i - 1 \in 0..k  BY <3>2
      <4>2. QED  BY <3>2, <4>1
    <3>3. QED  BY <3>1, <3>2
  <2>2. QED  BY <2>1
<1>2. PICK g : g = walk
  OBVIOUS
<1>3. Walks(g)
  <2> HIDE DEF Walks, h
  <2> QED  BY <1>1, <1>2
<1>4. g[0] = n /\ \A i \in 1..k : g[i] = next[g[i - 1]]
  <2>1. \A i \in 0..k : g[i] = IF i = 0 THEN n ELSE next[g[i - 1]]  BY <1>3
  <2>2. QED  BY <2>1
<1>5. g[k] = f[k]
  <2> HIDE DEF Walks, h, walk
  <2>1. SUFFICES ASSUME g[k] # f[k] PROVE FALSE
    OBVIOUS
  <2>2. PICK m \in 0..k : g[m] # f[m] /\ \A i \in 0..(m - 1) : g[i] = f[i]
    BY <2>1, FirstDifference
  <2>3. m # 0  BY <2>2, <1>4
  <2>4. m \in 1..k /\ m - 1 \in 0..(m - 1)  BY <2>3
  <2>5. QED  BY <2>2, <2>4, <1>4
<1>6. After(n, k) = walk[k]  BY DEF After
<1>7. QED  BY <1>2, <1>5, <1>6

(* The destructor's walk: the ring seen from node 1. *)
LEMMA Circled == IInv => OneRing
<1> SUFFICES ASSUME IInv, producer # "link"
             PROVE  After(1, allocated) = 1 /\ \A k \in 1..(allocated - 1) : After(1, k) # 1
  BY DEF OneRing
<1>1. QueueTypeOK /\ Splice  BY DEF IInv
<1>2. PICK ring : IsRing(ring, Size, Links, readPointer)
  BY TheRing
<1>3. Links = next /\ Size = allocated  BY <1>1, PlainLinks DEF Size
<1>4. allocated \in Nat /\ allocated >= 3  BY <1>1, <1>3, SizeFacts
<1>5. /\ \A i, j \in 0..(allocated - 1) : ring[i] = ring[j] => i = j
      /\ \A i \in 0..(allocated - 2) : next[ring[i]] = ring[i + 1]
      /\ next[ring[allocated - 1]] = ring[0]
  BY <1>2, <1>3 DEF IsRing
<1>6. PICK p \in 0..(allocated - 1) : ring[p] = 1
  BY <1>2, <1>3, <1>4 DEF IsRing
<1> DEFINE turn(i) == IF p + i < allocated THEN p + i ELSE p + i - allocated
           walk == [i \in 0..allocated |-> ring[turn(i)]]
<1>7. \A i \in 0..allocated : turn(i) \in 0..(allocated - 1)
  BY <1>4
<1>8. walk[0] = 1 /\ walk[allocated] = 1
  BY <1>4, <1>6
<1>9. \A i \in 1..allocated : walk[i] = next[walk[i - 1]]
  <2> TAKE i \in 1..allocated
  <2>1. walk[i] = ring[turn(i)] /\ walk[i - 1] = ring[turn(i - 1)]  BY <1>4
  <2>2. CASE p + i = allocated
    <3>1. turn(i) = 0 /\ turn(i - 1) = allocated - 1  BY <2>2, <1>4
    <3>2. QED  BY <3>1, <2>1, <1>5
  <2>3. CASE p + i # allocated
    <3>1. turn(i) = turn(i - 1) + 1 /\ turn(i - 1) \in 0..(allocated - 2)  BY <2>3, <1>4
    <3> HIDE DEF turn, walk
    <3>2. next[ring[turn(i - 1)]] = ring[turn(i - 1) + 1]  BY <3>1, <1>5
    <3>3. QED  BY <3>1, <3>2, <2>1
  <2>4. QED  BY <2>2, <2>3
<1>10. \A k \in 0..allocated : After(1, k) = walk[k]
  <2> TAKE k \in 0..allocated
  <2> HIDE DEF walk
  <2>1. k \in Nat /\ \A i \in 1..k : i \in 1..allocated  BY <1>4
  <2>2. \A i \in 1..k : walk[i] = next[walk[i - 1]]  BY <2>1, <1>9
  <2>3. QED  BY <2>1, <2>2, <1>8, Walk
<1>11. \A k \in 1..(allocated - 1) : walk[k] # 1
  <2> TAKE k \in 1..(allocated - 1)
  <2>1. walk[k] = ring[turn(k)] /\ turn(k) # p /\ turn(k) \in 0..(allocated - 1)  BY <1>4
  <2> HIDE DEF walk, turn
  <2>2. QED  BY <2>1, <1>5, <1>6
<1>12. QED
  <2> HIDE DEF walk
  <2>1. allocated \in 0..allocated /\ \A k \in 1..(allocated - 1) : k \in 0..allocated  BY <1>4
  <2>2. QED  BY <2>1, <1>8, <1>10, <1>11

-----------------------------------------------------------------------------
(* The channel the queue implements *)

(* The objects that are in the channel, and the ones that are out of it, as *)
(* the mapping of ImplementsChannel has them.                               *)
Queue ==
    LET unread == Stretch(readAheadPointer, writePointer)
    IN  [i \in DOMAIN unread |-> object[unread[i]]]
Delivered == IF consumer = "reading" THEN Append(received, object[held]) ELSE received

(* How many ReadLock has returned. *)
Taken == IF consumer = "reading" THEN Len(received) + 1 ELSE Len(received)

(* The channel holds the objects that are published and not yet taken, and *)
(* has delivered the others: each once and in order.                       *)
LEMMA Mapping ==
    ASSUME IInv
    PROVE  /\ Taken \in Nat /\ sent \in Nat /\ Taken <= sent
           /\ Queue = [i \in 1..(sent - Taken) |-> Taken + i]
           /\ Delivered = [i \in 1..Taken |-> i]
<1>1. QueueTypeOK /\ Splice /\ InOrder  BY DEF IInv
<1>2. PICK ring : IsRing(ring, Size, Links, readPointer) /\ Places(ring) /\ Contents(ring)
                  /\ ring \in [0..(Size - 1) -> 1..Size]
                  /\ \A i \in 0..(Size - 1) : ring[i] \in Nodes
  BY TheRing
<1>3. Size \in Nat /\ 3 <= Size /\ Size <= allocated /\ allocated \in Nat
  <2>1. allocated \in Nat  BY <1>1, SizesAssumption DEF QueueTypeOK
  <2>2. QED  BY <1>1, <2>1, SizeFacts
<1>4. Len(received) \in Nat /\ sent \in Nat  BY <1>1, SizesAssumption DEF QueueTypeOK
<1>5. PICK r : r = IF Reads THEN 1 ELSE 0
  OBVIOUS
<1>6. PICK full : full = Full
  OBVIOUS
<1>7. /\ full \in 0..(Size - 1) /\ r \in 0..full
      /\ readAheadPointer = ring[r] /\ writePointer = ring[full]
  BY <1>2, <1>3, <1>5, <1>6 DEF Places
<1>8. Taken = Base + r /\ sent = Base + full /\ Base \in Int /\ Taken \in Nat
  <2>1. Base \in Int  BY <1>4 DEF Base
  <2>2. sent = Base + full  BY <2>1, <1>4, <1>6 DEF Full
  <2>3. CASE consumer = "reading"
    BY <2>1, <2>2, <2>3, <1>4, <1>5 DEF Taken, Base, Reads
  <2>4. CASE consumer \in {"unlock", "stepOver"}
    BY <2>1, <2>2, <2>4, <1>4, <1>5 DEF Taken, Base, Reads
  <2>5. CASE consumer \notin {"reading", "unlock", "stepOver"}
    BY <2>1, <2>2, <2>5, <1>4, <1>5 DEF Taken, Base, Reads
  <2>6. QED  BY <2>3, <2>4, <2>5
<1>9. sent - Taken = full - r /\ full - r \in Nat /\ Taken <= sent  BY <1>7, <1>8, <1>3
<1>10. \A i, j \in 0..(Size - 1) : ring[i] = ring[j] => i = j  BY <1>2 DEF IsRing
<1>11. \A i \in 0..(full - 1) : next[ring[i]] = ring[i + 1]
  <2> TAKE i \in 0..(full - 1)
  <2>1. i \in 0..(Size - 2) /\ i \in 0..(Size - 1) /\ i # full  BY <1>3, <1>7
  <2>2. Links[ring[i]] = ring[i + 1]  BY <1>2, <2>1 DEF IsRing
  <2>3. producer = "link" => ring[i] # writeAheadPointer
    <3>1. producer = "link" => writeAheadPointer = ring[full]  BY <1>2, <1>6 DEF Places
    <3>2. QED  BY <3>1, <2>1, <1>7, <1>10
  <2>4. ring[i] \in Nodes  BY <1>2, <2>1
  <2>5. QED  BY <2>2, <2>3, <2>4 DEF Links
<1>12. \A k \in 0..(full - r) : After(readAheadPointer, k) = ring[r + k]
  <2> TAKE k \in 0..(full - r)
  <2> DEFINE walk == [i \in 0..k |-> ring[r + i]]
  <2>1. k \in Nat /\ k \in 0..k /\ 0 \in 0..k  BY <1>3, <1>7
  <2>2. \A i \in 1..k : walk[i] = next[walk[i - 1]]
    <3> TAKE i \in 1..k
    <3>1. i \in 0..k /\ i - 1 \in 0..k /\ r + (i - 1) \in 0..(full - 1) /\ (r + (i - 1)) + 1 = r + i
      BY <1>3, <1>7
    <3>2. walk[i] = ring[r + i] /\ walk[i - 1] = ring[r + (i - 1)]  BY <3>1
    <3>3. next[ring[r + (i - 1)]] = ring[(r + (i - 1)) + 1]  BY <3>1, <1>11
    <3> HIDE DEF walk
    <3>4. QED  BY <3>1, <3>2, <3>3
  <2>3. walk[0] = readAheadPointer /\ walk[k] = ring[r + k]  BY <2>1, <1>3, <1>7
  <2> HIDE DEF walk
  <2>4. QED  BY <2>1, <2>2, <2>3, Walk
<1> DEFINE Reaches(k) == /\ After(readAheadPointer, k) = writePointer
                         /\ \A j \in 0..(k - 1) : After(readAheadPointer, j) # writePointer
           len == CHOOSE k \in 0..allocated : Reaches(k)
<1>13. \A j \in 0..(full - r) : (After(readAheadPointer, j) = writePointer) <=> j = full - r
  <2> TAKE j \in 0..(full - r)
  <2>1. r + j \in 0..(Size - 1) /\ full \in 0..(Size - 1)  BY <1>3, <1>7
  <2>2. ring[r + j] = ring[full] <=> r + j = full  BY <2>1, <1>10
  <2>3. After(readAheadPointer, j) = ring[r + j]  BY <1>12
  <2>4. r + j = full <=> j = full - r  BY <1>3, <1>7
  <2>5. QED  BY <2>2, <2>3, <2>4, <1>7
<1>14. len = full - r
  <2>1. full - r \in 0..allocated  BY <1>3, <1>7
  <2>2. Reaches(full - r)
    <3>1. full - r \in 0..(full - r)  BY <1>9
    <3>2. \A j \in 0..((full - r) - 1) : j \in 0..(full - r) /\ j # full - r  BY <1>9
    <3>3. QED  BY <3>1, <3>2, <1>13
  <2>3. \A k \in 0..allocated : Reaches(k) => k = full - r
    <3> SUFFICES ASSUME NEW k \in 0..allocated, Reaches(k), k # full - r PROVE FALSE
      OBVIOUS
    <3>1. CASE k < full - r
      <4>1. k \in 0..(full - r)  BY <3>1, <1>9
      <4>2. QED  BY <4>1, <1>13
    <3>2. CASE k > full - r
      <4>1. full - r \in 0..(k - 1)  BY <3>2, <1>9
      <4>2. QED  BY <4>1, <2>2
    <3>3. QED  BY <3>1, <3>2, <1>3, <1>9
  <2> HIDE DEF Reaches
  <2>4. QED  BY <2>1, <2>2, <2>3
<1>15. Stretch(readAheadPointer, writePointer) = [i \in 1..len |-> After(readAheadPointer, i - 1)]
  BY DEF Stretch
<1>16. Queue = [i \in 1..(sent - Taken) |-> Taken + i]
  <2> HIDE DEF len
  <2> DEFINE unread == [i \in 1..(sent - Taken) |-> After(readAheadPointer, i - 1)]
  <2>1. Queue = [i \in DOMAIN unread |-> object[unread[i]]]  BY <1>9, <1>14, <1>15 DEF Queue
  <2>2. Queue = [i \in 1..(sent - Taken) |-> object[After(readAheadPointer, i - 1)]]  BY <2>1
  <2>3. \A i \in 1..(sent - Taken) : object[After(readAheadPointer, i - 1)] = Taken + i
    <3> TAKE i \in 1..(sent - Taken)
    <3>1. i - 1 \in 0..(full - r) /\ r + (i - 1) \in 0..(full - 1)  BY <1>3, <1>7, <1>9
    <3>2. After(readAheadPointer, i - 1) = ring[r + (i - 1)]  BY <3>1, <1>12
    <3>3. object[ring[r + (i - 1)]] = Base + (r + (i - 1)) + 1  BY <3>1, <1>2, <1>6 DEF Contents
    <3>4. Base + (r + (i - 1)) + 1 = Taken + i  BY <1>3, <1>7, <1>8
    <3>5. QED  BY <3>2, <3>3, <3>4
  <2>4. QED  BY <2>2, <2>3
<1>17. Delivered = [i \in 1..Taken |-> i]
  <2>1. received = [i \in 1..Len(received) |-> i]  BY <1>1 DEF InOrder
  <2>2. CASE consumer # "reading"
    BY <2>1, <2>2 DEF Delivered, Taken
  <2>3. CASE consumer = "reading"
    <3>1. object[held] = Len(received) + 1  BY <2>3, NextObject
    <3>2. Delivered = Append(received, Len(received) + 1) /\ Taken = Len(received) + 1
      BY <2>3, <3>1 DEF Delivered, Taken
    <3>3. received \in Seq(0..MaxWrites)  BY <1>1 DEF QueueTypeOK
    <3>4. Append(received, Len(received) + 1) =
            [i \in 1..(Len(received) + 1) |-> IF i = Len(received) + 1 THEN Len(received) + 1 ELSE received[i]]
      BY <3>3
    <3>5. \A i \in 1..Len(received) : received[i] = i  BY <2>1
    <3>6. \A i \in 1..(Len(received) + 1) :
             (IF i = Len(received) + 1 THEN Len(received) + 1 ELSE received[i]) = i
      BY <3>5, <1>4
    <3>7. QED  BY <3>2, <3>4, <3>6
  <2>4. QED  BY <2>2, <2>3
<1>18. QED  BY <1>4, <1>8, <1>9, <1>16, <1>17

(* An action of the queue takes one object, publishes one or does neither. *)
LEMMA OneAtATime ==
    ASSUME StoresInOrder, IInv, [QueueNext]_queueVars
    PROVE  \/ Taken' = Taken /\ sent' = sent
           \/ Taken' = Taken /\ sent' = sent + 1 /\ sent < MaxWrites
           \/ Taken' = Taken + 1 /\ sent' = sent
<1>1. Len(received) \in Nat /\ received \in Seq(0..MaxWrites)  BY DEF IInv, QueueTypeOK
<1>2. CASE TestReader \/ TestReady \/ AllocateNode \/ LinkNode \/ AdvanceWrite
  BY <1>2 DEF TestReader, TestReady, AllocateNode, LinkNode, AdvanceWrite, Taken, cvars
<1>3. ASSUME NEW s \in Range(Stores), Store(s)
      PROVE  Taken' = Taken /\ (sent' = sent \/ (sent' = sent + 1 /\ sent < MaxWrites))
  <2>1. sent < MaxWrites  BY <1>3 DEF IInv, Filling, Store
  <2>2. QED  BY <1>3, <2>1 DEF Store, Taken, cvars
<1>4. CASE TestWriter \/ ClearReady \/ StepRead \/ FreeLate
  BY <1>4 DEF TestWriter, ClearReady, StepRead, FreeLate, Taken, pvars
<1>5. CASE AdvanceRead
  BY <1>5 DEF AdvanceRead, Taken, pvars
<1>6. CASE UseObject
  <2>1. object[held] \in 0..MaxWrites  BY <1>6, NextObject DEF UseObject
  <2>2. Len(received') = Len(received) + 1  BY <1>1, <1>6, <2>1 DEF UseObject
  <2>3. QED  BY <1>6, <2>2 DEF UseObject, Taken, pvars
<1>7. CASE UNCHANGED queueVars
  BY <1>7 DEF queueVars, pvars, cvars, Taken
<1>8. QED  BY <1>2, <1>3, <1>4, <1>5, <1>6, <1>7 DEF QueueNext, Producer, QueueConsumer

(* The objects numbered from a + 1 to b. *)
Numbers(a, b) == [i \in 1..(b - a) |-> a + i]

LEMMA NumbersAre ==
    ASSUME NEW a \in Nat, NEW b \in Nat, a <= b
    PROVE  /\ Numbers(a, b) \in Seq(Nat) /\ Len(Numbers(a, b)) = b - a
           /\ Append(Numbers(a, b), b + 1) = Numbers(a, b + 1)
           /\ a < b => /\ Numbers(a, b) # << >>
                       /\ Head(Numbers(a, b)) = a + 1 /\ Tail(Numbers(a, b)) = Numbers(a + 1, b)
<1>1. Numbers(a, b) \in Seq(Nat) /\ Len(Numbers(a, b)) = b - a  BY DEF Numbers
<1>2. Append(Numbers(a, b), b + 1) = Numbers(a, b + 1)
  <2>1. (b - a) \in Nat /\ (b + 1) - a = (b - a) + 1  OBVIOUS
  <2>2. Append(Numbers(a, b), b + 1) =
          [i \in 1..((b - a) + 1) |-> IF i = (b - a) + 1 THEN b + 1 ELSE Numbers(a, b)[i]]
    BY <1>1
  <2>3. \A i \in 1..((b - a) + 1) : (IF i = (b - a) + 1 THEN b + 1 ELSE Numbers(a, b)[i]) = a + i
    BY <2>1 DEF Numbers
  <2>4. Numbers(a, b + 1) = [i \in 1..((b - a) + 1) |-> a + i]  BY <2>1 DEF Numbers
  <2>5. QED  BY <2>2, <2>3, <2>4
<1>3. ASSUME a < b
      PROVE  /\ Numbers(a, b) # << >>
             /\ Head(Numbers(a, b)) = a + 1 /\ Tail(Numbers(a, b)) = Numbers(a + 1, b)
  <2>1. (b - a) \in Nat /\ b - a >= 1 /\ b - (a + 1) = (b - a) - 1  BY <1>3
  <2>2. Numbers(a, b) # << >>
    <3>1. Len(<< >>) = 0  OBVIOUS
    <3>2. QED  BY <3>1, <2>1, <1>1
  <2>3. Head(Numbers(a, b)) = a + 1
    <3>1. Head(Numbers(a, b)) = Numbers(a, b)[1]  BY <1>1, <2>2
    <3>2. QED  BY <3>1, <2>1 DEF Numbers
  <2>4. Tail(Numbers(a, b)) = [i \in 1..((b - a) - 1) |-> Numbers(a, b)[i + 1]]
    <3>1. Tail(Numbers(a, b)) \in Seq(Nat) /\ Len(Tail(Numbers(a, b))) = (b - a) - 1
      BY <1>1, <2>1, <2>2
    <3>2. \A i \in 1..((b - a) - 1) : Tail(Numbers(a, b))[i] = Numbers(a, b)[i + 1]
      BY <1>1, <2>1, <2>2
    <3>3. \A s \in Seq(Nat) : s = [i \in 1..Len(s) |-> s[i]]
      OBVIOUS
    <3>4. QED  BY <3>1, <3>2, <3>3
  <2>5. \A i \in 1..((b - a) - 1) : Numbers(a, b)[i + 1] = (a + 1) + i
    BY <2>1 DEF Numbers
  <2>6. Numbers(a + 1, b) = [i \in 1..((b - a) - 1) |-> (a + 1) + i]  BY <2>1 DEF Numbers
  <2>7. QED  BY <2>2, <2>3, <2>4, <2>5, <2>6
<1>4. QED  BY <1>1, <1>2, <1>3

(* The mapping with both sides written alike. *)
MapsTo(queue, delivered, taken, published) ==
    /\ taken \in Nat /\ published \in Nat /\ taken <= published
    /\ queue = Numbers(taken, published) /\ delivered = Numbers(0, taken)

LEMMA Mapped == IInv => MapsTo(Queue, Delivered, Taken, sent)
<1> SUFFICES ASSUME IInv
             PROVE  MapsTo(Queue, Delivered, Taken, sent)
  OBVIOUS
<1>1. /\ Taken \in Nat /\ sent \in Nat /\ Taken <= sent
      /\ Queue = [i \in 1..(sent - Taken) |-> Taken + i]
      /\ Delivered = [i \in 1..Taken |-> i]
  BY Mapping
<1>2. Numbers(0, Taken) = [i \in 1..Taken |-> i]  BY <1>1 DEF Numbers
<1>3. QED  BY <1>1, <1>2 DEF Numbers, MapsTo

(* What follows for the channel from one more object taken or published. *)
LEMMA ChannelSteps ==
    ASSUME NEW q, NEW d, NEW t, NEW n, NEW q1, NEW d1, NEW t1, NEW n1,
           MapsTo(q, d, t, n), MapsTo(q1, d1, t1, n1)
    PROVE  /\ Len(q) + Len(d) = n
           /\ t1 = t /\ n1 = n => q1 = q /\ d1 = d
           /\ t1 = t /\ n1 = n + 1 => q1 = Append(q, n + 1) /\ d1 = d
           /\ t1 = t + 1 /\ n1 = n => q # << >> /\ q1 = Tail(q) /\ d1 = Append(d, Head(q))
<1>1. /\ t \in Nat /\ n \in Nat /\ t <= n /\ q = Numbers(t, n) /\ d = Numbers(0, t)
      /\ t1 \in Nat /\ n1 \in Nat /\ t1 <= n1 /\ q1 = Numbers(t1, n1) /\ d1 = Numbers(0, t1)
      /\ 0 \in Nat /\ 0 <= t
  BY DEF MapsTo
<1>2. Len(q) = n - t /\ Append(q, n + 1) = Numbers(t, n + 1)  BY <1>1, NumbersAre
<1>3. Len(d) = t - 0 /\ Append(d, t + 1) = Numbers(0, t + 1)  BY <1>1, NumbersAre
<1>4. t < n => q # << >> /\ Head(q) = t + 1 /\ Tail(q) = Numbers(t + 1, n)  BY <1>1, NumbersAre
<1>5. t1 = t + 1 /\ n1 = n => t < n  BY <1>1
<1>6. Len(q) + Len(d) = n  BY <1>1, <1>2, <1>3
<1>7. QED  BY <1>1, <1>2, <1>3, <1>4, <1>5, <1>6

-----------------------------------------------------------------------------
(* Theorems.  The processor must make the producer's stores visible in the *)
(* order they are written: without that the run SPSCQueue_reordered shows  *)
(* DeliveredInOrder violated.                                              *)

(* Whatever the sizes and the numbers of calls: the nodes stay one ring,   *)
(* the destructor meets each once, no node is filled while it is read and  *)
(* the debug assertions of WriteUnlock and ReadUnlock hold.                *)
THEOREM RingStaysIntact == ASSUME StoresInOrder PROVE QueueSpec => []RingIntact
<1>1. IInv => RingIntact  BY Apart, Circled DEF RingIntact
<1>2. QED  BY <1>1, Invariance, PTL

(* ReadLock's caller reads the objects in the order WriteUnlock published  *)
(* them, each once, though readyToRead starts as whatever the heap held.   *)
THEOREM ReadsInOrder == ASSUME StoresInOrder PROVE QueueSpec => []DeliveredInOrder
<1>1. IInv => DeliveredInOrder  BY DEF IInv, InOrder, DeliveredInOrder
<1>2. QED  BY <1>1, Invariance, PTL

(* The ring implements the channel the other modules use for it, step by   *)
(* step: the store to writePointer puts an object in, ReadLock's last step *)
(* takes one out, and no other step changes what is in the channel.        *)
(* (That everything is delivered in the end is fairness, and TLC's.)       *)
THEOREM ImplementsChannelSafely ==
    ASSUME StoresInOrder PROVE QueueSpec => Channel!Init /\ [][Channel!Next]_(Channel!vars)
<1>1. ASSUME QueueInit PROVE Channel!Init
  <2>1. IInv  BY <1>1, InitIInv
  <2>2. Taken = 0 /\ sent = 0
    <3>1. Len(received) = 0  BY <1>1 DEF QueueInit
    <3>2. QED  BY <1>1, <3>1 DEF QueueInit, Taken
  <2>3. Queue = Numbers(0, 0) /\ Delivered = Numbers(0, 0)  BY <2>1, <2>2, Mapped DEF MapsTo
  <2>4. Numbers(0, 0) = << >>
    <3>1. Numbers(0, 0) = [i \in 1..0 |-> 0 + i]  BY DEF Numbers
    <3>2. QED  BY <3>1
  <2>5. QED  BY <2>3, <2>4 DEF Channel!Init, Queue, Delivered
<1>2. IInv /\ IInv' /\ [QueueNext]_queueVars => [Channel!Next]_(Channel!vars)
  <2> SUFFICES ASSUME IInv, IInv', [QueueNext]_queueVars PROVE [Channel!Next]_(Channel!vars)
    OBVIOUS
  <2>1. MapsTo(Queue, Delivered, Taken, sent)  BY Mapped
  <2>2. MapsTo(Queue, Delivered, Taken, sent)'  BY Mapped, PTL
  <2>3. MapsTo(Queue', Delivered', Taken', sent')  BY <2>2 DEF MapsTo
  <2>4. /\ Len(Queue) + Len(Delivered) = sent
        /\ Taken' = Taken /\ sent' = sent => Queue' = Queue /\ Delivered' = Delivered
        /\ Taken' = Taken /\ sent' = sent + 1 => Queue' = Append(Queue, sent + 1) /\ Delivered' = Delivered
        /\ Taken' = Taken + 1 /\ sent' = sent =>
              Queue # << >> /\ Queue' = Tail(Queue) /\ Delivered' = Append(Delivered, Head(Queue))
    BY <2>1, <2>3, ChannelSteps
  <2>5. CASE Taken' = Taken /\ sent' = sent
    BY <2>4, <2>5 DEF Channel!vars, Queue, Delivered
  <2>6. CASE Taken' = Taken /\ sent' = sent + 1 /\ sent < MaxWrites
    <3>1. Channel!Put  BY <2>4, <2>6 DEF Channel!Put, Channel!Written, Queue, Delivered
    <3>2. QED  BY <3>1 DEF Channel!Next
  <2>7. CASE Taken' = Taken + 1 /\ sent' = sent
    <3>1. Channel!Get  BY <2>4, <2>7 DEF Channel!Get, Queue, Delivered
    <3>2. QED  BY <3>1 DEF Channel!Next
  <2>8. QED  BY <2>5, <2>6, <2>7, OneAtATime
<1>3. QED
  <2>1. QueueSpec => []IInv  BY Invariance
  <2>2. QED  BY <1>1, <1>2, <2>1, PTL DEF QueueSpec

=============================================================================
