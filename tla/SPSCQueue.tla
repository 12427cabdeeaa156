----------------------------- MODULE SPSCQueue -----------------------------
(***************************************************************************)
(* DataStructures::SingleProducerConsumer, the lock-free linked ring every *)
(* pair of threads of the client talks through (voice, audio streams,      *)
(* chat, keyboard, text draws).  One action per memory access of           *)
(* WriteLock, WriteUnlock, ReadLock and ReadUnlock that the other thread   *)
(* can observe; nodes are numbers, allocated in ascending order.           *)
(*                                                                         *)
(* The producer always calls WriteLock, fills the object and calls         *)
(* WriteUnlock; the consumer always calls ReadLock, uses the object and    *)
(* calls ReadUnlock.  CancelWriteLock, CancelReadLock and Clear have no    *)
(* caller among the client's threads and are left out.                     *)
(***************************************************************************)
EXTENDS Naturals, Sequences, SequencesExt

CONSTANTS
    MinListSize,        \* MINIMUM_LIST_SIZE, the nodes of a new ring
    MaxNodes,           \* bound: nodes the producer may allocate in all
    MaxWrites,          \* bound: objects the producer writes
    StoresInOrder,      \* the producer's stores become visible as written
    FreeAfterUnlock     \* the consumer reads the object after ReadUnlock

ASSUME SizesAssumption ==
    /\ MinListSize \in Nat /\ MinListSize >= 3
    /\ MaxNodes \in Nat /\ MaxNodes >= MinListSize
    /\ MaxWrites \in Nat
ASSUME ModesAssumption == {StoresInOrder, FreeAfterUnlock} \subseteq BOOLEAN

Null == 0
Nodes == 1..MaxNodes
Stores == <<"object", "ready", "pointer">>

VARIABLES
    next, readyToRead, object,  \* the fields of each node
    allocated,                  \* nodes allocated so far
    readPointer, readAheadPointer, writePointer, writeAheadPointer,
    producer,                   \* where the producer is in its two calls
    originalNext,               \* WriteLock's local, while it splices a node in
    slot,                       \* the node WriteLock returned
    todo,                       \* stores of WriteUnlock not yet visible
    sent,                       \* objects written and published
    consumer,                   \* where the consumer is in its two calls
    held,                       \* the node ReadLock returned
    received,                   \* objects the consumer read, oldest first
    freed                       \* objects whose payload the consumer released

list == <<next, readyToRead, object, allocated>>
pvars == <<writePointer, writeAheadPointer, producer, originalNext, slot, todo, sent>>
cvars == <<readPointer, readAheadPointer, consumer, held, received, freed>>
queueVars == <<list, pvars, cvars>>

(* The constructor: a ring of MinListSize nodes.  Their readyToRead and    *)
(* object, as those of every later node, are whatever the heap held.       *)
QueueInit ==
    /\ next = [n \in Nodes |-> IF n > MinListSize THEN Null
                               ELSE IF n = MinListSize THEN 1 ELSE n + 1]
    /\ readyToRead \in [Nodes -> BOOLEAN]
    /\ object = [n \in Nodes |-> Null]
    /\ allocated = MinListSize
    /\ readPointer = 1 /\ readAheadPointer = 1
    /\ writePointer = 1 /\ writeAheadPointer = 1
    /\ producer = "idle" /\ originalNext = Null /\ slot = Null /\ todo = {}
    /\ sent = 0
    /\ consumer = "idle" /\ held = Null
    /\ received = << >> /\ freed = << >>

-----------------------------------------------------------------------------
(* The producer *)

(* Mutant: WriteLock looks only at the next node's readyToRead. *)
TestReader_ReadyOnly ==
    /\ producer = "idle"
    /\ sent < MaxWrites
    /\ producer' = "testReady"
    /\ UNCHANGED <<list, writePointer, writeAheadPointer, originalNext, slot, todo, sent, cvars>>

(* WriteLock's first test: would the next node be the reader's? *)
TestReader ==
    /\ producer = "idle"
    /\ sent < MaxWrites
    /\ producer' = IF next[writeAheadPointer] = readPointer THEN "extend" ELSE "testReady"
    /\ UNCHANGED <<list, writePointer, writeAheadPointer, originalNext, slot, todo, sent, cvars>>

(* WriteLock's second test: is the next node still unread? *)
TestReady ==
    /\ producer = "testReady"
    /\ producer' = IF readyToRead[next[writeAheadPointer]] THEN "extend" ELSE "advance"
    /\ UNCHANGED <<list, writePointer, writeAheadPointer, originalNext, slot, todo, sent, cvars>>

(* The ring is full: hang a new node behind the write-ahead node, ... *)
AllocateNode ==
    /\ producer = "extend"
    /\ allocated < MaxNodes
    /\ allocated' = allocated + 1
    /\ originalNext' = next[writeAheadPointer]
    /\ next' = [next EXCEPT ![writeAheadPointer] = allocated + 1]
    /\ producer' = "link"
    /\ UNCHANGED <<readyToRead, object, writePointer, writeAheadPointer, slot, todo, sent, cvars>>

(* ... then close the ring again. *)
LinkNode ==
    /\ producer = "link"
    /\ next' = [next EXCEPT ![next[writeAheadPointer]] = originalNext]
    /\ originalNext' = Null
    /\ producer' = "advance"
    /\ UNCHANGED <<readyToRead, object, allocated, writePointer, writeAheadPointer, slot, todo, sent, cvars>>

(* WriteLock returns the node it steps over. *)
AdvanceWrite ==
    /\ producer = "advance"
    /\ slot' = writeAheadPointer
    /\ writeAheadPointer' = next[writeAheadPointer]
    /\ todo' = Range(Stores)
    /\ producer' = "publish"
    /\ UNCHANGED <<list, writePointer, originalNext, sent, cvars>>

(* The stores that fill the object and WriteUnlock it, in program order or *)
(* in the order the processor makes them visible.                          *)
MayStore(s) ==
    /\ s \in todo
    /\ StoresInOrder => \A i, j \in DOMAIN Stores :
                            Stores[j] = s /\ i < j => Stores[i] \notin todo

Store(s) ==
    /\ producer = "publish"
    /\ MayStore(s)
    /\ object' = IF s = "object" THEN [object EXCEPT ![slot] = sent + 1] ELSE object
    /\ readyToRead' = IF s = "ready" THEN [readyToRead EXCEPT ![slot] = TRUE] ELSE readyToRead
    /\ writePointer' = IF s = "pointer" THEN next[slot] ELSE writePointer
    /\ todo' = todo \ {s}
    /\ IF todo' = {} THEN producer' = "idle" /\ slot' = Null /\ sent' = sent + 1
                     ELSE UNCHANGED <<producer, slot, sent>>
    /\ UNCHANGED <<next, allocated, writeAheadPointer, originalNext, cvars>>

Producer ==
    \/ TestReader \/ TestReady \/ AllocateNode \/ LinkNode \/ AdvanceWrite
    \/ \E s \in Range(Stores) : Store(s)

-----------------------------------------------------------------------------
(* The consumer *)

(* Mutant: ReadLock trusts readyToRead alone. *)
TestWriter_ReadyOnly ==
    /\ consumer = "idle"
    /\ consumer' = "testReady"
    /\ UNCHANGED <<list, pvars, readPointer, readAheadPointer, held, received, freed>>

(* ReadLock's first test; when it fails ReadLock returns 0. *)
TestWriter ==
    /\ consumer = "idle"
    /\ readAheadPointer # writePointer
    /\ consumer' = "testReady"
    /\ UNCHANGED <<list, pvars, readPointer, readAheadPointer, held, received, freed>>

(* ReadLock's second test, and the node it returns. *)
AdvanceRead ==
    /\ consumer = "testReady"
    /\ IF readyToRead[readAheadPointer]
       THEN /\ held' = readAheadPointer
            /\ readAheadPointer' = next[readAheadPointer]
            /\ consumer' = "reading"
       ELSE /\ consumer' = "idle"
            /\ UNCHANGED <<held, readAheadPointer>>
    /\ UNCHANGED <<list, pvars, readPointer, received, freed>>

(* The caller reads the object and, in the usual order, frees its payload. *)
UseObject ==
    /\ consumer = "reading"
    /\ received' = Append(received, object[held])
    /\ freed' = IF FreeAfterUnlock THEN freed ELSE Append(freed, object[held])
    /\ consumer' = "unlock"
    /\ UNCHANGED <<list, pvars, readPointer, readAheadPointer, held>>

(* ReadUnlock hands the node back ... *)
ClearReady ==
    /\ consumer = "unlock"
    /\ readyToRead' = [readyToRead EXCEPT ![readPointer] = FALSE]
    /\ consumer' = "stepOver"
    /\ UNCHANGED <<next, object, allocated, pvars, readPointer, readAheadPointer, held, received, freed>>

(* ... and steps over it. *)
StepRead ==
    /\ consumer = "stepOver"
    /\ readPointer' = next[readPointer]
    /\ IF FreeAfterUnlock
       THEN consumer' = "late" /\ UNCHANGED held
       ELSE consumer' = "idle" /\ held' = Null
    /\ UNCHANGED <<list, pvars, readAheadPointer, received, freed>>

(* The voice consumer's early exits free the payload after ReadUnlock. *)
FreeLate ==
    /\ consumer = "late"
    /\ freed' = Append(freed, object[held])
    /\ consumer' = "idle" /\ held' = Null
    /\ UNCHANGED <<list, pvars, readPointer, readAheadPointer, received>>

QueueConsumer == TestWriter \/ AdvanceRead \/ UseObject \/ ClearReady \/ StepRead \/ FreeLate

QueueNext == Producer \/ QueueConsumer

(* Both threads loop for ever and neither ever waits for the other. *)
QueueSpec == QueueInit /\ [][QueueNext]_queueVars /\ WF_queueVars(Producer) /\ WF_queueVars(QueueConsumer)

-----------------------------------------------------------------------------
(* Properties *)

QueueTypeOK ==
    /\ next \in [Nodes -> Nodes \cup {Null}]
    /\ readyToRead \in [Nodes -> BOOLEAN]
    /\ object \in [Nodes -> 0..MaxWrites]
    /\ allocated \in MinListSize..MaxNodes
    /\ {readPointer, readAheadPointer, writePointer, writeAheadPointer} \subseteq Nodes
    /\ producer \in {"idle", "testReady", "extend", "link", "advance", "publish"}
    /\ {originalNext, slot, held} \subseteq Nodes \cup {Null}
    /\ todo \subseteq Range(Stores)
    /\ sent \in 0..MaxWrites
    /\ consumer \in {"idle", "testReady", "reading", "unlock", "stepOver", "late"}
    /\ received \in Seq(0..MaxWrites) /\ freed \in Seq(0..MaxWrites)

(* Node reached from n in k steps. *)
After(n, k) ==
    LET walk[i \in 0..k] == IF i = 0 THEN n ELSE next[walk[i - 1]] IN walk[k]

(* The nodes from `from` up to, and without, `to`, in ring order. *)
Stretch(from, to) ==
    LET len == CHOOSE k \in 0..allocated :
                  After(from, k) = to /\ \A j \in 0..(k - 1) : After(from, j) # to
    IN  [i \in 1..len |-> After(from, i - 1)]

(* ReadLock returns "the data previously written to, in another thread":   *)
(* the consumer reads exactly the objects written, in the order they were  *)
(* written, though a node's readyToRead may start as garbage.              *)
DeliveredInOrder == received = [i \in 1..Len(received) |-> i]

(* The payload the consumer releases is the payload it was handed: none is *)
(* released twice and none is lost.                                        *)
FreedAsReceived ==
    /\ IsPrefix(freed, received)
    /\ consumer = "idle" => freed = received

(* No node is filled by the producer while the consumer uses it, and the   *)
(* debug assertions of WriteUnlock and ReadUnlock (lines 166-167, 204-205) *)
(* hold: neither thread laps the other.                                    *)
NoSharedNode ==
    /\ producer = "publish" /\ consumer \in {"reading", "unlock", "stepOver"} => slot # held
    /\ producer = "publish" /\ "pointer" \in todo =>
            /\ next[writePointer] # readPointer
            /\ writePointer # writeAheadPointer
    /\ consumer \in {"reading", "unlock", "stepOver"} =>
            /\ readAheadPointer # readPointer
            /\ readPointer # writePointer

(* Outside WriteLock's splice the allocated nodes form one cycle, which is *)
(* what the destructor walks to free every node once.                      *)
OneRing ==
    producer # "link" =>
        /\ After(1, allocated) = 1
        /\ \A k \in 1..(allocated - 1) : After(1, k) # 1

(* The ring stays one, and its two users stay apart in it.                 *)
RingIntact == NoSharedNode /\ OneRing

(* The ring implements the abstract channel, and so loses nothing and      *)
(* delivers everything in the end: an object is in the channel from the    *)
(* store to writePointer until ReadLock returns its node.                  *)
Channel == INSTANCE FifoChannel WITH
    queue <- LET unread == Stretch(readAheadPointer, writePointer)
             IN  [i \in DOMAIN unread |-> object[unread[i]]],
    delivered <- IF consumer = "reading" THEN Append(received, object[held]) ELSE received

ImplementsChannel == Channel!Spec
=============================================================================
