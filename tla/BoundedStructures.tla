--------------------------- MODULE BoundedStructures ---------------------------
(***************************************************************************)
(* internal/util: the ring buffer that keeps the last entries pushed       *)
(* (BoundedQueue: console, WebSocket and API records of a crawl), and the  *)
(* doubly linked list with its map under the seen and content hashes       *)
(* (LRUSet, LRUCache), each against the sequence it stands for.  Every     *)
(* operation runs under the structure's mutex.                             *)
(***************************************************************************)
EXTENDS Integers, Sequences, FiniteSets, SequencesExt

CONSTANTS
  RingItem,      \* what is pushed
  RingSize,      \* capacity of the queue
  LruKey,        \* keys of a set or cache
  LruSize,       \* its capacity
  LruHead, LruTail   \* the two sentinels

ASSUME StructureAssumption ==
  /\ {RingSize, LruSize} \subseteq Nat \ {0}
  /\ LruHead # LruTail /\ {LruHead, LruTail} \cap LruKey = {}

VARIABLES
  ring, ringHead, ringTail, ringLen,   \* q.items, q.head, q.tail, q.size
  lastPushed,    \* abstract: the last RingSize items pushed since the last Clear
  lruItems,      \* DOMAIN of s.items
  list,          \* the nodes' pointers: next and prev
  order          \* abstract: the keys, most recently used first

ringVars == <<ring, ringHead, ringTail, ringLen, lastPushed>>
lruVars == <<lruItems, list, order>>

Node == LruKey \cup {LruHead, LruTail}
EmptyList == [next |-> [x \in Node |-> LruTail], prev |-> [x \in Node |-> LruHead]]

RingInit ==
  /\ ring \in [0..RingSize - 1 -> {CHOOSE x \in RingItem : TRUE}]
  /\ ringHead = 0 /\ ringTail = 0 /\ ringLen = 0 /\ lastPushed = <<>>

ListInit == lruItems = {} /\ list = EmptyList /\ order = <<>>

-----------------------------------------------------------------------------
Advance(i) == (i + 1) % RingSize

PushFull(x) ==
  /\ ringLen = RingSize /\ ring' = [ring EXCEPT ![ringHead] = x]
  /\ ringHead' = Advance(ringHead) /\ ringTail' = Advance(ringTail)
  /\ lastPushed' = Tail(lastPushed) \o <<x>>
  /\ UNCHANGED ringLen

PushSpace(x) ==
  /\ ringLen < RingSize /\ ring' = [ring EXCEPT ![ringTail] = x]
  /\ ringTail' = Advance(ringTail) /\ ringLen' = ringLen + 1
  /\ lastPushed' = lastPushed \o <<x>>
  /\ UNCHANGED ringHead

ClearRing ==
  /\ ringHead' = 0 /\ ringTail' = 0 /\ ringLen' = 0 /\ lastPushed' = <<>>
  /\ UNCHANGED ring

RingNext == ClearRing \/ \E x \in RingItem : PushFull(x) \/ PushSpace(x)

GetAll == [i \in 1..ringLen |-> ring[(ringHead + i - 1) % RingSize]]

-----------------------------------------------------------------------------
AddToHead(l, k) ==
  [next |-> [l.next EXCEPT ![k] = l.next[LruHead], ![LruHead] = k],
   prev |-> [l.prev EXCEPT ![k] = LruHead, ![l.next[LruHead]] = k]]

(* Fault: the node behind keeps its pointer to the one removed. *)
RemoveNode_OneWay(l, k) == [l EXCEPT !.next[l.prev[k]] = l.next[k]]

RemoveNode(l, k) == [l EXCEPT !.next[l.prev[k]] = l.next[k], !.prev[l.next[k]] = l.prev[k]]

MoveToHead(l, k) == AddToHead(RemoveNode(l, k), k)

(* Get of a cache, and Add, Put and PutIfAbsent of a key that is there. *)
PlaceOf(k) == CHOOSE i \in DOMAIN order : order[i] = k

Use(k) ==
  /\ k \in lruItems /\ list' = MoveToHead(list, k)
  /\ order' = <<k>> \o RemoveAt(order, PlaceOf(k)) /\ UNCHANGED lruItems

(* A new key is put in front, and the node before the tail goes when the     *)
(* map has become too large.  (AddIfAbsent of a key that is there does       *)
(* nothing: it does not count as use.)                                       *)
AddNew(k) ==
  /\ k \notin lruItems
  /\ LET added == AddToHead(list, k) last == added.prev[LruTail]
     IN IF Cardinality(lruItems) + 1 > LruSize
          THEN /\ list' = RemoveNode(added, last) /\ lruItems' = (lruItems \cup {k}) \ {last}
               /\ order' = RemoveAt(<<k>> \o order, Len(order) + 1)
          ELSE list' = added /\ lruItems' = lruItems \cup {k} /\ order' = <<k>> \o order

(* The nodes that were there keep their pointers; nothing leads to them. *)
ClearList ==
  /\ lruItems' = {} /\ order' = <<>>
  /\ list' = [list EXCEPT !.next[LruHead] = LruTail, !.prev[LruTail] = LruHead]

ListNext == ClearList \/ \E k \in LruKey : Use(k) \/ AddNew(k)

(* The pointers of l lead through the keys o, from sentinel to sentinel, and *)
(* back.                                                                     *)
Cell(o, i) == IF i = 0 THEN LruHead ELSE IF i > Len(o) THEN LruTail ELSE o[i]

Linked(l, o) ==
  \A i \in 0..Len(o) : l.next[Cell(o, i)] = Cell(o, i + 1) /\ l.prev[Cell(o, i + 1)] = Cell(o, i)

-----------------------------------------------------------------------------
(* The records kept are the last RingSize pushed, in their order, however    *)
(* often the ring has gone round and been cleared.  Both ways along the list *)
(* lead through exactly the keys of the map, in the order of their last use: *)
(* what is evicted is the key unused the longest.                            *)
StructuresKeepOrder ==
  /\ GetAll = lastPushed
  /\ Linked(list, order) /\ lruItems = ToSet(order) /\ Cardinality(lruItems) <= LruSize
=============================================================================
