----------------------------- MODULE SpscQueue -----------------------------
(***************************************************************************)
(* SpscQueue<T, N> (include/goldmine/lockfree_queue.hpp): the lock-free    *)
(* ring that carries ticks, signals and trade outcomes between the         *)
(* pipeline's threads.  One producer thread runs try_push, one consumer    *)
(* thread runs try_pop; every load, slot copy and store that the other     *)
(* thread can observe is a step of its own.                                *)
(*                                                                         *)
(* An acquire load of the other side's index may return any value that     *)
(* index has held since the last one this thread read (C++ read            *)
(* coherence), so staleness is part of the model: tailSeen and headSeen    *)
(* are how many pops (pushes) the producer (consumer) has synchronised     *)
(* with, and the slot copies are race-free only if those are recent        *)
(* enough.                                                                 *)
(***************************************************************************)
EXTENDS Integers, Sequences

CONSTANTS N,         \* number of slots
          Items,     \* the elements pushed
          NoItem,    \* content of a slot never written
          MaxPush    \* bound: how many pushes are explored

(* The code requires a power of two so that "& MASK" is "% N".             *)
ASSUME NAssumption == N \in Nat /\ N >= 2
ASSUME MaxPushAssumption == MaxPush \in Nat
ASSUME ItemsAssumption == NoItem \notin Items

VARIABLES
    head, tail,              \* the two atomic indices
    tailCache, headCache,    \* the producer's and the consumer's cached copy
    buffer,                  \* the slots
    ppc, item,               \* producer: where it is in try_push, its argument
    cpc, got,                \* consumer: where it is in try_pop, its local copy
    sent, rcvd,              \* history: items enqueued, items returned
    tailSeen, headSeen       \* history: counts synchronised with by a load

producerVars == <<head, tailCache, ppc, item, sent, tailSeen>>
consumerVars == <<tail, headCache, cpc, got, rcvd, headSeen>>
vars == <<producerVars, consumerVars, buffer>>

Wrap(i) == i % N
Slots == 0 .. N - 1
pushed == Len(sent)
popped == Len(rcvd)

TypeOK ==
    /\ head \in Slots /\ tail \in Slots
    /\ tailCache \in Slots /\ headCache \in Slots
    /\ buffer \in [Slots -> Items \cup {NoItem}]
    /\ ppc \in {"idle", "reload", "copyin", "publish"}
    /\ cpc \in {"idle", "reload", "copyout", "release"}
    /\ item \in Items \cup {NoItem}
    /\ got \in Items \cup {NoItem}
    /\ sent \in Seq(Items)
    /\ rcvd \in Seq(Items \cup {NoItem})
    /\ tailSeen \in Nat /\ headSeen \in Nat

Init ==
    /\ head = 0 /\ tail = 0 /\ tailCache = 0 /\ headCache = 0
    /\ buffer = [s \in Slots |-> NoItem]
    /\ ppc = "idle" /\ item = NoItem
    /\ cpc = "idle" /\ got = NoItem
    /\ sent = <<>> /\ rcvd = <<>>
    /\ tailSeen = 0 /\ headSeen = 0

----------------------------------------------------------------------------
(* The producer: try_push.                                                 *)

(* Enter with an item; compare next with the cached tail.                  *)
PushCall(v) ==
    /\ ppc = "idle"
    /\ pushed < MaxPush
    /\ item' = v
    /\ ppc' = IF Wrap(head + 1) = tailCache THEN "reload" ELSE "copyin"
    /\ UNCHANGED <<head, tailCache, sent, tailSeen, consumerVars, buffer>>
(* Wrong variant: after the reload the ring is not checked again.          *)
PushReloadUnchecked ==
    /\ ppc = "reload"
    /\ \E t \in tailSeen .. popped : tailSeen' = t /\ tailCache' = Wrap(t)
    /\ ppc' = "copyin"
    /\ UNCHANGED <<head, item, sent, consumerVars, buffer>>

(* The ring looks full: reload tail_ (acquire); still full returns false.  *)
PushReload ==
    /\ ppc = "reload"
    /\ \E t \in tailSeen .. popped :
          /\ tailSeen' = t
          /\ tailCache' = Wrap(t)
          /\ ppc' = IF Wrap(head + 1) = Wrap(t) THEN "idle" ELSE "copyin"
    /\ UNCHANGED <<head, item, sent, consumerVars, buffer>>

PushCopy ==
    /\ ppc = "copyin"
    /\ buffer' = [buffer EXCEPT ![head] = item]
    /\ ppc' = "publish"
    /\ UNCHANGED <<head, tailCache, item, sent, tailSeen, consumerVars>>

(* head_.store(next, release): the item is visible from here on.           *)
PushPublish ==
    /\ ppc = "publish"
    /\ head' = Wrap(head + 1)
    /\ sent' = Append(sent, item)
    /\ ppc' = "idle"
    /\ UNCHANGED <<tailCache, item, tailSeen, consumerVars, buffer>>

----------------------------------------------------------------------------
(* The consumer: try_pop.                                                  *)

PopCall ==
    /\ cpc = "idle"
    /\ cpc' = IF tail = headCache THEN "reload" ELSE "copyout"
    /\ UNCHANGED <<tail, headCache, got, rcvd, headSeen, producerVars, buffer>>
(* Wrong variant: the reloaded index is not kept.                          *)
PopReloadForgets ==
    /\ cpc = "reload"
    /\ \E h \in headSeen .. pushed : headSeen' = h
    /\ cpc' = IF tail = headCache THEN "idle" ELSE "copyout"
    /\ UNCHANGED <<tail, headCache, got, rcvd, producerVars, buffer>>

(* The ring looks empty: reload head_ (acquire); still empty: nullopt.     *)
PopReload ==
    /\ cpc = "reload"
    /\ \E h \in headSeen .. pushed :
          /\ headSeen' = h
          /\ headCache' = Wrap(h)
          /\ cpc' = IF tail = Wrap(h) THEN "idle" ELSE "copyout"
    /\ UNCHANGED <<tail, got, rcvd, producerVars, buffer>>
(* Wrong variant: tail is advanced before the slot is read.                *)
PopCopyNext ==
    /\ cpc = "copyout"
    /\ got' = buffer[Wrap(tail + 1)]
    /\ cpc' = "release"
    /\ UNCHANGED <<tail, headCache, rcvd, headSeen, producerVars, buffer>>

PopCopy ==
    /\ cpc = "copyout"
    /\ got' = buffer[tail]
    /\ cpc' = "release"
    /\ UNCHANGED <<tail, headCache, rcvd, headSeen, producerVars, buffer>>

(* tail_.store(tail + 1, release), then the copy is returned.              *)
PopRelease ==
    /\ cpc = "release"
    /\ tail' = Wrap(tail + 1)
    /\ rcvd' = Append(rcvd, got)
    /\ cpc' = "idle"
    /\ UNCHANGED <<headCache, got, headSeen, producerVars, buffer>>

----------------------------------------------------------------------------
Producer == (\E v \in Items : PushCall(v)) \/ PushReload \/ PushCopy \/ PushPublish
Consumer == PopCall \/ PopReload \/ PopCopy \/ PopRelease
Next == Producer \/ Consumer

Spec == Init /\ [][Next]_vars

(* A store becomes visible in finite time: the reload cannot be stale for  *)
(* ever.                                                                   *)
FreshHead == PopReload /\ headSeen' = pushed
FreshTail == PushReload /\ tailSeen' = popped

(* Both threads poll in a loop (pipeline.hpp), so both keep taking steps.  *)
Fairness ==
    /\ WF_vars(Consumer) /\ SF_vars(FreshHead)
    /\ WF_vars(Producer) /\ SF_vars(FreshTail)

FairSpec == Spec /\ Fairness

----------------------------------------------------------------------------
(* Diagnostics: empty() and approx_size(), both loads at one moment.       *)
Empty == head = tail
(* Wrong variant of ApproxSize: the difference is not wrapped.             *)
ApproxSizeUnwrapped == head - tail

ApproxSize == (head - tail + N) % N

(***************************************************************************)
(* Properties                                                              *)
(***************************************************************************)

(* Copying into a slot, the producer has synchronised with the pop of the  *)
(* item that last occupied it; copying out, the consumer has synchronised  *)
(* with the push that filled it.  Hence no copy races with another, even   *)
(* when the indices it decides on are stale (try_push, try_pop).           *)
SlotOwnership ==
    /\ ppc = "copyin"  => pushed - N < tailSeen
    /\ cpc = "copyout" => popped < headSeen

(* Every item in flight sits intact in its slot, whatever lap the ring is  *)
(* on and whatever is being copied meanwhile (buffer_ in try_push/try_pop).*)
InFlightIntact ==
    \A k \in popped .. pushed - 1 : buffer[Wrap(k)] = sent[k + 1]

(* approx_size() and empty() report the true occupancy: the ring keeps one *)
(* slot free, so a full ring is never taken for an empty one.              *)
OccupancyExact ==
    /\ ApproxSize = pushed - popped
    /\ Empty <=> pushed = popped

(* The queue implements a lossless bounded FIFO of N - 1 items.            *)
Fifo == INSTANCE BoundedFifo WITH Capacity <- N - 1
ImplementsFifo == Fifo!FifoSpec

(* Every item enqueued is eventually returned by try_pop.                  *)
EveryItemDelivered == \A k \in 1 .. MaxPush : (pushed >= k) ~> (popped >= k)
============================================================================
