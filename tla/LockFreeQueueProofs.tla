------------------------- MODULE LockFreeQueueProofs -------------------------
(***************************************************************************)
(* Proofs about the two structures of lockfree_queue.hpp.                  *)
(*                                                                         *)
(* SpscQueue, for every ring size N >= 2, every set of items and every     *)
(* bound on the pushes: the type invariant, the ownership of the slots,    *)
(* the integrity of the items in flight, and the refinement of the bounded *)
(* FIFO.  IInv ties the residues the code works with (head, tail and the   *)
(* cached copies) to the counts of pushes and pops they stand for;         *)
(* everything else follows from the counts, which never differ by a lap.   *)
(*                                                                         *)
(* PingPong, for every set of words and every bound on the stores: the     *)
(* type invariant, NeverStale and WholeUnlessLapped.  The two properties   *)
(* speak of what has been copied.  What makes them hold is what the two    *)
(* slots contain at any moment (NewestSlot, OtherSlot): one the newest     *)
(* complete store, the other the one before it or, word by word, the one   *)
(* being made.                                                             *)
(***************************************************************************)
EXTENDS SpscQueue, PingPong, TLAPS

----------------------------------------------------------------------------
(* Arithmetic of ring indices: remainders modulo the size n of a ring,     *)
(* where item k is stored in slot k % n.                                   *)

(* Division with remainder.                                                *)
LEMMA DivMod ==
    ASSUME NEW n \in Nat, n >= 1, NEW a \in Nat
    PROVE  /\ a = (n * (a \div n)) + (a % n)
           /\ a % n \in 0 .. n - 1
           /\ a \div n \in Nat
  OBVIOUS

(* The remainder is the only number in 0 .. n-1 that differs from a by a   *)
(* multiple of n.                                                          *)
LEMMA ModUnique ==
    ASSUME NEW n \in Nat, n >= 1, NEW a \in Nat,
           NEW q \in Nat, NEW r \in 0 .. n - 1, a = (n * q) + r
    PROVE  a % n = r
<1>1. /\ a = (n * (a \div n)) + (a % n)
      /\ a % n \in 0 .. n - 1
      /\ a \div n \in Nat
  BY DivMod
<1>2. a \div n = q
  BY <1>1
<1>3. QED
  BY <1>1, <1>2

(* The next slot after that of item a is that of item a + 1.               *)
LEMMA ModSucc ==
    ASSUME NEW n \in Nat, n >= 1, NEW a \in Nat
    PROVE  ((a % n) + 1) % n = (a + 1) % n
<1> DEFINE q == a \div n
           r == a % n
<1>1. a = (n * q) + r /\ r \in 0 .. n - 1 /\ q \in Nat
  BY DivMod
<1>a. a + 1 \in Nat
  OBVIOUS
<1> HIDE DEF q, r
<1>2. CASE r + 1 < n
  <2>1. a + 1 = (n * q) + (r + 1) /\ r + 1 \in 0 .. n - 1
    BY <1>1, <1>2
  <2>2. (a + 1) % n = r + 1
    BY <1>1, <1>a, <2>1, ModUnique
  <2>3. r + 1 = (n * 0) + (r + 1)
    BY <1>1
  <2>4. (r + 1) % n = r + 1
    BY <1>1, <2>1, <2>3, ModUnique
  <2>5. QED
    BY <2>2, <2>4 DEF r
<1>3. CASE r + 1 = n
  <2>1. a + 1 = (n * (q + 1)) + 0 /\ q + 1 \in Nat /\ 0 \in 0 .. n - 1
    BY <1>1, <1>3
  <2>2. (a + 1) % n = 0
    BY <1>a, <2>1, ModUnique
  <2>3. r + 1 = (n * 1) + 0 /\ r + 1 \in Nat
    BY <1>1, <1>3
  <2>4. (r + 1) % n = 0
    BY <2>1, <2>3, ModUnique
  <2>5. QED
    BY <2>2, <2>4 DEF r
<1>4. QED
  BY <1>1, <1>2, <1>3 DEF r

(* One lap later is the same slot.                                         *)
LEMMA ModLap ==
    ASSUME NEW n \in Nat, n >= 1, NEW a \in Nat
    PROVE  (a + n) % n = a % n
<1> DEFINE q == a \div n
<1>1. a = (n * q) + (a % n) /\ a % n \in 0 .. n - 1 /\ q \in Nat
  BY DivMod
<1>2. a + n = (n * (q + 1)) + (a % n) /\ q + 1 \in Nat /\ a + n \in Nat
  BY <1>1
<1>3. QED
  BY <1>1, <1>2, ModUnique

(* Items less than a lap apart have different slots.                       *)
LEMMA ModInjective ==
    ASSUME NEW n \in Nat, n >= 1, NEW a \in Nat, NEW b \in Nat,
           a <= b, b - a < n, a % n = b % n
    PROVE  a = b
<1> DEFINE p == a \div n
           q == b \div n
           r == a % n
<1>1. a = (n * p) + r /\ p \in Nat /\ r \in 0 .. n - 1
  BY DivMod
<1>2. b = (n * q) + r /\ q \in Nat
  BY DivMod
<1>3. b - a = n * (q - p)
  BY <1>1, <1>2
<1>4. q - p = 0
  BY <1>1, <1>2, <1>3
<1>5. QED
  BY <1>1, <1>2, <1>4

(* The distance between two items less than a lap apart, computed from     *)
(* their slots.                                                            *)
LEMMA ModDistance ==
    ASSUME NEW n \in Nat, n >= 1, NEW a \in Nat, NEW b \in Nat,
           a <= b, b - a < n
    PROVE  ((b % n) - (a % n) + n) % n = b - a
<1> DEFINE p == a \div n
           q == b \div n
           r == a % n
           s == b % n
           d == b - a
<1>1. a = (n * p) + r /\ p \in Nat /\ r \in 0 .. n - 1
  BY DivMod
<1>2. b = (n * q) + s /\ q \in Nat /\ s \in 0 .. n - 1
  BY DivMod
<1>3. d \in 0 .. n - 1 /\ s - r + n \in Nat
  BY <1>1, <1>2
<1>4. d = (n * (q - p)) + (s - r)
  BY <1>1, <1>2
<1>5. q - p \in {0, 1}
  <2>1. (n * (q - p)) > -n /\ n * (q - p) < 2 * n
    BY <1>1, <1>2, <1>3, <1>4
  <2>2. QED
    BY <2>1, <1>1, <1>2
<1>6. CASE q - p = 0
  <2>1. s - r + n = (n * 1) + d
    BY <1>1, <1>2, <1>4, <1>6
  <2>2. QED
    BY <1>3, <2>1, ModUnique
<1>7. CASE q - p = 1
  <2>1. s - r + n = (n * 0) + d
    BY <1>1, <1>2, <1>4, <1>7
  <2>2. QED
    BY <1>3, <2>1, ModUnique
<1>8. QED
  BY <1>5, <1>6, <1>7

----------------------------------------------------------------------------

(* Each index is the residue of the count it stands for.                   *)
IndicesMatch ==
    /\ head = Wrap(pushed) /\ tail = Wrap(popped)
    /\ tailCache = Wrap(tailSeen) /\ headCache = Wrap(headSeen)

(* Cached counts lag, and the producer is never a lap ahead of its cache.  *)
CountsOrdered ==
    /\ tailSeen <= popped /\ popped <= headSeen /\ headSeen <= pushed
    /\ pushed - tailSeen <= N - 1

(* What each thread has established once it may touch its slot.            *)
RoomForPush == ppc \in {"copyin", "publish"} => pushed - tailSeen <= N - 2
ItemForPop == cpc \in {"copyout", "release"} => popped < headSeen

(* The values in the threads' hands.                                       *)
InHand ==
    /\ ppc # "idle" => item \in Items
    /\ ppc = "publish" => buffer[head] = item
    /\ cpc = "release" => got = sent[popped + 1]

IInv == TypeOK /\ IndicesMatch /\ CountsOrdered /\ RoomForPush
          /\ ItemForPop /\ InHand /\ InFlightIntact

----------------------------------------------------------------------------
(* Arithmetic of Wrap.                                                     *)

LEMMA WrapFacts ==
    ASSUME NEW a \in Nat
    PROVE  /\ Wrap(a) \in Slots
           /\ Wrap(Wrap(a) + 1) = Wrap(a + 1)
           /\ Wrap(a + N) = Wrap(a)
<1>1. N >= 1
  BY NAssumption
<1>2. Wrap(a) \in Slots
  BY <1>1, NAssumption, DivMod DEF Wrap, Slots
<1>3. Wrap(Wrap(a) + 1) = Wrap(a + 1)
  BY <1>1, NAssumption, ModSucc DEF Wrap
<1>4. Wrap(a + N) = Wrap(a)
  BY <1>1, NAssumption, ModLap DEF Wrap
<1>5. QED
  BY <1>2, <1>3, <1>4

LEMMA WrapInjective ==
    ASSUME NEW a \in Nat, NEW b \in Nat, a <= b, b - a < N, Wrap(a) = Wrap(b)
    PROVE  a = b
<1>1. N >= 1
  BY NAssumption
<1>2. QED
  BY <1>1, NAssumption, ModInjective DEF Wrap

LEMMA WrapDistance ==
    ASSUME NEW a \in Nat, NEW b \in Nat, a <= b, b - a < N
    PROVE  (Wrap(b) - Wrap(a) + N) % N = b - a
<1>1. N >= 1
  BY NAssumption
<1>2. ((b % N) - (a % N) + N) % N = b - a
  BY <1>1, NAssumption, ModDistance
<1>3. QED
  BY <1>2 DEF Wrap

(* The comparison of residues with which try_push decides that the ring is *)
(* full is a comparison of counts.                                         *)
LEMMA FullTest ==
    ASSUME NEW p \in Nat, NEW t \in Nat, t <= p, p - t <= N - 1
    PROVE  Wrap(Wrap(p) + 1) = Wrap(t) <=> p - t = N - 1
<1>1. Wrap(Wrap(p) + 1) = Wrap(p + 1)
  BY WrapFacts
<1>2. ASSUME p - t = N - 1
      PROVE  Wrap(p + 1) = Wrap(t)
  <2>1. p + 1 = t + N
    BY <1>2, NAssumption
  <2>2. QED
    BY <2>1, WrapFacts
<1>3. ASSUME Wrap(p + 1) = Wrap(t), p - t # N - 1
      PROVE  FALSE
  <2>1. t <= p + 1 /\ p + 1 - t < N /\ p + 1 \in Nat
    BY <1>3, NAssumption
  <2>2. t = p + 1
    BY <1>3, <2>1, WrapInjective
  <2>3. QED
    BY <2>2
<1>4. QED
  BY <1>1, <1>2, <1>3

(* So is the comparison with which try_pop decides that it is empty.       *)
LEMMA EmptyTest ==
    ASSUME NEW h \in Nat, NEW t \in Nat, t <= h, h - t <= N - 1
    PROVE  Wrap(t) = Wrap(h) <=> t = h
  BY WrapInjective, NAssumption

----------------------------------------------------------------------------
(* The counts are naturals and move as the histories do.                   *)
LEMMA CountFacts ==
    ASSUME TypeOK
    PROVE  /\ pushed \in Nat /\ popped \in Nat
           /\ \A v \in Items : /\ Len(Append(sent, v)) = pushed + 1
                               /\ Append(sent, v)[pushed + 1] = v
                               /\ \A i \in 1 .. pushed : Append(sent, v)[i] = sent[i]
                               /\ Append(sent, v) \in Seq(Items)
           /\ \A v \in Items \cup {NoItem} :
                   /\ Len(Append(rcvd, v)) = popped + 1
                   /\ Append(rcvd, v) \in Seq(Items \cup {NoItem})
           /\ \A i \in 1 .. pushed : sent[i] \in Items
  BY DEF TypeOK, pushed, popped

LEMMA InitIInv == Init => IInv
<1> SUFFICES ASSUME Init PROVE IInv
  OBVIOUS
<1>1. pushed = 0 /\ popped = 0
  BY DEF Init, pushed, popped
<1>2. Wrap(0) = 0
  BY NAssumption DEF Wrap
<1>3. TypeOK
  BY NAssumption DEF Init, TypeOK, Slots
<1>4. QED
  BY <1>1, <1>2, <1>3, NAssumption
     DEF Init, IInv, IndicesMatch, CountsOrdered, RoomForPush, ItemForPop,
         InHand, InFlightIntact

----------------------------------------------------------------------------
(* Every step preserves IInv.                                              *)

LEMMA PushCallStep == ASSUME IInv, NEW v \in Items, PushCall(v) PROVE IInv'
<1> USE DEF IInv, PushCall, consumerVars
<1>1. pushed' = pushed /\ popped' = popped
  BY DEF pushed, popped
<1>2. TypeOK'
  BY DEF TypeOK
<1>3. IndicesMatch' /\ CountsOrdered' /\ ItemForPop'
  BY <1>1 DEF IndicesMatch, CountsOrdered, ItemForPop, Wrap
<1>4. RoomForPush'
  <2>1. Wrap(head + 1) = tailCache <=> pushed - tailSeen = N - 1
    BY FullTest, CountFacts DEF IndicesMatch, CountsOrdered, TypeOK
  <2>2. QED
    BY <1>1, <2>1, CountFacts, NAssumption DEF RoomForPush, CountsOrdered, TypeOK
<1>5. InHand'
  BY <1>1 DEF InHand
<1>6. InFlightIntact'
  BY <1>1 DEF InFlightIntact, Wrap
<1>7. QED
  BY <1>2, <1>3, <1>4, <1>5, <1>6

LEMMA PushReloadStep == ASSUME IInv, PushReload PROVE IInv'
<1> USE DEF IInv
<1>1. pushed' = pushed /\ popped' = popped
  BY DEF PushReload, consumerVars, pushed, popped
<1>2. PICK t \in tailSeen .. popped :
          /\ tailSeen' = t
          /\ tailCache' = Wrap(t)
          /\ ppc' = IF Wrap(head + 1) = Wrap(t) THEN "idle" ELSE "copyin"
  BY DEF PushReload
<1>3. t \in Nat /\ tailSeen <= t /\ t <= popped
  BY CountFacts DEF TypeOK
<1>4. TypeOK'
  BY <1>2, <1>3, WrapFacts DEF PushReload, consumerVars, TypeOK
<1>5. IndicesMatch' /\ CountsOrdered' /\ ItemForPop'
  BY <1>1, <1>2, <1>3, CountFacts, NAssumption
     DEF PushReload, consumerVars, IndicesMatch, CountsOrdered, ItemForPop, Wrap, TypeOK
<1>6. RoomForPush'
  <2>1. pushed - t <= N - 1 /\ t <= pushed
    BY <1>3, CountFacts, NAssumption DEF CountsOrdered, TypeOK
  <2>2. Wrap(head + 1) = Wrap(t) <=> pushed - t = N - 1
    BY <1>3, <2>1, FullTest, CountFacts DEF IndicesMatch
  <2>3. QED
    BY <1>1, <1>2, <1>3, <2>1, <2>2, CountFacts, NAssumption DEF RoomForPush
<1>7. InHand' /\ InFlightIntact'
  BY <1>1, <1>2 DEF PushReload, consumerVars, InHand, InFlightIntact, Wrap
<1>8. QED
  BY <1>4, <1>5, <1>6, <1>7

LEMMA PushCopyStep == ASSUME IInv, PushCopy PROVE IInv'
<1> USE DEF IInv, PushCopy, consumerVars
<1>1. pushed' = pushed /\ popped' = popped
  BY DEF pushed, popped
<1>2. TypeOK'
  BY DEF TypeOK
<1>3. IndicesMatch' /\ CountsOrdered' /\ ItemForPop' /\ RoomForPush'
  BY <1>1 DEF IndicesMatch, CountsOrdered, ItemForPop, RoomForPush, Wrap
<1>4. InHand'
  BY <1>1 DEF InHand, TypeOK
<1>5. InFlightIntact'
  <2> SUFFICES ASSUME NEW k \in popped .. pushed - 1
               PROVE  buffer'[Wrap(k)] = sent[k + 1]
    BY <1>1 DEF InFlightIntact, Wrap
  <2>a. pushed \in Nat /\ popped \in Nat /\ tailSeen \in Nat
    BY CountFacts DEF TypeOK
  <2>b. pushed - tailSeen <= N - 2 /\ tailSeen <= popped
    BY DEF CountsOrdered, RoomForPush
  <2>1. k \in Nat /\ k <= pushed /\ pushed - k < N /\ k # pushed
    BY <2>a, <2>b, NAssumption
  <2>2. Wrap(k) # head
    BY <2>1, CountFacts, WrapInjective DEF IndicesMatch
  <2>3. Wrap(k) \in Slots
    BY <2>1, WrapFacts
  <2>4. QED
    BY <2>2, <2>3 DEF InFlightIntact, TypeOK
<1>6. QED
  BY <1>2, <1>3, <1>4, <1>5

LEMMA PushPublishStep == ASSUME IInv, PushPublish PROVE IInv'
<1> USE DEF IInv, PushPublish, consumerVars
<1>1. item \in Items /\ buffer[head] = item
  BY DEF InHand
<1>2. pushed' = pushed + 1 /\ popped' = popped
  BY <1>1, CountFacts DEF pushed, popped
<1>3. \A i \in 1 .. pushed : sent'[i] = sent[i]
  BY <1>1, CountFacts
<1>4. sent'[pushed + 1] = item
  BY <1>1, CountFacts
<1>5. head' = Wrap(pushed + 1) /\ head' \in Slots
  <2>1. pushed \in Nat /\ pushed + 1 \in Nat /\ head = Wrap(pushed)
    BY CountFacts DEF IndicesMatch
  <2>2. QED
    BY <2>1, WrapFacts
<1>6. TypeOK' /\ IndicesMatch'
  <2>1. sent' \in Seq(Items)
    BY <1>1, CountFacts
  <2>2. TypeOK'
    BY <1>5, <2>1 DEF TypeOK
  <2>3. IndicesMatch'
    BY <1>2, <1>5 DEF IndicesMatch, Wrap
  <2>4. QED
    BY <2>2, <2>3
<1>7. CountsOrdered' /\ ItemForPop' /\ RoomForPush'
  BY <1>2, CountFacts, NAssumption
     DEF CountsOrdered, ItemForPop, RoomForPush, TypeOK
<1>8. InHand'
  <2>1. cpc = "release" => popped + 1 \in 1 .. pushed
    BY CountFacts DEF CountsOrdered, ItemForPop, TypeOK
  <2>2. QED
    BY <1>2, <1>3, <2>1 DEF InHand
<1>9. InFlightIntact'
  <2> SUFFICES ASSUME NEW k \in popped .. pushed
               PROVE  buffer[Wrap(k)] = sent'[k + 1]
    BY <1>2, CountFacts DEF InFlightIntact, Wrap
  <2>1. CASE k = pushed
    BY <1>1, <1>4, <2>1 DEF IndicesMatch
  <2>2. CASE k # pushed
    <3>1. k \in popped .. pushed - 1 /\ k + 1 \in 1 .. pushed
      BY <2>2, CountFacts
    <3>2. QED
      BY <3>1, <1>3 DEF InFlightIntact
  <2>3. QED
    BY <2>1, <2>2
<1>10. QED
  BY <1>6, <1>7, <1>8, <1>9

LEMMA PopCallStep == ASSUME IInv, PopCall PROVE IInv'
<1> USE DEF IInv, PopCall, producerVars
<1>1. pushed' = pushed /\ popped' = popped
  BY DEF pushed, popped
<1>2. TypeOK'
  BY DEF TypeOK
<1>3. IndicesMatch' /\ CountsOrdered' /\ RoomForPush' /\ InHand' /\ InFlightIntact'
  BY <1>1 DEF IndicesMatch, CountsOrdered, RoomForPush, InHand, InFlightIntact, Wrap
<1>4. ItemForPop'
  <2>1. headSeen - popped <= N - 1
    BY CountFacts, NAssumption DEF CountsOrdered, TypeOK
  <2>2. tail = headCache <=> popped = headSeen
    BY <2>1, EmptyTest, CountFacts DEF IndicesMatch, CountsOrdered, TypeOK
  <2>3. QED
    BY <1>1, <2>2, CountFacts DEF ItemForPop, CountsOrdered, TypeOK
<1>5. QED
  BY <1>2, <1>3, <1>4

LEMMA PopReloadStep == ASSUME IInv, PopReload PROVE IInv'
<1> USE DEF IInv
<1>1. pushed' = pushed /\ popped' = popped
  BY DEF PopReload, producerVars, pushed, popped
<1>2. PICK h \in headSeen .. pushed :
          /\ headSeen' = h
          /\ headCache' = Wrap(h)
          /\ cpc' = IF tail = Wrap(h) THEN "idle" ELSE "copyout"
  BY DEF PopReload
<1>3. h \in Nat /\ headSeen <= h /\ h <= pushed
  BY CountFacts DEF TypeOK
<1>4. TypeOK'
  BY <1>2, <1>3, WrapFacts DEF PopReload, producerVars, TypeOK
<1>5. IndicesMatch' /\ CountsOrdered' /\ RoomForPush'
  BY <1>1, <1>2, <1>3, CountFacts, NAssumption
     DEF PopReload, producerVars, IndicesMatch, CountsOrdered, RoomForPush, Wrap, TypeOK
<1>6. ItemForPop'
  <2>1. popped <= h /\ h - popped <= N - 1
    BY <1>3, CountFacts, NAssumption DEF CountsOrdered, TypeOK
  <2>2. tail = Wrap(h) <=> popped = h
    BY <1>3, <2>1, EmptyTest, CountFacts DEF IndicesMatch
  <2>3. QED
    BY <1>1, <1>2, <1>3, <2>1, <2>2, CountFacts DEF ItemForPop
<1>7. InHand' /\ InFlightIntact'
  BY <1>1, <1>2 DEF PopReload, producerVars, InHand, InFlightIntact, Wrap
<1>8. QED
  BY <1>4, <1>5, <1>6, <1>7

LEMMA PopCopyStep == ASSUME IInv, PopCopy PROVE IInv'
<1> USE DEF IInv, PopCopy, producerVars
<1>1. pushed' = pushed /\ popped' = popped
  BY DEF pushed, popped
<1>2. TypeOK'
  BY DEF TypeOK
<1>3. IndicesMatch' /\ CountsOrdered' /\ ItemForPop' /\ RoomForPush' /\ InFlightIntact'
  BY <1>1 DEF IndicesMatch, CountsOrdered, ItemForPop, RoomForPush, InFlightIntact, Wrap
<1>4. InHand'
  <2>1. popped \in popped .. pushed - 1
    BY CountFacts DEF ItemForPop, CountsOrdered, TypeOK
  <2>2. buffer[tail] = sent[popped + 1]
    BY <2>1 DEF InFlightIntact, IndicesMatch
  <2>3. QED
    BY <1>1, <2>2 DEF InHand
<1>5. QED
  BY <1>2, <1>3, <1>4

LEMMA PopReleaseStep == ASSUME IInv, PopRelease PROVE IInv'
<1> USE DEF IInv, PopRelease, producerVars
<1>1. pushed' = pushed /\ popped' = popped + 1
  BY CountFacts DEF pushed, popped, TypeOK
<1>2. tail' = Wrap(popped + 1) /\ tail' \in Slots
  <2>1. popped \in Nat /\ popped + 1 \in Nat /\ tail = Wrap(popped)
    BY CountFacts DEF IndicesMatch
  <2>2. QED
    BY <2>1, WrapFacts
<1>3. TypeOK' /\ IndicesMatch'
  <2>1. rcvd' \in Seq(Items \cup {NoItem})
    BY CountFacts DEF TypeOK
  <2>2. TypeOK'
    BY <1>2, <2>1 DEF TypeOK
  <2>3. IndicesMatch'
    BY <1>1, <1>2 DEF IndicesMatch, Wrap
  <2>4. QED
    BY <2>2, <2>3
<1>4. CountsOrdered' /\ RoomForPush' /\ ItemForPop'
  BY <1>1, CountFacts, NAssumption
     DEF CountsOrdered, RoomForPush, ItemForPop, TypeOK
<1>5. InHand'
  BY <1>1 DEF InHand
<1>6. InFlightIntact'
  BY <1>1, CountFacts DEF InFlightIntact, Wrap
<1>7. QED
  BY <1>3, <1>4, <1>5, <1>6

LEMMA NextIInv == IInv /\ [Next]_vars => IInv'
<1> SUFFICES ASSUME IInv, [Next]_vars PROVE IInv'
  OBVIOUS
<1>1. CASE UNCHANGED vars
  BY <1>1 DEF vars, producerVars, consumerVars, IInv, TypeOK, IndicesMatch,
     CountsOrdered, RoomForPush, ItemForPop, InHand, InFlightIntact, pushed, popped, Wrap
<1>2. CASE \E v \in Items : PushCall(v)
  BY <1>2, PushCallStep
<1>3. CASE PushReload
  BY <1>3, PushReloadStep
<1>4. CASE PushCopy
  BY <1>4, PushCopyStep
<1>5. CASE PushPublish
  BY <1>5, PushPublishStep
<1>6. CASE PopCall
  BY <1>6, PopCallStep
<1>7. CASE PopReload
  BY <1>7, PopReloadStep
<1>8. CASE PopCopy
  BY <1>8, PopCopyStep
<1>9. CASE PopRelease
  BY <1>9, PopReleaseStep
<1>10. QED
  BY <1>1, <1>2, <1>3, <1>4, <1>5, <1>6, <1>7, <1>8, <1>9 DEF Next, Producer, Consumer

LEMMA Inductive == Spec => []IInv
  BY InitIInv, NextIInv, PTL DEF Spec

----------------------------------------------------------------------------
(* Type correctness of the two threads' state in every behaviour.          *)
THEOREM TypeCorrect == Spec => []TypeOK
<1>1. IInv => TypeOK
  BY DEF IInv
<1>2. QED
  BY Inductive, <1>1, PTL

(* For every N the slot copies of try_push and try_pop happen only after   *)
(* the thread has synchronised with the last use of the slot by the other. *)
THEOREM SlotsOwned == Spec => []SlotOwnership
<1>1. IInv => SlotOwnership
  BY CountFacts, NAssumption
     DEF IInv, TypeOK, RoomForPush, ItemForPop, SlotOwnership
<1>2. QED
  BY Inductive, <1>1, PTL

(* Items in flight are never overwritten or misplaced.                     *)
THEOREM NoOverwrite == Spec => []InFlightIntact
<1>1. IInv => InFlightIntact
  BY DEF IInv
<1>2. QED
  BY Inductive, <1>1, PTL

(* approx_size() and empty() are exact when nothing moves.                 *)
THEOREM SizeExact == Spec => []OccupancyExact
<1>1. ASSUME IInv PROVE OccupancyExact
  <2>1. /\ popped <= pushed /\ pushed - popped < N
        /\ pushed \in Nat /\ popped \in Nat
    BY <1>1, CountFacts, NAssumption DEF IInv, CountsOrdered, TypeOK
  <2>2. (Wrap(pushed) - Wrap(popped) + N) % N = pushed - popped
    BY <2>1, WrapDistance
  <2>3. Wrap(popped) = Wrap(pushed) <=> popped = pushed
    BY <2>1, WrapInjective
  <2>4. QED
    BY <1>1, <2>2, <2>3 DEF IInv, IndicesMatch, OccupancyExact, ApproxSize, Empty
<1>2. QED
  BY Inductive, <1>1, PTL

(* The ring implements the lossless FIFO of N - 1 items: every step of the *)
(* code is a step of the abstract queue or leaves it unchanged.            *)
THEOREM RefinesFifo == Spec => ImplementsFifo
<1> USE DEF Fifo!fifoVars
<1>1. Init => Fifo!FifoInit
  BY DEF Init, Fifo!FifoInit
<1>2. IInv /\ [Next]_vars => [Fifo!FifoNext]_(Fifo!fifoVars)
  <2> SUFFICES ASSUME IInv, [Next]_vars PROVE [Fifo!FifoNext]_(Fifo!fifoVars)
    OBVIOUS
  <2>1. CASE PushPublish
    <3>1. item \in Items
      BY <2>1 DEF IInv, InHand, PushPublish
    <3>2. Len(sent) - Len(rcvd) < N - 1
      BY <2>1, CountFacts, NAssumption
         DEF PushPublish, IInv, RoomForPush, CountsOrdered, TypeOK, pushed, popped
    <3>3. Fifo!Accept(item)
      BY <2>1, <3>2 DEF PushPublish, consumerVars, Fifo!Accept
    <3>4. QED
      BY <3>1, <3>3 DEF Fifo!FifoNext
  <2>2. CASE PopRelease
    <3>1. got = sent[Len(rcvd) + 1]
      BY <2>2 DEF PopRelease, IInv, InHand, popped
    <3>2. Len(rcvd) < Len(sent)
      BY <2>2, CountFacts
         DEF PopRelease, IInv, ItemForPop, CountsOrdered, TypeOK, pushed, popped
    <3>3. Fifo!Deliver
      BY <2>2, <3>1, <3>2 DEF PopRelease, producerVars, Fifo!Deliver
    <3>4. QED
      BY <3>3 DEF Fifo!FifoNext
  <2>3. CASE UNCHANGED <<sent, rcvd>>
    BY <2>3
  <2>4. QED
    BY <2>1, <2>2, <2>3 DEF Next, Producer, Consumer, PushCall, PushReload,
       PushCopy, PopCall, PopReload, PopCopy, vars, producerVars, consumerVars
<1>3. QED
  BY Inductive, <1>1, <1>2, PTL DEF Spec, ImplementsFifo, Fifo!FifoSpec

----------------------------------------------------------------------------
(***************************************************************************)
(* SpscPingPong                                                            *)
(***************************************************************************)

Previous == IF writeIdx = 0 THEN 0 ELSE writeIdx - 1

(* What the two slots contain.                                             *)
NewestSlot == \A w \in Words : buf[SlotOf(writeIdx)][w] = writeIdx
OtherSlot ==
    \A w \in Words :
        buf[SlotOf(writeIdx + 1)][w] =
            IF storing /\ w \notin toWrite THEN writeIdx + 1 ELSE Previous

(* A store under way is within the bound; the reader is behind the writer, *)
(* and a load under way decided on a store that was made.                  *)
Indices ==
    /\ storing => writeIdx < MaxStore
    /\ idx <= writeIdx /\ lastSeen <= writeIdx
    /\ loading => idx >= 1

PingPongIInv ==
    /\ PingPongTypeOK /\ NewestSlot /\ OtherSlot /\ Indices
    /\ NeverStale /\ WholeUnlessLapped

----------------------------------------------------------------------------
(* Consecutive stores use different slots, every second one the same.      *)
LEMMA SlotFacts ==
    ASSUME NEW n \in Nat
    PROVE  /\ SlotOf(n) \in 0 .. 1
           /\ SlotOf(n + 1) \in 0 .. 1
           /\ SlotOf(n + 1) # SlotOf(n)
           /\ SlotOf(n + 2) = SlotOf(n)
  BY SMT DEF SlotOf

LEMMA SameSlot ==
    ASSUME NEW m \in Nat, NEW n \in Nat
    PROVE  SlotOf(m) = SlotOf(n) \/ SlotOf(m) = SlotOf(n + 1)
  BY SMT DEF SlotOf

LEMMA PingPongInitIInv == PingPongInit => PingPongIInv
<1> SUFFICES ASSUME PingPongInit PROVE PingPongIInv
  OBVIOUS
<1>1. SlotOf(0) \in 0 .. 1 /\ SlotOf(1) \in 0 .. 1
  BY SlotFacts
<1>2. PingPongTypeOK
  <2>1. 0 \in 0 .. MaxStore
    BY MaxStoreAssumption
  <2>2. buf \in [0 .. 1 -> [Words -> 0 .. MaxStore]]
    BY <2>1 DEF PingPongInit
  <2>3. QED
    BY <2>1, <2>2 DEF PingPongInit, PingPongTypeOK
<1>3. NewestSlot /\ OtherSlot
  BY <1>1 DEF PingPongInit, NewestSlot, OtherSlot, Previous
<1>4. QED
  BY <1>2, <1>3 DEF PingPongInit, PingPongIInv, Indices, NeverStale, WholeUnlessLapped

----------------------------------------------------------------------------
(* Every step preserves PingPongIInv.                                      *)

LEMMA StoreCallStep == ASSUME PingPongIInv, StoreCall PROVE PingPongIInv'
<1> USE DEF PingPongIInv, StoreCall, loadVars
<1>1. PingPongTypeOK'
  BY DEF PingPongTypeOK
<1>2. NewestSlot' /\ OtherSlot'
  BY DEF NewestSlot, OtherSlot, Previous, SlotOf
<1>3. Indices'
  BY DEF Indices
<1>4. NeverStale' /\ WholeUnlessLapped'
  BY DEF NeverStale, WholeUnlessLapped, Copied
<1>5. QED
  BY <1>1, <1>2, <1>3, <1>4

LEMMA StoreWordStep ==
    ASSUME PingPongIInv, NEW v \in Words, StoreWord(v) PROVE PingPongIInv'
<1> USE DEF PingPongIInv, StoreWord, loadVars
<1>1. writeIdx \in Nat /\ writeIdx + 1 \in 0 .. MaxStore
  BY MaxStoreAssumption DEF PingPongTypeOK, Indices
<1>2. /\ SlotOf(writeIdx) \in 0 .. 1 /\ SlotOf(writeIdx + 1) \in 0 .. 1
      /\ SlotOf(writeIdx + 1) # SlotOf(writeIdx)
  BY <1>1, SlotFacts
<1>3. PingPongTypeOK'
  BY <1>1, <1>2 DEF PingPongTypeOK
<1>4. NewestSlot'
  BY <1>2 DEF NewestSlot, PingPongTypeOK, SlotOf
<1>5. OtherSlot'
  <2> SUFFICES ASSUME NEW w \in Words
               PROVE  buf'[SlotOf(writeIdx + 1)][w] =
                        IF w \notin toWrite' THEN writeIdx + 1 ELSE Previous
    BY DEF OtherSlot, Previous, SlotOf
  <2>1. CASE w = v
    BY <1>2, <2>1 DEF PingPongTypeOK
  <2>2. CASE w # v
    BY <1>2, <2>2 DEF PingPongTypeOK, OtherSlot
  <2>3. QED
    BY <2>1, <2>2
<1>6. Indices' /\ NeverStale' /\ WholeUnlessLapped'
  BY DEF Indices, NeverStale, WholeUnlessLapped, Copied
<1>7. QED
  BY <1>3, <1>4, <1>5, <1>6

LEMMA StoreCommitStep == ASSUME PingPongIInv, StoreCommit PROVE PingPongIInv'
<1> USE DEF PingPongIInv, StoreCommit, loadVars
<1>1. writeIdx \in Nat /\ writeIdx + 1 \in 0 .. MaxStore
  BY MaxStoreAssumption DEF PingPongTypeOK, Indices
<1>2. SlotOf(writeIdx + 1 + 1) = SlotOf(writeIdx)
  <2>1. writeIdx + 1 + 1 = writeIdx + 2
    BY <1>1
  <2>2. QED
    BY <1>1, <2>1, SlotFacts
<1>3. PingPongTypeOK'
  BY <1>1 DEF PingPongTypeOK
<1>4. NewestSlot'
  BY DEF NewestSlot, OtherSlot, SlotOf
<1>5. OtherSlot'
  <2>1. Previous' = writeIdx
    BY <1>1 DEF Previous
  <2>2. \A w \in Words : buf[SlotOf(writeIdx + 1 + 1)][w] = writeIdx
    BY <1>2 DEF NewestSlot
  <2>3. QED
    BY <2>1, <2>2 DEF OtherSlot, SlotOf
<1>6. Indices'
  BY <1>1 DEF Indices, PingPongTypeOK
<1>7. NeverStale'
  BY <1>1 DEF NeverStale, Copied, PingPongTypeOK
<1>8. WholeUnlessLapped'
  BY <1>1 DEF WholeUnlessLapped, Copied, Indices, PingPongTypeOK
<1>9. QED
  BY <1>3, <1>4, <1>5, <1>6, <1>7, <1>8

LEMMA LoadCallStep == ASSUME PingPongIInv, LoadCall PROVE PingPongIInv'
<1> USE DEF PingPongIInv, LoadCall, storeVars
<1>1. /\ idx' \in 0 .. MaxStore /\ idx' <= writeIdx /\ idx' >= 1
  BY MaxStoreAssumption DEF PingPongTypeOK
<1>2. PingPongTypeOK' /\ Indices'
  BY <1>1 DEF PingPongTypeOK, Indices
<1>3. NewestSlot' /\ OtherSlot'
  BY DEF NewestSlot, OtherSlot, Previous, SlotOf
<1>4. NeverStale' /\ WholeUnlessLapped'
  BY DEF NeverStale, WholeUnlessLapped, Copied
<1>5. QED
  BY <1>2, <1>3, <1>4

LEMMA LoadWordStep ==
    ASSUME PingPongIInv, NEW v \in Words, LoadWord(v) PROVE PingPongIInv'
<1> USE DEF PingPongIInv, LoadWord, storeVars
<1>1. idx \in Nat /\ writeIdx \in Nat /\ 1 <= idx /\ idx <= writeIdx
  BY MaxStoreAssumption DEF PingPongTypeOK, Indices
<1>2. SlotOf(idx) \in 0 .. 1
  BY <1>1, SlotFacts
<1>3. PingPongTypeOK'
  BY <1>2 DEF PingPongTypeOK
<1>4. NewestSlot' /\ OtherSlot' /\ Indices'
  BY DEF NewestSlot, OtherSlot, Previous, SlotOf, Indices
(* The word copied is of the newest store, or of the slot being reused.    *)
<1>5. \/ writeIdx # idx + 1 /\ out'[v] = writeIdx
      \/ /\ idx < writeIdx
         /\ out'[v] = writeIdx - 1 \/ (storing /\ out'[v] = writeIdx + 1)
  <2>1. CASE SlotOf(idx) = SlotOf(writeIdx)
    <3>1. writeIdx # idx + 1
      BY <1>1, <2>1, SlotFacts
    <3>2. QED
      BY <2>1, <3>1 DEF NewestSlot, PingPongTypeOK
  <2>2. CASE SlotOf(idx) # SlotOf(writeIdx)
    <3>1. idx < writeIdx
      BY <1>1, <2>2
    <3>2. SlotOf(idx) = SlotOf(writeIdx + 1)
      BY <1>1, <2>2, SameSlot
    <3>3. out'[v] = buf[SlotOf(writeIdx + 1)][v]
      BY <3>2 DEF PingPongTypeOK
    <3>4. QED
      BY <1>1, <3>1, <3>3 DEF OtherSlot, Previous
  <2>3. QED
    BY <2>1, <2>2
<1>6. /\ \A w \in Words : w # v => out'[w] = out[w]
      /\ Copied' = Copied \cup {v}
  BY DEF PingPongTypeOK, Copied
<1>7. NeverStale'
  BY <1>1, <1>5, <1>6 DEF NeverStale
<1>8. WholeUnlessLapped'
  <2> SUFFICES ASSUME writeIdx = idx \/ (writeIdx = idx + 1 /\ ~storing),
                      NEW w \in Copied'
               PROVE  out'[w] = idx
    BY DEF WholeUnlessLapped
  <2>1. CASE w = v
    BY <1>1, <1>5, <2>1
  <2>2. CASE w # v
    BY <1>6, <2>2 DEF WholeUnlessLapped, Copied, PingPongTypeOK
  <2>3. QED
    BY <2>1, <2>2
<1>9. QED
  BY <1>3, <1>4, <1>7, <1>8

LEMMA LoadReturnStep == ASSUME PingPongIInv, LoadReturn PROVE PingPongIInv'
<1> USE DEF PingPongIInv, LoadReturn, storeVars
<1>1. PingPongTypeOK' /\ Indices'
  BY DEF PingPongTypeOK, Indices
<1>2. NewestSlot' /\ OtherSlot'
  BY DEF NewestSlot, OtherSlot, Previous, SlotOf
<1>3. NeverStale' /\ WholeUnlessLapped'
  BY DEF NeverStale, WholeUnlessLapped
<1>4. QED
  BY <1>1, <1>2, <1>3

LEMMA PingPongNextIInv == PingPongIInv /\ [PingPongNext]_pingPongVars => PingPongIInv'
<1> SUFFICES ASSUME PingPongIInv, [PingPongNext]_pingPongVars PROVE PingPongIInv'
  OBVIOUS
<1>1. CASE UNCHANGED pingPongVars
  BY <1>1 DEF pingPongVars, storeVars, loadVars, PingPongIInv, PingPongTypeOK,
     NewestSlot, OtherSlot, Previous,
     SlotOf, Indices, NeverStale, WholeUnlessLapped, Copied
<1>2. CASE StoreCall
  BY <1>2, StoreCallStep
<1>3. CASE \E w \in Words : StoreWord(w)
  BY <1>3, StoreWordStep
<1>4. CASE StoreCommit
  BY <1>4, StoreCommitStep
<1>5. CASE LoadNothing
  BY <1>1, <1>5 DEF LoadNothing
<1>6. CASE LoadCall
  BY <1>6, LoadCallStep
<1>7. CASE \E w \in Words : LoadWord(w)
  BY <1>7, LoadWordStep
<1>8. CASE LoadReturn
  BY <1>8, LoadReturnStep
<1>9. QED
  BY <1>1, <1>2, <1>3, <1>4, <1>5, <1>6, <1>7, <1>8 DEF PingPongNext, Store, Load

LEMMA PingPongInductive == PingPongSpec => []PingPongIInv
  BY PingPongInitIInv, PingPongNextIInv, PTL DEF PingPongSpec

----------------------------------------------------------------------------
(* Type correctness of store() and load() in every behaviour.              *)
THEOREM BufferTypeCorrect == PingPongSpec => []PingPongTypeOK
<1>1. PingPongIInv => PingPongTypeOK
  BY DEF PingPongIInv
<1>2. QED
  BY PingPongInductive, <1>1, PTL

(* However often the writer laps it, load() hands out no word older than   *)
(* the index it decided on.                                                *)
THEOREM NothingStale == PingPongSpec => []NeverStale
<1>1. PingPongIInv => NeverStale
  BY DEF PingPongIInv
<1>2. QED
  BY PingPongInductive, <1>1, PTL

(* A load() that is not lapped hands out exactly one store, whatever the   *)
(* size of the snapshot and the order of the copies.                       *)
THEOREM WholeSnapshots == PingPongSpec => []WholeUnlessLapped
<1>1. PingPongIInv => WholeUnlessLapped
  BY DEF PingPongIInv
<1>2. QED
  BY PingPongInductive, <1>1, PTL
=============================================================================
