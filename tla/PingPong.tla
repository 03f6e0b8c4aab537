------------------------------ MODULE PingPong ------------------------------
(***************************************************************************)
(* SpscPingPong<T> (include/goldmine/lockfree_queue.hpp): the two-slot     *)
(* buffer over which the indicator thread publishes its snapshot to the    *)
(* logic thread.  Only the latest snapshot matters; the writer never       *)
(* waits.                                                                  *)
(*                                                                         *)
(* A snapshot is larger than a machine word, so store() and load() copy it *)
(* word by word, in any order, while the other thread runs.  The content   *)
(* of a word is the number of the store that wrote it.                     *)
(***************************************************************************)
EXTENDS Integers

CONSTANTS Words,     \* the machine words of a snapshot
          MaxStore   \* bound: how many stores are explored

ASSUME WordsAssumption == Words # {}
ASSUME MaxStoreAssumption == MaxStore \in Nat

VARIABLES
    writeIdx,          \* write_idx_: the number of completed stores
    buf,               \* the two slots
    storing, toWrite,  \* producer: inside store(), words still to copy
    loading, toRead,   \* consumer: inside load(), words still to copy
    idx, out,          \* consumer: the index it loaded, the caller's snapshot
    lastSeen           \* last_seen_

storeVars == <<writeIdx, buf, storing, toWrite>>
loadVars == <<loading, toRead, idx, out, lastSeen>>
pingPongVars == <<storeVars, loadVars>>
(* Wrong variant: both parities use one slot.                              *)
SingleSlot(store) == 0

SlotOf(store) == (store - 1) % 2   \* the slot the given store writes

PingPongTypeOK ==
    /\ writeIdx \in 0 .. MaxStore
    /\ buf \in [0 .. 1 -> [Words -> 0 .. MaxStore]]
    /\ storing \in BOOLEAN /\ toWrite \subseteq Words
    /\ loading \in BOOLEAN /\ toRead \subseteq Words
    /\ idx \in 0 .. MaxStore /\ lastSeen \in 0 .. MaxStore
    /\ out \in [Words -> 0 .. MaxStore]

PingPongInit ==
    /\ writeIdx = 0
    /\ buf = [s \in 0 .. 1 |-> [w \in Words |-> 0]]
    /\ storing = FALSE /\ toWrite = {}
    /\ loading = FALSE /\ toRead = {}
    /\ idx = 0 /\ lastSeen = 0
    /\ out = [w \in Words |-> 0]

----------------------------------------------------------------------------
(* The producer: store(val).                                               *)

StoreCall ==
    /\ ~storing
    /\ writeIdx < MaxStore
    /\ storing' = TRUE
    /\ toWrite' = Words
    /\ UNCHANGED <<writeIdx, buf, loadVars>>

StoreWord(w) ==
    /\ storing /\ w \in toWrite
    /\ buf' = [buf EXCEPT ![SlotOf(writeIdx + 1)][w] = writeIdx + 1]
    /\ toWrite' = toWrite \ {w}
    /\ UNCHANGED <<writeIdx, storing, loadVars>>
(* Wrong variant: the index is raised while words are still being copied.  *)
StoreCommitEarly ==
    /\ storing
    /\ writeIdx' = writeIdx + 1
    /\ storing' = FALSE
    /\ UNCHANGED <<buf, toWrite, loadVars>>

(* write_idx_.store(idx + 1, release).                                     *)
StoreCommit ==
    /\ storing /\ toWrite = {}
    /\ writeIdx' = writeIdx + 1
    /\ storing' = FALSE
    /\ UNCHANGED <<buf, toWrite, loadVars>>

----------------------------------------------------------------------------
(* The consumer: load(out).  The acquire load may return any index from    *)
(* the one it saw last on.                                                 *)

(* The index it saw last: nothing new, load() returns false.               *)
LoadNothing ==
    /\ ~loading
    /\ UNCHANGED pingPongVars

LoadCall ==
    /\ ~loading
    /\ idx' \in lastSeen + 1 .. writeIdx
    /\ loading' = TRUE
    /\ toRead' = Words
    /\ UNCHANGED <<out, lastSeen, storeVars>>

LoadWord(w) ==
    /\ loading /\ w \in toRead
    /\ out' = [out EXCEPT ![w] = buf[SlotOf(idx)][w]]
    /\ toRead' = toRead \ {w}
    /\ UNCHANGED <<loading, idx, lastSeen, storeVars>>
(* Wrong variant: the index is read again after the copy.                  *)
LoadReturnNewest ==
    /\ loading /\ toRead = {}
    /\ lastSeen' = writeIdx
    /\ loading' = FALSE
    /\ UNCHANGED <<toRead, idx, out, storeVars>>

LoadReturn ==
    /\ loading /\ toRead = {}
    /\ lastSeen' = idx
    /\ loading' = FALSE
    /\ UNCHANGED <<toRead, idx, out, storeVars>>

----------------------------------------------------------------------------
Store == StoreCall \/ (\E w \in Words : StoreWord(w)) \/ StoreCommit
Load == LoadNothing \/ LoadCall \/ (\E w \in Words : LoadWord(w)) \/ LoadReturn
PingPongNext == Store \/ Load

PingPongSpec == PingPongInit /\ [][PingPongNext]_pingPongVars

(* The logic thread polls in a loop; an index stored is seen in finite     *)
(* time, so load() does not keep returning false once there is news.  The  *)
(* producer finishes the store() it is in.                                 *)
PingPongFairSpec ==
    /\ PingPongSpec
    /\ WF_pingPongVars(Load) /\ WF_pingPongVars(StoreCommit)
    /\ WF_pingPongVars(\E w \in Words : StoreWord(w))

(***************************************************************************)
(* Properties                                                              *)
(***************************************************************************)
Copied == IF loading THEN Words \ toRead ELSE Words

(* Two slots give the reader one store of slack: as long as at most one    *)
(* store has been made since the index it loaded, and none is under way    *)
(* beyond it, what it has copied is exactly that store (load).             *)
WholeUnlessLapped ==
    (loading /\ (writeIdx = idx \/ (writeIdx = idx + 1 /\ ~storing)))
        => \A w \in Copied : out[w] = idx

(* Lapped or not, no word is older than the index load() decided on, and   *)
(* none comes from a store that has not begun.                             *)
NeverStale ==
    loading => \A w \in Copied : idx <= out[w] /\ out[w] <= writeIdx + 1

(* The newest snapshot reaches the logic thread even if nothing is stored  *)
(* after it: a load() that ran during the store does not swallow it.       *)
LatestDelivered ==
    (writeIdx = MaxStore)
        ~> (lastSeen = MaxStore /\ \A w \in Words : out[w] = MaxStore)
=============================================================================
