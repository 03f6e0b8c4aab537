------------------------------ MODULE TickShm ------------------------------
(***************************************************************************)
(* The shared-memory tick (interfaces/cpp/goldmine/live_ingestion.hpp):    *)
(* the feed process overwrites one SharedTick in place and then raises     *)
(* sequence_id; the engine's LiveTickReader spins on sequence_id and       *)
(* copies the fields.                                                      *)
(*                                                                         *)
(* The feed is another program.  It is modelled as README.md section 5.1   *)
(* describes it: fill in the struct, then increment the sequence with      *)
(* release order.  A field holds the number of the tick that wrote it.     *)
(***************************************************************************)
EXTENDS Integers

CONSTANTS TickFields,    \* the payload fields: timestamp, bid, ask, volume
          MaxTick    \* bound: how many ticks the feed publishes

ASSUME TickFieldsAssumption == TickFields # {}
ASSUME MaxTickAssumption == MaxTick \in Nat

VARIABLES
    seq, header, payload,    \* SharedTick: sequence_id, magic_header is right, fields
    writing, toFill,        \* feed: filling in a tick, fields still to write
    rpc,                     \* reader: where it is in spin_wait_next
    lastSeq, currentSeq,     \* reader: last_seq_ and its copy for this call
    tick, toRead,            \* reader: the tick being built, fields still to copy
    delivered                \* history: last_seq_ of the last tick returned

feedVars == <<seq, header, payload, writing, toFill>>
readerVars == <<rpc, lastSeq, currentSeq, tick, toRead, delivered>>
tickVars == <<feedVars, readerVars>>

TickTypeOK ==
    /\ seq \in 0 .. MaxTick /\ header \in BOOLEAN
    /\ payload \in [TickFields -> 0 .. MaxTick]
    /\ writing \in BOOLEAN /\ toFill \subseteq TickFields
    /\ rpc \in {"engine", "spin", "magic", "copy"}
    /\ {lastSeq, currentSeq, delivered} \subseteq 0 .. MaxTick
    /\ tick \in [TickFields -> 0 .. MaxTick] /\ toRead \subseteq TickFields

TickInit ==
    /\ seq = 0 /\ header = FALSE     \* fresh shared memory is zero
    /\ payload = [f \in TickFields |-> 0]
    /\ writing = FALSE /\ toFill = {}
    /\ rpc = "engine" /\ lastSeq = 0 /\ currentSeq = 0
    /\ tick = [f \in TickFields |-> 0] /\ toRead = {}
    /\ delivered = 0

----------------------------------------------------------------------------
(* The feed (external).                                                    *)

FeedBegin(ok) ==
    /\ ~writing
    /\ seq < MaxTick
    /\ writing' = TRUE
    /\ toFill' = TickFields
    /\ header' = ok
    /\ UNCHANGED <<seq, payload, readerVars>>

FeedField(f) ==
    /\ writing /\ f \in toFill
    /\ payload' = [payload EXCEPT ![f] = seq + 1]
    /\ toFill' = toFill \ {f}
    /\ UNCHANGED <<seq, header, writing, readerVars>>

FeedPublish ==
    /\ writing /\ toFill = {}
    /\ seq' = seq + 1
    /\ writing' = FALSE
    /\ UNCHANGED <<header, payload, toFill, readerVars>>

----------------------------------------------------------------------------
(* The reader: spin_wait_next().                                           *)
(* Wrong variant: the sequence number is read afresh at each call.         *)
CallFresh ==
    /\ rpc = "engine"
    /\ rpc' = "spin"
    /\ currentSeq' = seq
    /\ UNCHANGED <<lastSeq, tick, toRead, delivered, feedVars>>

Call ==
    /\ rpc = "engine"
    /\ rpc' = "spin"
    /\ currentSeq' = lastSeq
    /\ UNCHANGED <<lastSeq, tick, toRead, delivered, feedVars>>
(* Wrong variant: the number is not compared.                              *)
SpinAny ==
    /\ rpc = "spin"
    /\ \E s \in lastSeq .. seq : lastSeq' = s
    /\ rpc' = "magic"
    /\ UNCHANGED <<currentSeq, tick, toRead, delivered, feedVars>>

(* One turn of the loop: an acquire load returns any sequence number from  *)
(* the last one seen on.                                                   *)
Spin ==
    /\ rpc = "spin"
    /\ \E s \in lastSeq .. seq :
          IF s > currentSeq
            THEN lastSeq' = s /\ rpc' = "magic"
            ELSE UNCHANGED <<lastSeq, rpc>>
    /\ UNCHANGED <<currentSeq, tick, toRead, delivered, feedVars>>
(* Wrong variant: the header is not looked at.                             *)
SkipMagic ==
    /\ rpc = "magic"
    /\ rpc' = "copy" /\ toRead' = TickFields
    /\ UNCHANGED <<lastSeq, currentSeq, tick, delivered, feedVars>>

(* A wrong header goes back to the loop, with currentSeq as it was.        *)
CheckMagic ==
    /\ rpc = "magic"
    /\ rpc' = IF header THEN "copy" ELSE "spin"
    /\ toRead' = IF header THEN TickFields ELSE {}
    /\ UNCHANGED <<lastSeq, currentSeq, tick, delivered, feedVars>>

CopyField(f) ==
    /\ rpc = "copy" /\ f \in toRead
    /\ tick' = [tick EXCEPT ![f] = payload[f]]
    /\ toRead' = toRead \ {f}
    /\ UNCHANGED <<rpc, lastSeq, currentSeq, delivered, feedVars>>

Return ==
    /\ rpc = "copy" /\ toRead = {}
    /\ rpc' = "engine"
    /\ delivered' = lastSeq
    /\ UNCHANGED <<lastSeq, currentSeq, tick, toRead, feedVars>>

----------------------------------------------------------------------------
Feed == (\E ok \in BOOLEAN : FeedBegin(ok)) \/ (\E f \in TickFields : FeedField(f))
          \/ FeedPublish
Reader == Call \/ Spin \/ CheckMagic \/ (\E f \in TickFields : CopyField(f)) \/ Return
TickNext == Feed \/ Reader

TickSpec == TickInit /\ [][TickNext]_tickVars

(* The engine's main loop always calls again, and a published sequence     *)
(* number becomes visible in finite time; nothing is assumed of the feed.  *)
TickFairSpec == TickSpec /\ WF_tickVars(Reader)

(***************************************************************************)
(* Properties                                                              *)
(***************************************************************************)

(* Nothing overtakes the reader: while the feed has not begun the tick     *)
(* after the one the reader decided on, every field copied is of that tick *)
(* and its header was right (spin_wait_next).                              *)
WholeUnlessOvertaken ==
    (rpc = "copy" /\ seq = lastSeq /\ ~writing)
        => header /\ \A f \in TickFields \ toRead : tick[f] = lastSeq

(* Each call returns under a sequence number larger than every one         *)
(* returned before, also after turns of the loop spent on bad headers.     *)
EveryReturnIsNews ==
    [][Return => delivered < delivered' /\ delivered' <= seq]_tickVars

(* The last tick of the session is not lost: when the feed falls silent    *)
(* after a good tick, that tick is returned.                               *)
LastTickDelivered ==
    (seq = MaxTick /\ header) ~> (delivered = MaxTick)
============================================================================
