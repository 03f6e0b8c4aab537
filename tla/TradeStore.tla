----------------------------- MODULE TradeStore -----------------------------
(***************************************************************************)
(* TradeStore (include/goldmine/trade_store.hpp): the engine pushes a      *)
(* TRADE and an EQUITY frame per closed trade into a lock-free queue and   *)
(* never waits; a worker thread writes the frames to SQLite in             *)
(* transactions of at most Batch rows.                                     *)
(*                                                                         *)
(* The queue is the bounded FIFO that SpscQueue implements, except that    *)
(* try_pop may report "empty" while an item is on its way: its load of the *)
(* index may be stale.  After running_ is read FALSE it cannot be, because *)
(* stop() stores the flag after every push.  SQLite keeps what was         *)
(* committed and forgets an open transaction when the process dies; its    *)
(* statements are taken to succeed.  The operating system does not crash   *)
(* (the code sets PRAGMA synchronous = OFF).                               *)
(***************************************************************************)
EXTENDS Integers, Sequences

CONSTANTS Capacity,    \* frames the queue holds, 8191 in the code
          Batch,       \* rows per transaction, 1000 in the code
          MaxTrades    \* bound: trades closed, over all sessions

ASSUME SizesAssumption == {Capacity, Batch} \subseteq Nat \ {0}
ASSUME MaxTradesAssumption == MaxTrades \in Nat

VARIABLES
    opc, trades,         \* the engine: where it is, trades it has closed
    running, queue,      \* TradeStore members
    wpc, final,          \* worker: where it is, in the drain after the loop
    inTransaction, count,   \* locals of process_queue
    rows, db,            \* SQLite: rows of the open transaction, committed rows
    accepted             \* history: frames the queue took, less those a crash lost

engineVars == <<opc, trades>>
workerVars == <<wpc, final, inTransaction, count>>
vars == <<engineVars, running, queue, workerVars, rows, db, accepted>>

Frames == [type : {"TRADE", "EQUITY"}, trade : 1 .. MaxTrades]

TypeOK ==
    /\ opc \in {"closed", "open", "equity", "join"}
    /\ trades \in 0 .. MaxTrades
    /\ running \in BOOLEAN
    /\ queue \in Seq(Frames) /\ Len(queue) <= Capacity
    /\ wpc \in {"none", "loop", "process", "commit", "done"}
    /\ final \in BOOLEAN /\ inTransaction \in BOOLEAN
    /\ count \in 0 .. Batch
    /\ rows \in Seq(Frames) /\ db \in Seq(Frames) /\ accepted \in Seq(Frames)

Init ==
    /\ opc = "closed" /\ trades = 0
    /\ running = FALSE /\ queue = <<>>
    /\ wpc = "none" /\ final = FALSE /\ inTransaction = FALSE /\ count = 0
    /\ rows = <<>> /\ db = <<>> /\ accepted = <<>>

----------------------------------------------------------------------------
(* The engine's thread.                                                    *)

(* A new process: an empty queue, init() opens the database and starts the *)
(* worker.                                                                 *)
Open ==
    /\ opc = "closed"
    /\ opc' = "open"
    /\ running' = TRUE /\ queue' = <<>>
    /\ wpc' = "loop" /\ final' = FALSE
    /\ UNCHANGED <<trades, inTransaction, count, rows, db, accepted>>

(* try_push; the result is ignored, so a frame that finds no room is gone. *)
Push(frame) ==
    IF Len(queue) < Capacity
      THEN queue' = Append(queue, frame) /\ accepted' = Append(accepted, frame)
      ELSE UNCHANGED <<queue, accepted>>

LogTrade ==
    /\ opc = "open" /\ trades < MaxTrades
    /\ opc' = "equity"
    /\ trades' = trades + 1
    /\ Push([type |-> "TRADE", trade |-> trades + 1])
    /\ UNCHANGED <<running, workerVars, rows, db>>

LogEquity ==
    /\ opc = "equity"
    /\ opc' = "open"
    /\ Push([type |-> "EQUITY", trade |-> trades])
    /\ UNCHANGED <<trades, running, workerVars, rows, db>>

Stop ==
    /\ opc = "open"
    /\ opc' = "join"
    /\ running' = FALSE
    /\ UNCHANGED <<trades, queue, workerVars, rows, db, accepted>>

(* join() returns; sqlite3_close rolls an open transaction back.           *)
Close ==
    /\ opc = "join" /\ wpc = "done"
    /\ opc' = "closed" /\ wpc' = "none"
    /\ inTransaction' = FALSE /\ rows' = <<>>
    /\ UNCHANGED <<trades, running, queue, final, count, db, accepted>>

(* The process dies: what is queued or not committed is lost.              *)
Crash ==
    /\ opc # "closed"
    /\ opc' = "closed" /\ wpc' = "none"
    /\ running' = FALSE /\ queue' = <<>>
    /\ inTransaction' = FALSE /\ rows' = <<>>
    /\ accepted' = db
    /\ UNCHANGED <<trades, final, count, db>>

----------------------------------------------------------------------------
(* The worker: logger_thread and process_queue.                            *)
(* Wrong variant: the worker leaves without the last drain.                *)
EnterProcessNoDrain ==
    /\ wpc = "loop"
    /\ wpc' = (IF running THEN "process" ELSE "done") /\ final' = ~running
    /\ inTransaction' = FALSE /\ count' = 0
    /\ UNCHANGED <<engineVars, running, queue, rows, db, accepted>>

(* while (running_), and the last drain once the flag is read FALSE.       *)
EnterProcess ==
    /\ wpc = "loop"
    /\ wpc' = "process" /\ final' = ~running
    /\ inTransaction' = FALSE /\ count' = 0
    /\ UNCHANGED <<engineVars, running, queue, rows, db, accepted>>

(* A frame is popped; BEGIN if needed; INSERT.                             *)
Insert ==
    /\ wpc = "process" /\ queue # <<>>
    /\ queue' = Tail(queue)
    /\ inTransaction' = TRUE
    /\ rows' = Append(rows, Head(queue))
    /\ count' = count + 1
    /\ wpc' = IF count + 1 >= Batch THEN "commit" ELSE "process"
    /\ UNCHANGED <<engineVars, running, final, db, accepted>>

(* COMMIT of a full batch.                                                 *)
CommitBatch ==
    /\ wpc = "commit"
    /\ db' = db \o rows /\ rows' = <<>>
    /\ inTransaction' = FALSE /\ count' = 0
    /\ wpc' = "process"
    /\ UNCHANGED <<engineVars, running, queue, final, accepted>>
(* Wrong variant: the last transaction is not committed.                   *)
LeaveProcessOpen ==
    /\ wpc = "process"
    /\ queue = <<>> \/ ~final
    /\ wpc' = IF final THEN "done" ELSE "loop"
    /\ UNCHANGED <<engineVars, running, queue, final, inTransaction, count, rows, db,
                   accepted>>

(* try_pop says empty: COMMIT if a transaction is open, and return.        *)
LeaveProcess ==
    /\ wpc = "process"
    /\ queue = <<>> \/ ~final
    /\ IF inTransaction THEN db' = db \o rows /\ rows' = <<>>
                        ELSE UNCHANGED <<db, rows>>
    /\ wpc' = IF final THEN "done" ELSE "loop"
    /\ UNCHANGED <<engineVars, running, queue, final, inTransaction, count, accepted>>

----------------------------------------------------------------------------
Engine == Open \/ LogTrade \/ LogEquity \/ Stop \/ Close
Worker == EnterProcess \/ Insert \/ CommitBatch \/ LeaveProcess
Next == Engine \/ Worker \/ Crash

Spec == Init /\ [][Next]_vars

(* The worker's thread is scheduled and a pushed frame becomes visible in  *)
(* finite time; the engine closes what it stopped.                         *)
FairSpec == Spec /\ WF_vars(Worker) /\ SF_vars(Insert) /\ WF_vars(Close)

(***************************************************************************)
(* Properties                                                              *)
(***************************************************************************)

(* Committed, inserted and queued, the frames the queue took are all there *)
(* once and in order, across batches, empty polls, sessions and crashes    *)
(* (process_queue).                                                        *)
FramesInOrder == db \o rows \o queue = accepted

(* stop() writes everything that was accepted: when the store is closed    *)
(* nothing is left in the queue or in an open transaction (logger_thread's *)
(* final drain).                                                           *)
StopCommitsAll == opc = "closed" => db = accepted

(* Every frame accepted is committed in the end, also by a worker that is  *)
(* told "empty" too early or is stopped meanwhile; only a crash excuses it.*)
AcceptedIsCommitted ==
    \A k \in 1 .. 2 * MaxTrades :
        (Len(accepted) >= k) ~> (Len(db) >= k \/ Len(accepted) < k)
=============================================================================
