-------------------------- MODULE TradeStoreProofs --------------------------
(***************************************************************************)
(* Proofs about TradeStore for every queue capacity, batch size and number *)
(* of trades: the type invariant, FramesInOrder and StopCommitsAll, across *)
(* stops, restarts and crashes.                                            *)
(*                                                                         *)
(* That stop() leaves nothing behind rests on the phases of the worker: it *)
(* enters its last drain only when the engine no longer pushes, and leaves *)
(* it only with an empty queue and no open transaction.                    *)
(***************************************************************************)
EXTENDS TradeStore, SequenceTheorems, TLAPS

(* The engine pushes only while the flag is set; there is a worker exactly *)
(* when the store is open.                                                 *)
EnginePhase ==
    /\ opc \in {"open", "equity"} => running
    /\ opc = "join" => ~running
    /\ wpc = "none" <=> opc = "closed"
    /\ opc = "equity" => trades >= 1

(* The worker knows that nothing more comes; it holds rows only between    *)
(* BEGIN and COMMIT; it is done only when all is committed.                *)
WorkerPhase ==
    /\ wpc \in {"process", "commit", "done"} /\ final => opc = "join"
    /\ wpc = "loop" => ~final
    /\ wpc = "done" => final /\ queue = <<>>
    /\ wpc = "none" => queue = <<>>
    /\ wpc \in {"none", "loop", "done"} \/ ~inTransaction => rows = <<>>
    /\ wpc = "process" => count < Batch

IInv == TypeOK /\ EnginePhase /\ WorkerPhase /\ FramesInOrder

----------------------------------------------------------------------------
(* Two facts about sequences: taking the first element of t to the end of  *)
(* s does not change s \o t; appending and concatenating commute.          *)

LEMMA MoveHead ==
    ASSUME NEW S, NEW s \in Seq(S), NEW t \in Seq(S), t # <<>>
    PROVE  Append(s, Head(t)) \o Tail(t) = s \o t
<1> DEFINE a == Append(s, Head(t))
           u == a \o Tail(t)
           v == s \o t
<1>1. /\ Head(t) \in S /\ Tail(t) \in Seq(S) /\ Len(Tail(t)) = Len(t) - 1
      /\ \A i \in 1 .. Len(Tail(t)) : Tail(t)[i] = t[i + 1]
      /\ Head(t) = t[1] /\ Len(t) \in Nat /\ Len(t) >= 1 /\ Len(s) \in Nat
  BY HeadTailProperties, EmptySeq
<1>2. /\ a \in Seq(S) /\ Len(a) = Len(s) + 1
      /\ \A i \in 1 .. Len(s) : a[i] = s[i]
      /\ a[Len(s) + 1] = t[1]
  BY <1>1, AppendProperties
<1> HIDE DEF a
<1>3. /\ u \in Seq(S) /\ Len(u) = Len(a) + Len(Tail(t))
      /\ \A i \in 1 .. Len(a) + Len(Tail(t)) :
            u[i] = IF i <= Len(a) THEN a[i] ELSE Tail(t)[i - Len(a)]
  BY <1>1, <1>2, ConcatProperties
<1>4. /\ v \in Seq(S) /\ Len(v) = Len(s) + Len(t)
      /\ \A i \in 1 .. Len(s) + Len(t) :
            v[i] = IF i <= Len(s) THEN s[i] ELSE t[i - Len(s)]
  BY ConcatProperties
<1> HIDE DEF u, v
<1>5. Len(u) = Len(v)
  BY <1>1, <1>2, <1>3, <1>4
<1>6. ASSUME NEW i \in 1 .. Len(u) PROVE u[i] = v[i]
  <2>1. CASE i <= Len(s)
    BY <1>1, <1>2, <1>3, <1>4, <1>5, <2>1
  <2>2. CASE i = Len(s) + 1
    BY <1>1, <1>2, <1>3, <1>4, <1>5, <2>2
  <2>3. CASE i > Len(s) + 1
    <3>1. u[i] = Tail(t)[i - Len(a)] /\ i - Len(a) \in 1 .. Len(Tail(t))
      BY <1>1, <1>2, <1>3, <2>3
    <3>2. Tail(t)[i - Len(a)] = t[i - Len(s)]
      BY <1>1, <1>2, <3>1
    <3>3. v[i] = t[i - Len(s)]
      BY <1>1, <1>4, <1>5, <2>3
    <3>4. QED
      BY <3>1, <3>2, <3>3
  <2>4. QED
    BY <1>1, <2>1, <2>2, <2>3
<1>7. u = v
  BY <1>3, <1>4, <1>5, <1>6, SeqEqual
<1>8. QED
  BY <1>7 DEF u, v, a

LEMMA ConcatAppend ==
    ASSUME NEW S, NEW s \in Seq(S), NEW t \in Seq(S), NEW e \in S
    PROVE  s \o Append(t, e) = Append(s \o t, e)
<1> DEFINE a == Append(t, e)
           u == s \o a
           c == s \o t
           v == Append(c, e)
<1>1. Len(s) \in Nat /\ Len(t) \in Nat
  BY LenProperties
<1>2. /\ a \in Seq(S) /\ Len(a) = Len(t) + 1 /\ a[Len(t) + 1] = e
      /\ \A i \in 1 .. Len(t) : a[i] = t[i]
  BY AppendProperties
<1> HIDE DEF a
<1>3. /\ u \in Seq(S) /\ Len(u) = Len(s) + Len(a)
      /\ \A i \in 1 .. Len(s) + Len(a) : u[i] = IF i <= Len(s) THEN s[i] ELSE a[i - Len(s)]
  BY <1>2, ConcatProperties
<1>4. /\ c \in Seq(S) /\ Len(c) = Len(s) + Len(t)
      /\ \A i \in 1 .. Len(s) + Len(t) : c[i] = IF i <= Len(s) THEN s[i] ELSE t[i - Len(s)]
  BY ConcatProperties
<1> HIDE DEF c
<1>5. /\ v \in Seq(S) /\ Len(v) = Len(c) + 1 /\ v[Len(c) + 1] = e
      /\ \A i \in 1 .. Len(c) : v[i] = c[i]
  BY <1>4, AppendProperties
<1> HIDE DEF u, v
<1>6. Len(u) = Len(v)
  BY <1>1, <1>2, <1>3, <1>4, <1>5
<1>7. ASSUME NEW i \in 1 .. Len(u) PROVE u[i] = v[i]
  <2>1. CASE i <= Len(s)
    <3>1. i \in 1 .. Len(c) /\ i \in 1 .. Len(s) + Len(a) /\ i \in 1 .. Len(s) + Len(t)
      BY <1>1, <1>2, <1>4, <2>1
    <3>2. u[i] = s[i]
      BY <1>3, <2>1, <3>1
    <3>3. v[i] = c[i] /\ c[i] = s[i]
      BY <1>4, <1>5, <2>1, <3>1
    <3>4. QED
      BY <3>2, <3>3
  <2>2. CASE i > Len(s) /\ i <= Len(s) + Len(t)
    <3>1. i - Len(s) \in 1 .. Len(t) /\ i \in 1 .. Len(c)
      BY <1>1, <1>4, <2>2
    <3>2. u[i] = t[i - Len(s)]
      BY <1>1, <1>2, <1>3, <2>2, <3>1
    <3>3. v[i] = t[i - Len(s)]
      BY <1>1, <1>4, <1>5, <2>2, <3>1
    <3>4. QED
      BY <3>2, <3>3
  <2>3. CASE i = Len(s) + Len(t) + 1
    <3>1. u[i] = a[Len(t) + 1]
      BY <1>1, <1>2, <1>3, <2>3
    <3>2. v[i] = e
      BY <1>4, <1>5, <2>3
    <3>3. QED
      BY <1>2, <3>1, <3>2
  <2>4. QED
    BY <1>1, <1>2, <1>3, <2>1, <2>2, <2>3
<1>8. u = v
  BY <1>3, <1>5, <1>6, <1>7, SeqEqual
<1>9. QED
  BY <1>8 DEF u, v, a, c

----------------------------------------------------------------------------
(* What the type invariant says of the sequences.                          *)
LEMMA SeqFacts ==
    ASSUME TypeOK
    PROVE  /\ rows \in Seq(Frames) /\ db \in Seq(Frames) /\ queue \in Seq(Frames)
           /\ accepted \in Seq(Frames)
           /\ db \o rows \in Seq(Frames)
           /\ <<>> \in Seq(Frames) /\ Len(<<>>) = 0
           /\ (db \o rows) \o <<>> = db \o rows
           /\ db \o <<>> = db
<1>1. rows \in Seq(Frames) /\ db \in Seq(Frames) /\ queue \in Seq(Frames)
      /\ accepted \in Seq(Frames)
  BY DEF TypeOK
<1>2. db \o rows \in Seq(Frames)
  BY <1>1, ConcatProperties
<1>3. <<>> \in Seq(Frames) /\ Len(<<>>) = 0
  BY EmptySeq
<1>4. (db \o rows) \o <<>> = db \o rows /\ db \o <<>> = db
  BY <1>1, <1>2, ConcatEmptySeq
<1>5. QED
  BY <1>1, <1>2, <1>3, <1>4

(* What the assumptions say of the sizes.                                  *)
LEMMA Sizes == /\ Capacity \in Nat /\ 0 <= Capacity /\ Batch \in Nat /\ 0 < Batch
               /\ 0 \in 0 .. Batch /\ 0 \in 0 .. MaxTrades
<1>1. Capacity \in Nat \ {0} /\ Batch \in Nat \ {0}
  BY SizesAssumption
<1>2. QED
  BY <1>1, MaxTradesAssumption

LEMMA InitIInv == Init => IInv
<1> SUFFICES ASSUME Init PROVE IInv
  OBVIOUS
<1>1. <<>> \in Seq(Frames) /\ Len(<<>>) = 0 /\ <<>> \o <<>> = <<>>
  BY EmptySeq, ConcatEmptySeq
<1>2. TypeOK
  BY <1>1, Sizes DEF Init, TypeOK
<1>3. EnginePhase /\ WorkerPhase
  BY DEF Init, EnginePhase, WorkerPhase
<1>4. FramesInOrder
  BY <1>1 DEF Init, FramesInOrder
<1>5. QED
  BY <1>2, <1>3, <1>4 DEF IInv

----------------------------------------------------------------------------
(* The engine's steps.                                                     *)

(* Whatever the queue does with a frame, order and types are kept.         *)
LEMMA PushKeeps ==
    ASSUME IInv, NEW f \in Frames, Push(f), UNCHANGED <<rows, db>>
    PROVE  /\ queue' \in Seq(Frames) /\ Len(queue') <= Capacity
           /\ accepted' \in Seq(Frames)
           /\ FramesInOrder'
<1>1. TypeOK /\ FramesInOrder /\ Capacity \in Nat
  BY SizesAssumption DEF IInv
<1>2. CASE Len(queue) < Capacity
  <2>1. queue' = Append(queue, f) /\ accepted' = Append(accepted, f)
    BY <1>2 DEF Push
  <2>2. /\ queue' \in Seq(Frames) /\ Len(queue') = Len(queue) + 1
        /\ accepted' \in Seq(Frames) /\ Len(queue) \in Nat
    BY <1>1, <2>1, SeqFacts, AppendProperties, LenProperties
  <2>3. (db \o rows) \o Append(queue, f) = Append((db \o rows) \o queue, f)
    BY <1>1, SeqFacts, ConcatAppend
  <2>4. FramesInOrder'
    BY <1>1, <2>1, <2>3 DEF FramesInOrder
  <2>5. QED
    BY <1>1, <1>2, <2>2, <2>4
<1>3. CASE ~(Len(queue) < Capacity)
  BY <1>1, <1>3 DEF Push, TypeOK, FramesInOrder
<1>4. QED
  BY <1>2, <1>3

LEMMA LogTradeStep == ASSUME IInv, LogTrade PROVE IInv'
<1> USE DEF IInv, LogTrade, workerVars
<1> DEFINE f == [type |-> "TRADE", trade |-> trades + 1]
<1>1. trades + 1 \in 1 .. MaxTrades
  BY MaxTradesAssumption DEF TypeOK
<1>2. f \in Frames
  BY <1>1 DEF Frames
<1>3. /\ queue' \in Seq(Frames) /\ Len(queue') <= Capacity
      /\ accepted' \in Seq(Frames) /\ FramesInOrder'
  BY <1>2, PushKeeps
<1>4. TypeOK'
  BY <1>1, <1>3 DEF TypeOK
<1>5. EnginePhase' /\ WorkerPhase'
  BY <1>1 DEF EnginePhase, WorkerPhase
<1>6. QED
  BY <1>3, <1>4, <1>5

LEMMA LogEquityStep == ASSUME IInv, LogEquity PROVE IInv'
<1> USE DEF IInv, LogEquity, workerVars
<1> DEFINE f == [type |-> "EQUITY", trade |-> trades]
<1>1. trades \in 1 .. MaxTrades
  BY MaxTradesAssumption DEF TypeOK, EnginePhase
<1>2. f \in Frames
  BY <1>1 DEF Frames
<1>3. /\ queue' \in Seq(Frames) /\ Len(queue') <= Capacity
      /\ accepted' \in Seq(Frames) /\ FramesInOrder'
  BY <1>2, PushKeeps
<1>4. TypeOK'
  BY <1>3 DEF TypeOK
<1>5. EnginePhase' /\ WorkerPhase'
  BY DEF EnginePhase, WorkerPhase
<1>6. QED
  BY <1>3, <1>4, <1>5

(* Open, Stop, Close and Crash move no frame; what they forget was either  *)
(* empty or is forgotten by accepted too.                                  *)
LEMMA SessionStep == ASSUME IInv, Open \/ Stop \/ Close \/ Crash PROVE IInv'
<1> USE DEF IInv, workerVars
<1>1. CASE Open
  <2>1. queue = <<>>
    BY <1>1 DEF Open, EnginePhase, WorkerPhase
  <2>2. TypeOK'
    BY <1>1, <2>1 DEF Open, TypeOK
  <2>3. EnginePhase' /\ WorkerPhase'
    BY <1>1 DEF Open, EnginePhase, WorkerPhase
  <2>4. FramesInOrder'
    BY <1>1, <2>1 DEF Open, FramesInOrder
  <2>5. QED
    BY <2>2, <2>3, <2>4
<1>2. CASE Stop
  <2>1. TypeOK' /\ FramesInOrder'
    BY <1>2 DEF Stop, TypeOK, FramesInOrder
  <2>2. EnginePhase' /\ WorkerPhase'
    BY <1>2 DEF Stop, EnginePhase, WorkerPhase
  <2>3. QED
    BY <2>1, <2>2
<1>3. CASE Close
  <2>1. rows = <<>> /\ queue = <<>>
    BY <1>3 DEF Close, WorkerPhase
  <2>2. TypeOK' /\ FramesInOrder'
    BY <1>3, <2>1 DEF Close, TypeOK, FramesInOrder
  <2>3. EnginePhase' /\ WorkerPhase'
    BY <1>3, <2>1 DEF Close, EnginePhase, WorkerPhase
  <2>4. QED
    BY <2>2, <2>3
<1>4. CASE Crash
  <2>1. TypeOK'
    BY <1>4, SeqFacts, Sizes DEF Crash, TypeOK
  <2>2. FramesInOrder'
    BY <1>4, SeqFacts DEF Crash, FramesInOrder
  <2>3. EnginePhase' /\ WorkerPhase'
    BY <1>4 DEF Crash, EnginePhase, WorkerPhase
  <2>4. QED
    BY <2>1, <2>2, <2>3
<1>5. QED
  BY <1>1, <1>2, <1>3, <1>4

----------------------------------------------------------------------------
(* The worker's steps.                                                     *)

LEMMA EnterProcessStep == ASSUME IInv, EnterProcess PROVE IInv'
<1> USE DEF IInv, EnterProcess, engineVars
<1>1. TypeOK' /\ FramesInOrder'
  BY Sizes DEF TypeOK, FramesInOrder
<1>2. EnginePhase' /\ WorkerPhase'
  BY SizesAssumption DEF TypeOK, EnginePhase, WorkerPhase
<1>3. QED
  BY <1>1, <1>2

LEMMA InsertStep == ASSUME IInv, Insert PROVE IInv'
<1> USE DEF IInv, Insert, engineVars
<1>1. /\ Head(queue) \in Frames /\ Tail(queue) \in Seq(Frames)
      /\ Len(Tail(queue)) = Len(queue) - 1 /\ Len(queue) \in Nat
  BY SeqFacts, HeadTailProperties, LenProperties
<1>2. rows' \in Seq(Frames)
  BY <1>1, SeqFacts, AppendProperties
<1>3. count + 1 \in 0 .. Batch /\ (count + 1 < Batch \/ wpc' = "commit")
  BY SizesAssumption DEF TypeOK, WorkerPhase
<1>4. TypeOK'
  BY <1>1, <1>2, <1>3, SizesAssumption DEF TypeOK
<1>5. EnginePhase' /\ WorkerPhase'
  BY <1>3 DEF EnginePhase, WorkerPhase
<1>6. FramesInOrder'
  <2>1. db \o Append(rows, Head(queue)) = Append(db \o rows, Head(queue))
    BY <1>1, SeqFacts, ConcatAppend
  <2>2. Append(db \o rows, Head(queue)) \o Tail(queue) = (db \o rows) \o queue
    BY SeqFacts, MoveHead
  <2>3. QED
    BY <2>1, <2>2 DEF FramesInOrder
<1>7. QED
  BY <1>4, <1>5, <1>6

LEMMA CommitBatchStep == ASSUME IInv, CommitBatch PROVE IInv'
<1> USE DEF IInv, CommitBatch, engineVars
<1>1. TypeOK'
  BY SeqFacts, Sizes DEF TypeOK
<1>2. EnginePhase' /\ WorkerPhase'
  BY Sizes DEF EnginePhase, WorkerPhase
<1>3. FramesInOrder'
  BY SeqFacts DEF FramesInOrder
<1>4. QED
  BY <1>1, <1>2, <1>3

LEMMA LeaveProcessStep == ASSUME IInv, LeaveProcess PROVE IInv'
<1> USE DEF IInv, LeaveProcess, engineVars
<1>1. TypeOK'
  BY SeqFacts DEF TypeOK
<1>2. rows' = <<>>
  BY DEF WorkerPhase, TypeOK
<1>3. EnginePhase' /\ WorkerPhase'
  BY <1>2 DEF EnginePhase, WorkerPhase
<1>4. FramesInOrder'
  BY SeqFacts DEF FramesInOrder
<1>5. QED
  BY <1>1, <1>3, <1>4

LEMMA NextIInv == IInv /\ [Next]_vars => IInv'
<1> SUFFICES ASSUME IInv, [Next]_vars PROVE IInv'
  OBVIOUS
<1>1. CASE UNCHANGED vars
  BY <1>1 DEF vars, engineVars, workerVars, IInv, TypeOK, EnginePhase, WorkerPhase,
     FramesInOrder
<1>2. CASE LogTrade
  BY <1>2, LogTradeStep
<1>3. CASE LogEquity
  BY <1>3, LogEquityStep
<1>4. CASE Open \/ Stop \/ Close \/ Crash
  BY <1>4, SessionStep
<1>5. CASE EnterProcess
  BY <1>5, EnterProcessStep
<1>6. CASE Insert
  BY <1>6, InsertStep
<1>7. CASE CommitBatch
  BY <1>7, CommitBatchStep
<1>8. CASE LeaveProcess
  BY <1>8, LeaveProcessStep
<1>9. QED
  BY <1>1, <1>2, <1>3, <1>4, <1>5, <1>6, <1>7, <1>8 DEF Next, Engine, Worker

LEMMA Inductive == Spec => []IInv
  BY InitIInv, NextIInv, PTL DEF Spec

----------------------------------------------------------------------------
(* Type correctness of the store, its worker and the database.             *)
THEOREM StoreTypeCorrect == Spec => []TypeOK
<1>1. IInv => TypeOK
  BY DEF IInv
<1>2. QED
  BY Inductive, <1>1, PTL

(* For every batch size and capacity no frame the queue took is lost,      *)
(* doubled or moved on its way to the database.                            *)
THEOREM FramesKeptInOrder == Spec => []FramesInOrder
<1>1. IInv => FramesInOrder
  BY DEF IInv
<1>2. QED
  BY Inductive, <1>1, PTL

(* When the store is closed, by stop() or by a crash, the database holds   *)
(* all that is left of what was accepted.                                  *)
THEOREM StopLeavesNothing == Spec => []StopCommitsAll
<1>1. ASSUME IInv PROVE StopCommitsAll
  <2>1. opc = "closed" => rows = <<>> /\ queue = <<>>
    BY <1>1 DEF IInv, EnginePhase, WorkerPhase
  <2>2. db \o <<>> \o <<>> = db
    BY <1>1, SeqFacts DEF IInv
  <2>3. QED
    BY <1>1, <2>1, <2>2 DEF IInv, FramesInOrder, StopCommitsAll
<1>2. QED
  BY Inductive, <1>1, PTL
=============================================================================
