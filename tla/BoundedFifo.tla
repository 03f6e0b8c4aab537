---------------------------- MODULE BoundedFifo ----------------------------
(***************************************************************************)
(* What a single-producer single-consumer queue of goldmine promises: the  *)
(* items accepted from the producer reach the consumer in the order they   *)
(* were accepted, each exactly once, and at most Capacity of them are      *)
(* inside at any time.                                                     *)
(***************************************************************************)
EXTENDS Integers, Sequences

CONSTANTS Items,     \* what may be queued
          Capacity   \* how many items fit

VARIABLES sent,      \* the items accepted, in order
          rcvd       \* the items delivered, in order

fifoVars == <<sent, rcvd>>

FifoInit == sent = <<>> /\ rcvd = <<>>

Accept(v) ==
    /\ Len(sent) - Len(rcvd) < Capacity
    /\ sent' = Append(sent, v)
    /\ UNCHANGED rcvd

Deliver ==
    /\ Len(rcvd) < Len(sent)
    /\ rcvd' = Append(rcvd, sent[Len(rcvd) + 1])
    /\ UNCHANGED sent

FifoNext == (\E v \in Items : Accept(v)) \/ Deliver

FifoSpec == FifoInit /\ [][FifoNext]_fifoVars
============================================================================
