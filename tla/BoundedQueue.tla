---------------------------- MODULE BoundedQueue ----------------------------
(***************************************************************************)
(* What lib/fifo promises to the threads that use it: a first-in first-out *)
(* queue of at most Size element pointers, with one producer and one       *)
(* consumer.  The ring buffer of module Fifo implements it, and module     *)
(* Pipeline is written over queues of this kind.                           *)
(***************************************************************************)
EXTENDS Integers, Sequences

CONSTANTS
  Elements,   \* the pointers that can be queued
  Size,       \* capacity of the queue
  NULL        \* what the consumer holds before it got anything

VARIABLES
  queue,      \* the elements in the queue, oldest first
  returned    \* the last element handed to the consumer

vars == <<queue, returned>>

Init ==
  /\ queue = <<>>
  /\ returned = NULL

Put(e) ==
  /\ Len(queue) < Size
  /\ queue' = Append(queue, e)
  /\ UNCHANGED returned

Get ==
  /\ queue # <<>>
  /\ returned' = Head(queue)
  /\ queue' = Tail(queue)

Next ==
  \/ \E e \in Elements : Put(e)
  \/ Get

Spec == Init /\ [][Next]_vars
=============================================================================
