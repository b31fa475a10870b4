----------------------------- MODULE JobService -----------------------------
(***************************************************************************)
(* What the event thread promises its callers, whatever its queue and its  *)
(* flags look like: accepted events are handled once each, in the order in *)
(* which they were accepted, one at a time, and no more than Capacity wait.*)
(***************************************************************************)
EXTENDS Naturals, Sequences

CONSTANTS
  Job,        \* what can be submitted
  Capacity    \* how many jobs may be waiting or running

VARIABLES
  pending,    \* accepted and not yet handled, oldest first
  done        \* handled, oldest first

jsVars == <<pending, done>>

JsInit == pending = <<>> /\ done = <<>>

Submit(j) ==
  /\ Len(pending) < Capacity
  /\ pending' = Append(pending, j)
  /\ UNCHANGED done

Handle ==
  /\ pending # <<>>
  /\ done' = Append(done, Head(pending))
  /\ pending' = Tail(pending)

JsNext == Handle \/ \E j \in Job : Submit(j)

JsSpec == JsInit /\ [][JsNext]_jsVars

=============================================================================
