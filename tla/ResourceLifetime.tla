-------------------------- MODULE ResourceLifetime --------------------------
(***************************************************************************)
(* What the frame lifecycle promises, without fences, slots or reference   *)
(* counts: objects come and go, the GPU is busy with some of them, and an  *)
(* object the GPU is busy with is never deleted.                           *)
(***************************************************************************)
CONSTANT Objects

VARIABLES
  live, \* the objects that exist
  busy  \* the objects named by commands the GPU has not finished

Init == live = {} /\ busy = {}

Create(o) ==
  /\ o \notin live \cup busy
  /\ live' = live \cup {o}
  /\ UNCHANGED busy

Record(o) ==
  /\ o \in live
  /\ busy' = busy \cup {o}
  /\ UNCHANGED live

\* The GPU finishes some commands.
Finish ==
  /\ busy' \subseteq busy
  /\ UNCHANGED live

\* Objects are deleted, none of them busy.
Delete ==
  /\ live' \subseteq live
  /\ live \ live' \subseteq Objects \ busy
  /\ UNCHANGED busy

Next ==
  \/ \E o \in Objects : Create(o) \/ Record(o)
  \/ Finish
  \/ Delete

Spec == Init /\ [][Next]_<<live, busy>>
=============================================================================
