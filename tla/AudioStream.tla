----------------------------- MODULE AudioStream -----------------------------
(***************************************************************************)
(* What /dev/dsp promises (docs/WIFI_SOUND.md): the samples of a stream    *)
(* are heard in the order they were accepted, each once and none left out, *)
(* until a reset drops the rest; a failing device loses what it was        *)
(* playing, at most Loss samples, and says so.                             *)
(***************************************************************************)
EXTENDS Integers, Sequences

CONSTANTS
  Capacity,   \* samples accepted and not yet heard, at most
  Loss        \* samples a failure may lose

VARIABLES
  queue,    \* samples accepted and not yet heard
  heard,    \* what the last finished buffer played
  failed    \* the device has failed and the stream was not reset since

Init == queue = <<>> /\ heard = <<>> /\ failed = FALSE

\* The first n samples of the queue leave it.
Leave(n) == queue' = SubSeq(queue, n + 1, Len(queue))

Accept ==
  /\ Len(queue') \in Len(queue) .. Capacity
  /\ SubSeq(queue', 1, Len(queue)) = queue
  /\ UNCHANGED <<heard, failed>>

Play == \E n \in 0 .. Len(queue) :
  /\ Leave(n)
  /\ heard' = SubSeq(queue, 1, n)
  /\ UNCHANGED failed

Fail == \E n \in 0 .. Len(queue) :
  /\ n <= Loss /\ Leave(n)
  /\ failed' = TRUE
  /\ UNCHANGED heard

Reset == queue' = <<>> /\ failed' = FALSE /\ UNCHANGED heard

Next == Accept \/ Play \/ Fail \/ Reset

Spec == Init /\ [][Next]_<<queue, heard, failed>>

=============================================================================
