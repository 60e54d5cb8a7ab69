------------------------------- MODULE Drive -------------------------------
(***************************************************************************)
(* What a capture promises, however the stream is cut, the connections     *)
(* fail and the file ends (tools/record.py, tools/replay.py).              *)
(*                                                                         *)
(* While a drive is recorded its frames grow one at a time, each of a      *)
(* later packet than those before it.  When the recording is over they     *)
(* never change, and a replay shows them from the first on, one after the  *)
(* other, perhaps again and again, and perhaps not all of them.            *)
(***************************************************************************)
EXTENDS Naturals, Sequences

CONSTANT FramesOf    \* what each packet of the ECU may be decoded to, by its number

VARIABLES recording,
          frames,    \* what the recorder got
          watched    \* what this pass of the replay has shown

vars == <<recording, frames, watched>>

Init == recording = TRUE /\ frames = <<>> /\ watched = <<>>

\* A frame of the n-th packet is one of a later packet than every frame there is.
Later(n) == \A i \in DOMAIN frames : \E m \in DOMAIN FramesOf : m < n /\ frames[i] \in FramesOf[m]

Record ==
  /\ recording
  /\ \E n \in DOMAIN FramesOf : Later(n) /\ \E v \in FramesOf[n] : frames' = Append(frames, v)
  /\ UNCHANGED <<recording, watched>>

Stop == recording /\ recording' = FALSE /\ UNCHANGED <<frames, watched>>

Rewind == ~recording /\ watched' = <<>> /\ UNCHANGED <<recording, frames>>

Watch ==
  /\ ~recording /\ Len(watched) < Len(frames)
  /\ watched' = Append(watched, frames[Len(watched) + 1])
  /\ UNCHANGED <<recording, frames>>

Next == Record \/ Stop \/ Rewind \/ Watch

Spec == Init /\ [][Next]_vars
=============================================================================
