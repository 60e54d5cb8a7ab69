------------------------------- MODULE EcuLink -------------------------------
(***************************************************************************)
(* What LiveSource promises about the one RFCOMM channel of the ECU,       *)
(* whatever the interleaving of the source thread with release(),          *)
(* resume(), close() and a settings reload (s300d/client.py).              *)
(*                                                                         *)
(* A connection attempt starts only while the link is wanted.  release()   *)
(* does not cancel an attempt already under way: that one attempt may      *)
(* still bring the link up, once, and only then.  The link is never        *)
(* brought up a second time until resume().                                *)
(***************************************************************************)

VARIABLES wanted,    \* neither released nor closed
          trying,    \* a connect() is under way
          held       \* the RFCOMM channel is taken: nobody else can have it

vars == <<wanted, trying, held>>

TypeOK == wanted \in BOOLEAN /\ trying \in BOOLEAN /\ held \in BOOLEAN

Init == wanted = TRUE /\ trying = FALSE /\ held = FALSE

\* Starting an attempt needs the link to be wanted and not held already.
Begin == wanted /\ ~trying /\ ~held /\ trying' = TRUE /\ UNCHANGED <<wanted, held>>

\* The attempt under way succeeds, or it fails.
Acquire == trying /\ ~held /\ held' = TRUE /\ trying' = FALSE /\ UNCHANGED wanted
GiveUp == trying /\ trying' = FALSE /\ UNCHANGED <<wanted, held>>

\* The link goes down: closed by either thread, or lost.
Drop == held /\ held' = FALSE /\ UNCHANGED <<wanted, trying>>

Unwant == wanted' = FALSE /\ UNCHANGED <<trying, held>>
Want == wanted' = TRUE /\ UNCHANGED <<trying, held>>

Next == Begin \/ Acquire \/ GiveUp \/ Drop \/ Unwant \/ Want

Spec == Init /\ [][Next]_vars
=============================================================================
