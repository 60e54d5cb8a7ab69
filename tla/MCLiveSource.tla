---------------------------- MODULE MCLiveSource ----------------------------
(***************************************************************************)
(* LiveSource for TLC.  Two channel lists and two scaling tables are       *)
(* enough to tell a stale decode table from a fresh one.                   *)
(***************************************************************************)
EXTENDS LiveSource, TLC

\* Neither set has a distinguished member (safety runs only).
Symmetry == Permutations(Scalings) \cup Permutations(ChannelLists)
=============================================================================
