----------------------------- MODULE MCFriends ------------------------------
(* Two users, two calls in flight, one device.  No symmetry: the run checks     *)
(* liveness.                                                                   *)
EXTENDS Friends
=============================================================================
