---------------------------- MODULE MCGroupLimit ----------------------------
EXTENDS Server, Http

CONSTANTS u1, r1, r2, r3

(* A server that takes calls, which it only does with a valid configuration,
   runs each through the middlewares its handler relies on: no route shadows
   another, nobody is asked for what his router did not set, Google's pushes
   need the secret and no user, and refusals are the caller's fault. *)
ChainsFit == phase \in Running => EveryRouteFits
=============================================================================
