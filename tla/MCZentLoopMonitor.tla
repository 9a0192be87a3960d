------------------------- MODULE MCZentLoopMonitor -------------------------
(* Three bodies: turned on, turned on with rules that nginx rejects and the *)
(* secret left as it is, turned off with everything left out.               *)
EXTENDS ZentLoopMonitor

CONSTANTS url, key, mask, good, bad

MCInputs ==
  {[enabled |-> TRUE, upstream |-> url, secret |-> key, rules |-> good],
   [enabled |-> TRUE, upstream |-> None, secret |-> mask, rules |-> bad],
   [enabled |-> FALSE, upstream |-> None, secret |-> mask, rules |-> None]}
=============================================================================
