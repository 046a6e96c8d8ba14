---------------------------- MODULE MCSourceLife ----------------------------
(* Instances of SourceLife: "live" falls back to "jingle", which has a     *)
(* file and takes one listener.                                            *)
EXTENDS SourceLife

CONSTANTS live, jingle

MCMounts == {live, jingle}
MCFallback == [m \in MCMounts |-> IF m = live THEN jingle ELSE NoMount]
MCMax == [m \in MCMounts |-> IF m = live THEN -1 ELSE 1]
=============================================================================
