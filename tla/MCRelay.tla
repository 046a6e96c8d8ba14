------------------------------ MODULE MCRelay ------------------------------
(* Small instances of Relay for TLC. *)
EXTENDS Relay

\* One way to configure a relay; for those of the configuration file also another
\* login and another upstream.
First == [upstream |-> "a", login |-> "x"]
OneSetting == [r \in Relays |-> {First}]
ThreeSettings ==
  [r \in Relays |-> IF r \in Master THEN {First}
                    ELSE {First, [First EXCEPT !.login = "y"], [First EXCEPT !.upstream = "b"]}]

Symmetry == Permutations(Relays)
=============================================================================
