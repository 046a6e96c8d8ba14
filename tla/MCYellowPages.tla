--------------------------- MODULE MCYellowPages ---------------------------
(* Small instances of YellowPages for TLC. *)
EXTENDS YellowPages

CONSTANTS y1, y2

\* Everything interleaves, with a reload or with streams that end as those of relays do
\* and a directory that may leave out the SID; or calls are spaced, with two servers and
\* two reloads.
MCSettings ==
  {[spaced |-> FALSE, stores |-> {0}, sids |-> TRUE, servers |-> {y1}, reloads |-> 1],
   [spaced |-> FALSE, stores |-> {-1, 0}, sids |-> FALSE, servers |-> {y1}, reloads |-> 0],
   [spaced |-> TRUE, stores |-> {-1, 0}, sids |-> TRUE, servers |-> {y1, y2}, reloads |-> 2]}
=============================================================================
