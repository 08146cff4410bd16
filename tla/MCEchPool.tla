------------------------------ MODULE MCEchPool ------------------------------
(* Values of the constants of EchPool for TLC. *)
EXTENDS EchPool, TLC

\* One fast and one slow measurement, further apart than the tie window.
MCRTTs == {1, 3}

\* The channels differ only by their index.
ChannelSymmetry == Permutations(Channels)
=============================================================================
