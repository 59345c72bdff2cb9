-------------------------------- MODULE MCHMC --------------------------------
EXTENDS HMC

(* Two vaults in two quadrants.                                            *)
TwoAddr == 0 .. 1
TwoVaults == [a \in TwoAddr |-> a]

(* Reads of both addresses and writes of the first.                        *)
ReadsAndAWrite == {t \in Transactions : t.is_write => t.addr = 0}
=============================================================================
