-------------------------------- MODULE MCDht --------------------------------
(* The reading of the DHT with the sleeps that time it.  The two share      *)
(* nothing, so TLC takes the calls of the sleeps one by one between          *)
(* readings and not at each step of one.                                    *)
EXTENDS Dht, Sleep

MCInit == Init /\ SleepInit

MCNext ==
  \/ asked = 0 /\ Next /\ UNCHANGED asked
  \/ pc = "idle" /\ (Call \/ Back) /\ UNCHANGED vars

MCSpec == MCInit /\ [][MCNext]_<<vars, asked>> /\ WF_vars(DHT_get_data)
=============================================================================
