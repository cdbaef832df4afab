-------------------------- MODULE MCRegistryProbe --------------------------
(* Model checking of RegistryProbe: a Duration of 6 bits and a second of 3   *)
(* ticks, so that 11 seconds no longer fit.                                  *)
EXTENDS RegistryProbe

MCHeaders ==
  [kind : {"secs"}, n : {-1, 0, 1, 10, 11, 25}] \cup
  [kind : {"date"}, n : {-5, 2, 20}]

=============================================================================
