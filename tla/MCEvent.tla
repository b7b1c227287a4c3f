-------------------------------- MODULE MCEvent --------------------------------
(***************************************************************************)
(* Event with two channels and the choices that make offers compete: to    *)
(* send and to receive on one channel, and to receive from one of two.     *)
(***************************************************************************)
EXTENDS Event, TLC

CONSTANTS c, d

TheMenus ==
  { <<Sends(c)>>, <<Receives(c)>>, <<Sends(d)>>,
    <<Sends(c), Receives(c)>>, <<Receives(c), Sends(c)>>,
    <<Receives(c), Receives(d)>>, <<Receives(c), Always>> }
ThreadSymmetry == Permutations(Threads)
================================================================================
