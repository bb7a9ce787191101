-------------------------- MODULE MCUdpTimeServer --------------------------
(* Instances of the UDP time server for TLC.                               *)
EXTENDS UdpTimeServer, TLC

CONSTANTS r1, r2, c1, c2, w1, w2

(* Two clients with one request each.                                      *)
TwoClients == r1 :> c1 @@ r2 :> c2

(* One request that is followed; all other datagrams come from c2.         *)
OneClient == r1 :> c1

(* The worker threads are interchangeable.                                 *)
Threads == Permutations({w1, w2})
=============================================================================
