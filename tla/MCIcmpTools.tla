----------------------------- MODULE MCIcmpTools -----------------------------
(* A ping and a traceroute started from one shell.                         *)
EXTENDS IcmpTools, TLC

CONSTANTS p1, t1

Kinds == p1 :> "ping" @@ t1 :> "traceroute"

(* The pid of the ping and the pid of the shell.                           *)
Idents == p1 :> 302 @@ t1 :> 300
=============================================================================
