-------------------------- MODULE MCKernelModules --------------------------
(***************************************************************************)
(* Two kernel modules that share nothing, in one state space: a behaviour  *)
(* is one of the DNS proxy or one of the character device, and the         *)
(* variables of the other keep their initial values.                       *)
(***************************************************************************)
EXTENDS DnsProxy, IoctlDev, TLC

CONSTANTS q1, q2, m1, m2, w1

VARIABLE loaded

(* Two CPUs, two names in strcmp order, and a query for each.              *)
MCNames == 1 .. 2
MCQueries == {q1, q2}
MCNameOf == q1 :> 1 @@ q2 :> 2

(* Two runs of main.c and a writer whose message fills the buffer.         *)
Kinds == m1 :> "main" @@ m2 :> "main" @@ w1 :> "writer"
Lengths == m1 :> 1 @@ m2 :> 1 @@ w1 :> 2

(* CPUs are interchangeable, and so are the runs of main.c.                *)
MCSymmetry == Permutations(CPUs) \cup Permutations({m1, m2})

KernelVars == <<loaded, vars, devVars>>

KernelInit == loaded \in {"proxy_server", "ioctl_dev"} /\ Init /\ DevInit

KernelNext ==
  \/ loaded = "proxy_server" /\ Next /\ UNCHANGED <<loaded, devVars>>
  \/ loaded = "ioctl_dev" /\ DevNext /\ UNCHANGED <<loaded, vars>>

KernelSpec == KernelInit /\ [][KernelNext]_KernelVars
=============================================================================
