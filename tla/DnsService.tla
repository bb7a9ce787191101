----------------------------- MODULE DnsService -----------------------------
(***************************************************************************)
(* What the caching DNS proxy of core/netfilter/proxy_server promises: a   *)
(* query is answered or passed on, once; it is answered only if an address *)
(* was known for its name when it came, and with that address; and in      *)
(* calm, while responses are handled one at a time, names are learnt once  *)
(* and never forgotten. It does not promise that anybody asked for what is *)
(* learnt. There are no hooks, CPUs or nodes here.                         *)
(***************************************************************************)

CONSTANTS Names, Addrs, Queries, NameOf, None

VARIABLES
  fate,   \* what has become of each query
  due,    \* the address a held query is to be answered with, or None
  known,  \* the address known for each name, or None
  given,  \* <<query, address>> of the answers
  calm    \* responses have never been handled two at a time

vars == <<fate, due, known, given, calm>>

Init ==
  /\ fate = [q \in Queries |-> "new"]
  /\ due = [q \in Queries |-> None]
  /\ known = [n \in Names |-> None]
  /\ given = {}
  /\ calm = TRUE

Settle(q, from, to, address) ==
  /\ fate[q] \in from
  /\ fate' = [fate EXCEPT ![q] = to]
  /\ due' = [due EXCEPT ![q] = address]
  /\ UNCHANGED known

(* Only a query for a known name is held back to be answered.              *)
Hold(q) ==
  /\ known[NameOf[q]] # None
  /\ Settle(q, {"new"}, "held", known[NameOf[q]])
  /\ UNCHANGED given

Pass(q) ==
  /\ Settle(q, {"new", "held"}, "passed", None)
  /\ UNCHANGED given

(* The answer may be reported as congested: the query is passed on as well.*)
(* In calm what was known when the query came still is.                    *)
Answer(q) ==
  /\ \E to \in {"answered", "congested"} : Settle(q, {"held"}, to, None)
  /\ calm => due[q] = known[NameOf[q]]
  /\ given' = given \cup {<<q, due[q]>>}

(* Out of calm a name may be learnt again, and others forgotten with it.   *)
Learn(n, a, others) ==
  /\ calm => known[n] = None /\ others = {}
  /\ known' = [m \in Names |-> IF m = n THEN a ELSE IF m \in others THEN None ELSE known[m]]
  /\ UNCHANGED <<fate, due, given>>

Next ==
  /\ calm' => calm
  /\ \/ UNCHANGED <<fate, due, known, given>>
     \/ \E q \in Queries : Hold(q) \/ Pass(q) \/ Answer(q)
     \/ \E n \in Names, a \in Addrs, others \in SUBSET Names : Learn(n, a, others)

Spec == Init /\ [][Next]_vars
=============================================================================
