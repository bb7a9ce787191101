------------------------------ MODULE DnsProxy ------------------------------
(***************************************************************************)
(* The caching DNS proxy of core/netfilter/proxy_server: hook_in_packets   *)
(* learns addresses from responses, hook_out_packets answers queries from  *)
(* what was learnt and drops them. The hooks run on every CPU at once and  *)
(* share dns_tree, a red-black tree, without a lock; search and the descent*)
(* of insert read it, rb_link_node and rb_insert_color write it.           *)
(*                                                                         *)
(* The tree is the set of names search finds, with their addresses. A slot *)
(* of it is the gap between two neighbouring names. Reading while another  *)
(* CPU rebalances may miss names; linking into a gap that was filled since *)
(* the descent overwrites the slot or, when rebalancing has moved it, adds *)
(* a node that search may not find.                                        *)
(***************************************************************************)
EXTENDS Naturals, FiniteSets

CONSTANTS
  CPUs,      \* contexts the hooks run in: a CPU, or a softirq upon it
  Names,     \* host names, as numbers in the order of strcmp
  Addrs,     \* addresses a record may hold
  Queries,   \* queries clients send, each once, from ports other than 53
  NameOf,    \* the host name each query asks for
  MaxNodes,  \* bound: nodes allocated
  None

ASSUME DnsAssumption ==
  /\ Names \subseteq Nat /\ Names # {}
  /\ Addrs # {} /\ None \notin Addrs \cup Queries
  /\ NameOf \in [Queries -> Names]
  /\ MaxNodes \in Nat

VARIABLES
  cache,     \* dns_tree: the address search finds for each name, or None
  inpc,      \* each CPU's hook_in_packets
  inrec,     \* the response it works on, later its node
  inseen,    \* the names it saw in the tree while it descended
  outpc,     \* each CPU's hook_out_packets
  outq,      \* the query it works on, or None
  outaddr,   \* the address in the node that search returned
  nodes,     \* nodes allocated so far
  leaked,    \* nodes that search does not find and nobody holds
  started,   \* history: queries that reached the hook
  forwarded, \* history: queries the hook let pass
  answers,   \* history: <<query, address>> of every reply sent
  congested, \* history: queries whose reply made ip_local_out return > 0
  refused,   \* history: number of records hook_in_packets refused
  overlapped \* history: two CPUs were in hook_in_packets at once

inVars == <<inpc, inrec, inseen>>
outVars == <<outpc, outq, outaddr>>
fates == <<started, forwarded, answers, congested>>
vars == <<cache, inVars, outVars, nodes, leaked, fates, refused, overlapped>>

(* The first record of a response: its type and length as hook_in tests    *)
(* them, and the four bytes it would take for the address.                 *)
Record == [name : Names, isA : BOOLEAN, isFour : BOOLEAN, addr : Addrs]
NoRecord == CHOOSE r \in Record : TRUE

(* The variables have their types; in particular a CPU that builds a reply *)
(* holds a node's address, never the result of a search that found nothing *)
(* (proxy_server.c:115).                                                   *)
TypeOK ==
  /\ cache \in [Names -> Addrs \cup {None}]
  /\ inpc \in [CPUs -> {"idle", "check", "descend", "link"}]
  /\ inrec \in [CPUs -> Record]
  /\ inseen \in [CPUs -> SUBSET Names]
  /\ outpc \in [CPUs -> {"idle", "reply", "sending"}]
  /\ outq \in [CPUs -> Queries \cup {None}]
  /\ outaddr \in [CPUs -> Addrs]
  /\ nodes \in 0 .. MaxNodes /\ leaked \in 0 .. nodes
  /\ refused \in 0 .. nodes
  /\ started \subseteq Queries /\ forwarded \subseteq Queries
  /\ congested \subseteq Queries
  /\ answers \subseteq Queries \X Addrs
  /\ overlapped \in BOOLEAN

Init ==
  /\ cache = [n \in Names |-> None]
  /\ inpc = [c \in CPUs |-> "idle"]
  /\ inrec = [c \in CPUs |-> NoRecord]
  /\ inseen = [c \in CPUs |-> {}]
  /\ outpc = [c \in CPUs |-> "idle"]
  /\ outq = [c \in CPUs |-> None]
  /\ outaddr = [c \in CPUs |-> CHOOSE a \in Addrs : TRUE]
  /\ nodes = 0 /\ leaked = 0 /\ refused = 0
  /\ started = {} /\ forwarded = {} /\ answers = {} /\ congested = {}
  /\ overlapped = FALSE

Idle(c) == inpc[c] = "idle" /\ outpc[c] = "idle"

Cached == {n \in Names : cache[n] # None}

(* Another CPU may be inside rb_link_node or rb_insert_color.              *)
Rebalancing(c) == \E d \in CPUs \ {c} : inpc[d] = "link"

(* What a walk through the tree may see of it.                             *)
Seen(c) == IF Rebalancing(c) THEN SUBSET Cached ELSE {Cached}

(* The cached names in the gap of n between the names in seen.             *)
InGap(n, seen) ==
  {m \in Cached : ~ \E k \in seen : (m <= k /\ k <= n) \/ (n <= k /\ k <= m)}

-----------------------------------------------------------------------------
(* hook_in_packets.                                                        *)

(* A new node for the name of a response.                                  *)
Allocate(c, r) ==
  /\ nodes < MaxNodes
  /\ nodes' = nodes + 1
  /\ inrec' = [inrec EXCEPT ![c] = r]
  /\ inpc' = [inpc EXCEPT ![c] = "check"]
  /\ overlapped' = (overlapped \/ \E d \in CPUs \ {c} : inpc[d] # "idle")

(* Mutant: a node is allocated before the search.                          *)
InSearchAllocates(c, r) ==
  /\ Idle(c)
  /\ Allocate(c, r)
  /\ UNCHANGED <<cache, inseen, outVars, leaked, fates, refused>>

(* Mutant: a response renews the address of a name that is cached.         *)
InSearchRenews(c, r) ==
  /\ Idle(c)
  /\ \/ /\ r.name \in Cached
        /\ cache' = [cache EXCEPT ![r.name] = r.addr]
        /\ UNCHANGED <<inpc, inrec, nodes, overlapped>>
     \/ /\ r.name \notin Cached
        /\ Allocate(c, r) /\ UNCHANGED cache
  /\ UNCHANGED <<inseen, outVars, leaked, fates, refused>>

(* Any UDP datagram from port 53 is taken for a response, also one that    *)
(* nobody has asked for. A name that search finds is left as it is,        *)
(* whatever the response holds and however old the node is; otherwise a    *)
(* node is allocated.                                                      *)
InSearch(c, r) ==
  /\ Idle(c)
  /\ \E seen \in Seen(c) :
       \/ /\ r.name \in seen
          /\ UNCHANGED <<inpc, inrec, nodes, overlapped>>
       \/ /\ r.name \notin seen
          /\ Allocate(c, r)
  /\ UNCHANGED <<cache, inseen, outVars, leaked, fates, refused>>

(* Only a record that has neither type 1 nor four bytes is refused; its    *)
(* node is not freed.                                                      *)
InCheck(c) ==
  /\ inpc[c] = "check"
  /\ \/ /\ ~ inrec[c].isA /\ ~ inrec[c].isFour
        /\ leaked' = leaked + 1 /\ refused' = refused + 1
        /\ inpc' = [inpc EXCEPT ![c] = "idle"]
     \/ /\ inrec[c].isA \/ inrec[c].isFour
        /\ inpc' = [inpc EXCEPT ![c] = "descend"]
        /\ UNCHANGED <<leaked, refused>>
  /\ UNCHANGED <<cache, inrec, inseen, outVars, nodes, fates, overlapped>>

(* insert descends to the free slot for the name, or finds the name there  *)
(* and returns 0; the node is not freed then.                              *)
InDescend(c) ==
  /\ inpc[c] = "descend"
  /\ \E seen \in Seen(c) :
       \/ /\ inrec[c].name \in seen
          /\ leaked' = leaked + 1
          /\ inpc' = [inpc EXCEPT ![c] = "idle"]
          /\ UNCHANGED inseen
       \/ /\ inrec[c].name \notin seen
          /\ inseen' = [inseen EXCEPT ![c] = seen]
          /\ inpc' = [inpc EXCEPT ![c] = "link"]
          /\ UNCHANGED leaked
  /\ UNCHANGED <<cache, inrec, outVars, nodes, fates, refused, overlapped>>

(* rb_link_node and rb_insert_color. rivals are the nodes that are in the  *)
(* slot's gap without the descent having seen them: they are overwritten,  *)
(* or kept beside the new node, or kept with the new node where search does*)
(* not look.                                                               *)
InLink(c) ==
  LET n == inrec[c].name
      rivals == InGap(n, inseen[c])
      linked == [cache EXCEPT ![n] = inrec[c].addr]
  IN  /\ inpc[c] = "link"
      /\ \/ /\ cache' = [m \in Names |-> IF m \in rivals \ {n} THEN None ELSE linked[m]]
            /\ leaked' = leaked + Cardinality(rivals)
         \/ /\ rivals # {} /\ n \notin rivals
            /\ cache' = linked /\ UNCHANGED leaked
         \/ /\ rivals # {}
            /\ leaked' = leaked + 1 /\ UNCHANGED cache
      /\ inpc' = [inpc EXCEPT ![c] = "idle"]
      /\ UNCHANGED <<inrec, inseen, outVars, nodes, fates, refused, overlapped>>

-----------------------------------------------------------------------------
(* hook_out_packets.                                                       *)

(* A query to port 53: it passes when search finds nothing.                *)
OutSearch(c, q) ==
  /\ Idle(c) /\ q \notin started
  /\ started' = started \cup {q}
  /\ \E seen \in Seen(c) :
       \/ /\ NameOf[q] \notin seen
          /\ forwarded' = forwarded \cup {q}
          /\ UNCHANGED outVars
       \/ /\ NameOf[q] \in seen
          /\ outq' = [outq EXCEPT ![c] = q]
          /\ outaddr' = [outaddr EXCEPT ![c] = cache[NameOf[q]]]
          /\ outpc' = [outpc EXCEPT ![c] = "reply"]
          /\ UNCHANGED forwarded
  /\ UNCHANGED <<cache, inVars, nodes, leaked, answers, congested, refused, overlapped>>

(* create_packet: skb_copy_expand fails and the query passes.              *)
OutNoMemory(c) ==
  /\ outpc[c] = "reply"
  /\ forwarded' = forwarded \cup {outq[c]}
  /\ outpc' = [outpc EXCEPT ![c] = "idle"]
  /\ outq' = [outq EXCEPT ![c] = None]
  /\ UNCHANGED <<cache, inVars, outaddr, nodes, leaked, started, answers, congested,
                 refused, overlapped>>

(* create_packet: source and destination are swapped and the reply, with   *)
(* the node's address, is given to ip_local_out. It passes this hook again,*)
(* which lets it through: its destination port is the client's, not 53.    *)
OutReply(c) ==
  /\ outpc[c] = "reply"
  /\ outpc' = [outpc EXCEPT ![c] = "sending"]
  /\ UNCHANGED <<cache, inVars, outq, outaddr, nodes, leaked, fates, refused, overlapped>>

Sent(c) == answers' = answers \cup {<<outq[c], outaddr[c]>>}
Passed(c) == forwarded' = forwarded \cup {outq[c]}
Returned(c) ==
  /\ outpc' = [outpc EXCEPT ![c] = "idle"]
  /\ outq' = [outq EXCEPT ![c] = None]
  /\ UNCHANGED <<cache, inVars, outaddr, nodes, leaked, started, refused, overlapped>>

(* ip_local_out returns 0 and the query is dropped; or it returns a        *)
(* congestion notice for a reply it has sent, or an error for one it has   *)
(* not, and the query passes.                                              *)
OutDone(c) ==
  /\ outpc[c] = "sending"
  /\ \/ Sent(c) /\ UNCHANGED <<forwarded, congested>>
     \/ Sent(c) /\ Passed(c) /\ congested' = congested \cup {outq[c]}
     \/ Passed(c) /\ UNCHANGED <<answers, congested>>
  /\ Returned(c)

-----------------------------------------------------------------------------
Next == \E c \in CPUs :
          \/ \E r \in Record : InSearch(c, r)
          \/ InCheck(c) \/ InDescend(c) \/ InLink(c)
          \/ \E q \in Queries : OutSearch(c, q)
          \/ OutNoMemory(c) \/ OutReply(c) \/ OutDone(c)

Spec == Init /\ [][Next]_vars

-----------------------------------------------------------------------------
(* Properties.                                                             *)

(* A query is answered by the proxy or passed on to the server, not both,  *)
(* except when ip_local_out reports congestion for a reply it has sent:    *)
(* create_packet returns that positive number and hook_out_packets, which  *)
(* drops the query only on 0 (proxy_server.c:118), accepts it as well.     *)
OneFate ==
  \A q \in forwarded : (\E a \in Addrs : <<q, a>> \in answers) => q \in congested

(* Every answer the proxy gives for a name holds the same address, that of *)
(* the first response it stored, as long as hook_in_packets never ran on   *)
(* two CPUs at once: a later response changes nothing (proxy_server.c:57). *)
AnswersAgree ==
  ~ overlapped =>
    \A x, y \in answers : NameOf[x[1]] = NameOf[y[1]] => x[2] = y[2]

(* A node that search cannot find any more belongs to a record that was    *)
(* refused (proxy_server.c:63-64), unless two CPUs were in hook_in_packets *)
(* at once.                                                                *)
LeaksNeedOverlap == leaked > refused => overlapped

(* A cached address changes or vanishes only after two CPUs were in        *)
(* hook_in_packets at once: one call of insert alone keeps every node of   *)
(* the tree (proxy_server.c:150-171).                                      *)
CacheStable ==
  [][~ overlapped' => \A n \in Cached : cache'[n] = cache[n]]_vars

(* The queries as clients see them.                                        *)
Answered(q) == \E a \in Addrs : <<q, a>> \in answers

Fate(q) ==
  IF q \in forwarded
  THEN IF ~ Answered(q) THEN "passed" ELSE IF q \in congested THEN "congested" ELSE "both"
  ELSE IF Answered(q) THEN "answered" ELSE IF q \in started THEN "held" ELSE "new"

Fates == [q \in Queries |-> Fate(q)]

(* The address a CPU is about to answer a query with.                      *)
Holds(c, q) == outpc[c] # "idle" /\ outq[c] = q

Due == [q \in Queries |-> IF \E c \in CPUs : Holds(c, q)
                           THEN outaddr[CHOOSE c \in CPUs : Holds(c, q)] ELSE None]

Service == INSTANCE DnsService WITH
  fate <- Fates, due <- Due, known <- cache, given <- answers, calm <- ~ overlapped

(* Both hooks on any number of CPUs give what DnsService promises: in      *)
(* particular the address of an answer is the one that was cached for the  *)
(* name when the query came, however the hooks overlap, and in calm it     *)
(* still is (proxy_server.c:57, 114-119).                                  *)
ImplementsDns == Service!Spec
=============================================================================
