--------------------------- MODULE DnsProxyProofs ---------------------------
(***************************************************************************)
(* What the DNS proxy guarantees for every number of CPUs, names, queries  *)
(* and nodes.                                                              *)
(*                                                                         *)
(* Two arguments. The fate of a query: while a CPU holds it, nobody else   *)
(* does and it is neither forwarded nor answered. The tree: every node is  *)
(* cached, leaked or held by a CPU; and as long as no two CPUs were in     *)
(* hook_in_packets at once, the one that is there knows the whole tree and *)
(* works on a name that is not in it, so a link never meets a rival.       *)
(***************************************************************************)
EXTENDS DnsProxy, FiniteSetTheorems, TLAPS

(* CPUs that are in hook_in_packets, each with a node.                     *)
Busy == {c \in CPUs : inpc[c] # "idle"}

(* The types, without the bounds on leaked and refused.                    *)
Types ==
  /\ cache \in [Names -> Addrs \cup {None}]
  /\ inpc \in [CPUs -> {"idle", "check", "descend", "link"}]
  /\ inrec \in [CPUs -> Record]
  /\ inseen \in [CPUs -> SUBSET Names]
  /\ outpc \in [CPUs -> {"idle", "reply", "sending"}]
  /\ outq \in [CPUs -> Queries \cup {None}]
  /\ outaddr \in [CPUs -> Addrs]
  /\ nodes \in 0 .. MaxNodes /\ leaked \in Nat /\ refused \in Nat
  /\ started \subseteq Queries /\ forwarded \subseteq Queries
  /\ congested \subseteq Queries
  /\ answers \subseteq Queries \X Addrs
  /\ overlapped \in BOOLEAN

(* No node is lost from the books: it is in the tree, leaked or held by    *)
(* the CPU that allocated it.                                              *)
Accounted ==
  /\ IsFiniteSet(Cached) /\ IsFiniteSet(Busy)
  /\ nodes = leaked + Cardinality(Cached) + Cardinality(Busy)
  /\ refused <= leaked

(* A query a CPU holds is held by no other and has no fate yet.            *)
Held ==
  /\ \A c \in CPUs : outpc[c] # "idle" =>
       /\ outq[c] \in started \ forwarded
       /\ \A a \in Addrs : <<outq[c], a>> \notin answers
       /\ \A d \in CPUs : outpc[d] # "idle" /\ outq[d] = outq[c] => d = c
  /\ forwarded \subseteq started
  /\ \A x \in answers : x[1] \in started

(* Without an overlap: one CPU at most is in hook_in_packets, its name is  *)
(* not in the tree, and when it links it has seen the whole tree; no node  *)
(* has leaked but refused ones; and what was answered, or is about to be,  *)
(* is still cached.                                                        *)
Alone ==
  ~ overlapped =>
    /\ \A c, d \in Busy : c = d
    /\ \A c \in Busy : inrec[c].name \notin Cached
    /\ \A c \in CPUs : inpc[c] = "link" => inseen[c] = Cached
    /\ leaked = refused
    /\ \A c \in CPUs : outpc[c] # "idle" => cache[NameOf[outq[c]]] = outaddr[c]
    /\ \A x \in answers : cache[NameOf[x[1]]] = x[2]

(* A slot is linked for a name the descent has not met.                    *)
Unseen == \A c \in CPUs : inpc[c] = "link" => inrec[c].name \notin inseen[c]

IInv == Types /\ Accounted /\ Unseen /\ Held /\ OneFate /\ Alone

-----------------------------------------------------------------------------
(* Records and the tree.                                                   *)

(* There is a response to be handled.                                      *)
LEMMA NoRecordType == NoRecord \in Record
<1>1. PICK n \in Names, a \in Addrs : TRUE
  BY DnsAssumption
<1>2. [name |-> n, isA |-> TRUE, isFour |-> TRUE, addr |-> a] \in Record
  BY DEF Record
<1> QED BY <1>2 DEF NoRecord

(* A walk sees cached names only, and all of them when nobody rebalances.  *)
LEMMA SeenCached ==
  ASSUME NEW c \in CPUs, NEW seen \in Seen(c)
  PROVE  seen \subseteq Cached /\ (~ Rebalancing(c) => seen = Cached)
BY DEF Seen

(* A name the descent has not seen is its own rival exactly when it is     *)
(* cached; a descent that has seen the whole tree has no rivals.           *)
LEMMA Gap ==
  ASSUME NEW n \in Names, NEW seen \in SUBSET Names, n \notin seen
  PROVE  /\ InGap(n, seen) \subseteq Cached
         /\ n \in InGap(n, seen) <=> n \in Cached
         /\ seen = Cached => InGap(n, seen) = {}
<1>1. \A k \in seen : k \in Nat /\ n \in Nat
  BY DnsAssumption
<1>2. \A k \in seen : ~ ((n <= k /\ k <= n) \/ (n <= k /\ k <= n))
  BY <1>1
<1>3. \A m \in Cached : (m <= m /\ m <= n) \/ (n <= m /\ m <= m)
  BY DnsAssumption DEF Cached
<1> QED BY <1>2, <1>3 DEF InGap

-----------------------------------------------------------------------------
(* The tree is empty and nobody holds anything.                            *)
LEMMA InitIInv == Init => IInv
<1> SUFFICES ASSUME Init PROVE IInv
  OBVIOUS
<1>1. Cached = {} /\ Busy = {}
  BY DEF Init, Cached, Busy
<1>2. Types
  <2>1. (CHOOSE a \in Addrs : TRUE) \in Addrs
    BY DnsAssumption
  <2>2. /\ inrec \in [CPUs -> Record] /\ outaddr \in [CPUs -> Addrs]
        /\ inpc \in [CPUs -> {"idle", "check", "descend", "link"}]
        /\ outpc \in [CPUs -> {"idle", "reply", "sending"}]
        /\ cache \in [Names -> Addrs \cup {None}]
        /\ inseen \in [CPUs -> SUBSET Names]
        /\ outq \in [CPUs -> Queries \cup {None}]
    BY <2>1, NoRecordType DEF Init
  <2>3. nodes \in 0 .. MaxNodes /\ leaked \in Nat /\ refused \in Nat
    BY DnsAssumption DEF Init
  <2> QED BY <2>2, <2>3, Zenon DEF Init, Types
<1>3. Accounted
  BY <1>1, FS_EmptySet DEF Init, Accounted
<1>4. Held /\ OneFate
  BY DEF Init, Held, OneFate
<1>5. Alone /\ Unseen
  BY <1>1 DEF Init, Alone, Unseen
<1> QED BY <1>2, <1>3, <1>4, <1>5 DEF IInv

-----------------------------------------------------------------------------
(* What a step leaves alone.                                               *)

(* The books stay balanced when no node moves.                             *)
LEMMA TreeFrame ==
  ASSUME Accounted, UNCHANGED <<cache, inpc, nodes, leaked, refused>>
  PROVE  Accounted'
<1>1. Cached' = Cached /\ Busy' = Busy
  BY DEF Cached, Busy
<1> QED BY <1>1 DEF Accounted

(* Fates are what they were when hook_out_packets does nothing.            *)
LEMMA FateFrame ==
  ASSUME Held, OneFate, UNCHANGED <<outVars, fates>>
  PROVE  Held' /\ OneFate'
BY DEF Held, OneFate, outVars, fates

-----------------------------------------------------------------------------
(* hook_in_packets.                                                        *)

(* A response for a name that was not seen brings a new node.              *)
LEMMA InSearchStep ==
  ASSUME IInv, NEW c \in CPUs, NEW r \in Record, InSearch(c, r)
  PROVE  IInv'
<1> USE DEF IInv
<1>1. PICK seen \in Seen(c) :
        \/ r.name \in seen /\ UNCHANGED <<inpc, inrec, nodes, overlapped>>
        \/ r.name \notin seen /\ Allocate(c, r)
  BY DEF InSearch
<1>2. Held' /\ OneFate'
  BY FateFrame DEF InSearch
<1>3. Cached' = Cached
  BY DEF InSearch, Cached
<1>4. CASE UNCHANGED <<inpc, inrec, nodes, overlapped>>
  <2>1. Types'
    BY <1>4, Zenon DEF InSearch, Types, outVars, fates
  <2>2. Accounted'
    BY <1>4, TreeFrame DEF InSearch
  <2>3. Alone' /\ Unseen'
    BY <1>4, <1>3 DEF InSearch, Alone, Unseen, Busy, outVars, fates
  <2> QED BY <2>1, <2>2, <2>3, <1>2
<1>5. CASE r.name \notin seen /\ Allocate(c, r)
  <2>1. /\ inpc' \in [CPUs -> {"idle", "check", "descend", "link"}]
        /\ inrec' \in [CPUs -> Record]
        /\ nodes' \in 0 .. MaxNodes
    BY <1>5, DnsAssumption DEF Allocate, Types
  <2>2. overlapped' \in BOOLEAN
    BY <1>5, Zenon DEF Allocate, Types
  <2>3. Types'
    BY <2>1, <2>2, Zenon DEF InSearch, Types, outVars, fates
  <2>4. c \notin Busy /\ Busy' = Busy \cup {c}
    BY <1>5 DEF InSearch, Idle, Allocate, Busy, Types
  <2>5. Accounted'
    <3>1. IsFiniteSet(Busy') /\ Cardinality(Busy') = Cardinality(Busy) + 1
      BY <2>4, FS_AddElement DEF Accounted
    <3>2. Cardinality(Busy) \in Nat /\ Cardinality(Cached) \in Nat
      BY FS_CardinalityType DEF Accounted
    <3> QED BY <1>3, <1>5, <3>1, <3>2 DEF Accounted, InSearch, Allocate, Types
  <2>6. ~ overlapped' => ~ overlapped /\ Busy = {}
    BY <1>5, <2>4 DEF Allocate, Busy
  <2>7. ~ overlapped' => r.name \notin Cached
    BY <1>5, <2>6, SeenCached DEF Rebalancing, Busy
  <2>8. Alone'
    <3>1. /\ \A d \in Busy' : ~ overlapped' => d = c
          /\ inrec'[c] = r
      BY <2>4, <2>6, <1>5 DEF Allocate, Types
    <3>2. \A d \in CPUs : inpc'[d] = "link" => inpc[d] = "link"
      BY <1>5 DEF Allocate, Types
    <3> QED BY <1>3, <2>6, <2>7, <3>1, <3>2 DEF InSearch, Alone, outVars, fates
  <2>9. Unseen'
    BY <1>5 DEF InSearch, Idle, Allocate, Unseen, Types
  <2> QED BY <2>3, <2>5, <2>8, <2>9, <1>2
<1> QED BY <1>1, <1>4, <1>5

(* A node that is let go is no longer with its CPU.                        *)
LEMMA LetGo ==
  ASSUME Types, Accounted, NEW c \in Busy, inpc' = [inpc EXCEPT ![c] = "idle"]
  PROVE  /\ Busy' = Busy \ {c} /\ IsFiniteSet(Busy')
         /\ Cardinality(Busy') = Cardinality(Busy) - 1
         /\ Cardinality(Busy) \in Nat /\ Cardinality(Cached) \in Nat
         /\ \A d \in CPUs : inpc'[d] = "link" => inpc[d] = "link"
<1>1. Busy' = Busy \ {c}
  BY DEF Busy, Types
<1>2. \A d \in CPUs : inpc'[d] = "link" => inpc[d] = "link"
  BY DEF Types
<1> QED BY <1>1, <1>2, FS_RemoveElement, FS_CardinalityType DEF Accounted

(* A node that goes on is still with its CPU.                              *)
LEMMA GoesOn ==
  ASSUME Types, NEW c \in Busy, NEW to \in {"descend", "link"},
         inpc' = [inpc EXCEPT ![c] = to]
  PROVE  /\ Busy' = Busy
         /\ inpc' \in [CPUs -> {"idle", "check", "descend", "link"}]
         /\ \A d \in CPUs : d # c => inpc'[d] = inpc[d]
BY DEF Busy, Types

(* A record that is refused leaks its node.                                *)
LEMMA InCheckStep ==
  ASSUME IInv, NEW c \in CPUs, InCheck(c)
  PROVE  IInv'
<1> USE DEF IInv
<1>1. Held' /\ OneFate'
  BY FateFrame DEF InCheck
<1>2. Cached' = Cached /\ c \in Busy
  BY DEF InCheck, Cached, Busy
<1>3. CASE /\ leaked' = leaked + 1 /\ refused' = refused + 1
           /\ inpc' = [inpc EXCEPT ![c] = "idle"]
  <2>1. /\ inpc' \in [CPUs -> {"idle", "check", "descend", "link"}]
        /\ leaked' \in Nat /\ refused' \in Nat
    BY <1>3 DEF Types
  <2>2. Types'
    BY <2>1, Zenon DEF InCheck, Types, outVars, fates
  <2>3. Accounted'
    <3>1. /\ IsFiniteSet(Busy') /\ Cardinality(Busy') = Cardinality(Busy) - 1
          /\ Cardinality(Busy) \in Nat /\ Cardinality(Cached) \in Nat
      BY <1>2, <1>3, LetGo
    <3> QED BY <1>2, <1>3, <3>1 DEF Accounted, InCheck, Types
  <2>4. Alone' /\ Unseen'
    BY <1>2, <1>3, LetGo DEF Alone, Unseen, InCheck, Types, outVars, fates
  <2> QED BY <2>2, <2>3, <2>4, <1>1
<1>4. CASE inpc' = [inpc EXCEPT ![c] = "descend"] /\ UNCHANGED <<leaked, refused>>
  <2>1. Busy' = Busy /\ inpc' \in [CPUs -> {"idle", "check", "descend", "link"}]
    BY <1>2, <1>4, GoesOn
  <2>2. Types'
    BY <1>4, <2>1, Zenon DEF InCheck, Types, outVars, fates
  <2>3. Accounted'
    BY <1>2, <1>4, <2>1 DEF Accounted, InCheck
  <2>4. \A d \in CPUs : inpc'[d] = "link" => inpc[d] = "link"
    BY <1>4 DEF Types
  <2>5. Alone' /\ Unseen'
    BY <1>2, <1>4, <2>1, <2>4 DEF Alone, Unseen, InCheck, outVars, fates
  <2> QED BY <2>2, <2>3, <2>5, <1>1
<1> QED BY <1>3, <1>4 DEF InCheck

(* A name found by the descent of insert leaks its node, too; that needs   *)
(* another CPU to have linked it since the search.                         *)
LEMMA InDescendStep ==
  ASSUME IInv, NEW c \in CPUs, InDescend(c)
  PROVE  IInv'
<1> USE DEF IInv
<1>1. Held' /\ OneFate'
  BY FateFrame DEF InDescend
<1>2. Cached' = Cached /\ c \in Busy
  BY DEF InDescend, Cached, Busy
<1>3. PICK seen \in Seen(c) :
       \/ /\ inrec[c].name \in seen
          /\ leaked' = leaked + 1
          /\ inpc' = [inpc EXCEPT ![c] = "idle"]
          /\ UNCHANGED inseen
       \/ /\ inrec[c].name \notin seen
          /\ inseen' = [inseen EXCEPT ![c] = seen]
          /\ inpc' = [inpc EXCEPT ![c] = "link"]
          /\ UNCHANGED leaked
  BY DEF InDescend
<1>4. seen \subseteq Cached /\ (~ Rebalancing(c) => seen = Cached)
  BY SeenCached
<1>5. CASE /\ inrec[c].name \in seen
           /\ leaked' = leaked + 1
           /\ inpc' = [inpc EXCEPT ![c] = "idle"]
           /\ UNCHANGED inseen
  <2>1. inpc' \in [CPUs -> {"idle", "check", "descend", "link"}] /\ leaked' \in Nat
    BY <1>5 DEF Types
  <2>2. Types'
    BY <1>5, <2>1, Zenon DEF InDescend, Types, outVars, fates
  <2>3. Accounted'
    <3>1. /\ IsFiniteSet(Busy') /\ Cardinality(Busy') = Cardinality(Busy) - 1
          /\ Cardinality(Busy) \in Nat /\ Cardinality(Cached) \in Nat
      BY <1>2, <1>5, LetGo
    <3> QED BY <1>2, <1>5, <3>1 DEF Accounted, InDescend, Types
  <2>4. overlapped /\ overlapped'
    BY <1>2, <1>4, <1>5 DEF Alone, InDescend
  <2>5. Alone' /\ Unseen'
    BY <1>2, <1>5, <2>4, LetGo DEF Alone, Unseen, InDescend
  <2> QED BY <2>2, <2>3, <2>5, <1>1
<1>6. CASE /\ inrec[c].name \notin seen
           /\ inseen' = [inseen EXCEPT ![c] = seen]
           /\ inpc' = [inpc EXCEPT ![c] = "link"]
           /\ UNCHANGED leaked
  <2>1. /\ Busy' = Busy /\ inpc' \in [CPUs -> {"idle", "check", "descend", "link"}]
        /\ \A d \in CPUs : d # c => inpc'[d] = inpc[d]
    BY <1>2, <1>6, GoesOn
  <2>2. inseen' \in [CPUs -> SUBSET Names]
    BY <1>4, <1>6 DEF Types, Cached
  <2>3. Types'
    BY <1>6, <2>1, <2>2, Zenon DEF InDescend, Types, outVars, fates
  <2>4. Accounted'
    BY <1>2, <1>6, <2>1 DEF Accounted, InDescend
  <2>5. ~ overlapped => seen = Cached
    <3>1. ~ overlapped => ~ Rebalancing(c)
      BY <1>2 DEF Alone, Rebalancing, Busy
    <3> QED BY <3>1, <1>4
  <2>6. /\ inseen'[c] = seen
        /\ \A d \in CPUs : d # c => inseen'[d] = inseen[d]
    BY <1>6 DEF Types
  <2>7. Alone' /\ Unseen'
    BY <1>2, <1>6, <2>1, <2>5, <2>6 DEF Alone, Unseen, InDescend, outVars, fates
  <2> QED BY <2>3, <2>4, <2>7, <1>1
<1> QED BY <1>3, <1>5, <1>6

(* What a link does to the tree: rivals go, the name comes or is kept      *)
(* away. Nothing happens to the other names, and nothing at all is lost by *)
(* a descent that saw the whole tree.                                      *)
LEMMA InLinkTree ==
  ASSUME IInv, NEW c \in CPUs, InLink(c)
  PROVE  /\ cache' \in [Names -> Addrs \cup {None}]
         /\ leaked' \in Nat
         /\ IsFiniteSet(Cached') /\ leaked <= leaked'
         /\ leaked' + Cardinality(Cached') = leaked + Cardinality(Cached) + 1
         /\ (inrec[c].name \notin Cached /\ inseen[c] = Cached) =>
              /\ leaked' = leaked
              /\ \A m \in Names \ {inrec[c].name} : cache'[m] = cache[m]
<1> DEFINE n == inrec[c].name
           rivals == InGap(n, inseen[c])
           linked == [cache EXCEPT ![n] = inrec[c].addr]
<1>1. /\ n \in Names /\ inrec[c].addr \in Addrs /\ inrec[c].addr # None
      /\ cache \in [Names -> Addrs \cup {None}] /\ leaked \in Nat
  BY DnsAssumption DEF IInv, Types, Record
<1>2. /\ rivals \subseteq Cached /\ (n \in rivals <=> n \in Cached)
      /\ inseen[c] = Cached => rivals = {}
  <2>1. inseen[c] \in SUBSET Names /\ n \notin inseen[c]
    BY DEF IInv, Types, Unseen, InLink
  <2> QED BY <1>1, <2>1, Gap
<1>3. /\ IsFiniteSet(Cached) /\ IsFiniteSet(rivals)
      /\ Cardinality(Cached) \in Nat /\ Cardinality(rivals) \in Nat
      /\ IsFiniteSet(Cached \ rivals)
      /\ Cardinality(Cached \ rivals) = Cardinality(Cached) - Cardinality(rivals)
  <2>1. IsFiniteSet(Cached) /\ IsFiniteSet(rivals)
    BY <1>2, FS_Subset DEF IInv, Accounted
  <2>2. Cached \cap rivals = rivals
    BY <1>2
  <2> QED BY <2>1, <2>2, FS_Difference, FS_CardinalityType
<1>4. /\ linked \in [Names -> Addrs \cup {None}] /\ linked[n] = inrec[c].addr
      /\ \A m \in Names \ {n} : linked[m] = cache[m]
  BY <1>1
<1>5. CASE /\ cache' = [m \in Names |-> IF m \in rivals \ {n} THEN None ELSE linked[m]]
           /\ leaked' = leaked + Cardinality(rivals)
  <2>1. cache' \in [Names -> Addrs \cup {None}]
    BY <1>4, <1>5
  <2>2. Cached' = (Cached \ rivals) \cup {n} /\ n \notin Cached \ rivals
    BY <1>1, <1>2, <1>4, <1>5 DEF Cached
  <2>3. IsFiniteSet(Cached') /\ Cardinality(Cached') = Cardinality(Cached \ rivals) + 1
    BY <1>3, <2>2, FS_AddElement
  <2>4. rivals = {} => Cardinality(rivals) = 0
    BY FS_EmptySet
  <2>5. rivals = {} => \A m \in Names \ {n} : cache'[m] = cache[m]
    BY <1>4, <1>5
  <2> QED BY <1>1, <1>2, <1>3, <1>5, <2>1, <2>3, <2>4, <2>5
<1>6. CASE n \notin rivals /\ cache' = linked /\ UNCHANGED leaked
  <2>1. Cached' = Cached \cup {n} /\ n \notin Cached
    BY <1>1, <1>2, <1>4, <1>6 DEF Cached
  <2>2. IsFiniteSet(Cached') /\ Cardinality(Cached') = Cardinality(Cached) + 1
    BY <1>3, <2>1, FS_AddElement
  <2> QED BY <1>1, <1>3, <1>4, <1>6, <2>2
<1>7. CASE rivals # {} /\ leaked' = leaked + 1 /\ UNCHANGED cache
  <2>1. Cached' = Cached
    BY <1>7 DEF Cached
  <2> QED BY <1>1, <1>2, <1>3, <1>7, <2>1
<1> QED BY <1>5, <1>6, <1>7 DEF InLink

(* A link may lose nodes of the tree, but never from the books.            *)
LEMMA InLinkStep ==
  ASSUME IInv, NEW c \in CPUs, InLink(c)
  PROVE  IInv'
<1> USE DEF IInv
<1>1. Held' /\ OneFate'
  BY FateFrame DEF InLink
<1>2. c \in Busy /\ inpc' = [inpc EXCEPT ![c] = "idle"]
  BY DEF InLink, Busy
<1>3. /\ Busy' = Busy \ {c} /\ IsFiniteSet(Busy')
      /\ Cardinality(Busy') = Cardinality(Busy) - 1
      /\ Cardinality(Busy) \in Nat /\ Cardinality(Cached) \in Nat
      /\ \A d \in CPUs : inpc'[d] = "link" => inpc[d] = "link"
  BY <1>2, LetGo
<1>4. /\ cache' \in [Names -> Addrs \cup {None}] /\ leaked' \in Nat
      /\ IsFiniteSet(Cached') /\ leaked <= leaked'
      /\ leaked' + Cardinality(Cached') = leaked + Cardinality(Cached) + 1
  BY InLinkTree
<1>5. Types'
  <2>1. inpc' \in [CPUs -> {"idle", "check", "descend", "link"}]
    BY <1>2 DEF Types
  <2> QED BY <1>4, <2>1, Zenon DEF InLink, Types, outVars, fates
<1>6. Accounted'
  <2>1. Cardinality(Cached') \in Nat
    BY <1>4, FS_CardinalityType
  <2> QED BY <1>3, <1>4, <2>1 DEF InLink, Accounted, Types
<1>7. Unseen'
  BY <1>3 DEF Unseen, InLink
<1>8. ASSUME ~ overlapped' PROVE Alone!2'
  <2>1. ~ overlapped
    BY <1>8 DEF InLink
  <2>2. /\ leaked' = leaked /\ inrec[c].name \notin Cached
        /\ \A m \in Names \ {inrec[c].name} : cache'[m] = cache[m]
    BY <1>2, <2>1, InLinkTree DEF Alone, InLink
  <2>3. Busy' = {}
    BY <1>2, <1>3, <2>1 DEF Alone
  <2>4. \A d \in CPUs : inpc'[d] # "link"
    BY <2>3 DEF Busy
  <2>5. \A m \in Cached : cache'[m] = cache[m]
    BY <2>2 DEF Cached
  <2>6. \A d \in CPUs : outpc[d] # "idle" => NameOf[outq[d]] \in Cached
    BY <2>1, DnsAssumption DEF Alone, Held, Types, Cached
  <2>7. \A x \in answers : NameOf[x[1]] \in Cached
    BY <2>1, DnsAssumption DEF Alone, Types, Cached
  <2> QED BY <2>1, <2>2, <2>3, <2>4, <2>5, <2>6, <2>7 DEF Alone, InLink, outVars, fates
<1>9. Alone'
  BY <1>8 DEF Alone
<1> QED BY <1>1, <1>5, <1>6, <1>7, <1>9

-----------------------------------------------------------------------------
(* hook_out_packets.                                                       *)

(* hook_out_packets writes nothing of the tree.                            *)
LEMMA OutFrame ==
  ASSUME IInv, UNCHANGED <<cache, inVars, nodes, leaked, refused, overlapped>>
  PROVE  Accounted' /\ Unseen' /\ Cached' = Cached /\ Busy' = Busy
<1>1. Accounted'
  BY TreeFrame DEF IInv, inVars
<1> QED BY <1>1 DEF IInv, Unseen, inVars, Cached, Busy

(* A query that is looked at for the first time is let pass, or held with  *)
(* the address that is cached.                                             *)
LEMMA OutSearchStep ==
  ASSUME IInv, NEW c \in CPUs, NEW q \in Queries, OutSearch(c, q)
  PROVE  IInv'
<1> USE DEF IInv
<1>1. Accounted' /\ Unseen' /\ Cached' = Cached /\ Busy' = Busy
  BY OutFrame DEF OutSearch
<1>2. /\ outpc[c] = "idle" /\ q \notin started /\ started' = started \cup {q}
      /\ q \notin forwarded /\ \A a \in Addrs : <<q, a>> \notin answers
      /\ \A x \in answers : x[1] # q
      /\ \A d \in CPUs : outpc[d] # "idle" => outq[d] # q
  BY DEF OutSearch, Idle, Held
<1>3. CASE forwarded' = forwarded \cup {q} /\ UNCHANGED outVars
  <2>1. started' \subseteq Queries /\ forwarded' \subseteq Queries
    BY <1>2, <1>3 DEF Types
  <2>2. Types'
    BY <1>3, <2>1, Zenon DEF OutSearch, Types, inVars, outVars
  <2>3. Held' /\ OneFate'
    BY <1>2, <1>3 DEF OutSearch, Held, OneFate, outVars
  <2>4. Alone'
    BY <1>1, <1>3 DEF OutSearch, Alone, inVars, outVars
  <2> QED BY <1>1, <2>2, <2>3, <2>4
<1>4. ASSUME NEW seen \in Seen(c), NameOf[q] \in seen,
             outq' = [outq EXCEPT ![c] = q],
             outaddr' = [outaddr EXCEPT ![c] = cache[NameOf[q]]],
             outpc' = [outpc EXCEPT ![c] = "reply"],
             UNCHANGED forwarded
      PROVE  IInv'
  <2>1. NameOf[q] \in Cached /\ cache[NameOf[q]] \in Addrs
    BY <1>4, SeenCached DEF Cached, Types
  <2>2. /\ outq' \in [CPUs -> Queries \cup {None}]
        /\ outaddr' \in [CPUs -> Addrs]
        /\ outpc' \in [CPUs -> {"idle", "reply", "sending"}]
        /\ outq'[c] = q /\ outaddr'[c] = cache[NameOf[q]] /\ outpc'[c] = "reply"
        /\ \A d \in CPUs \ {c} : /\ outq'[d] = outq[d] /\ outaddr'[d] = outaddr[d]
                                 /\ outpc'[d] = outpc[d]
    BY <1>4, <2>1 DEF Types
  <2>3. started' \subseteq Queries
    BY <1>2 DEF Types
  <2>4. Types'
    BY <1>4, <2>2, <2>3, Zenon DEF OutSearch, Types, inVars
  <2>5. Held'
    BY <1>2, <1>4, <2>2 DEF OutSearch, Held
  <2>6. OneFate'
    BY <1>4 DEF OutSearch, OneFate
  <2>7. Alone'
    BY <1>1, <2>2 DEF OutSearch, Alone, inVars
  <2> QED BY <1>1, <2>4, <2>5, <2>6, <2>7
<1> QED BY <1>3, <1>4 DEF OutSearch

(* The reply is handed over; the CPU still holds the query.                *)
LEMMA OutReplyStep ==
  ASSUME IInv, NEW c \in CPUs, OutReply(c)
  PROVE  IInv'
<1> USE DEF IInv
<1>1. Accounted' /\ Unseen' /\ Cached' = Cached /\ Busy' = Busy
  BY OutFrame DEF OutReply
<1>2. /\ outpc' \in [CPUs -> {"idle", "reply", "sending"}]
      /\ \A d \in CPUs : outpc'[d] # "idle" <=> outpc[d] # "idle"
  BY DEF OutReply, Types
<1>3. Types'
  BY <1>2, Zenon DEF OutReply, Types, inVars, fates
<1>4. Held' /\ OneFate' /\ Alone'
  BY <1>1, <1>2 DEF OutReply, Held, OneFate, Alone, inVars, fates
<1> QED BY <1>1, <1>3, <1>4

(* The query leaves its CPU and has a fate: it passes, it is answered, or  *)
(* both after a congestion notice.                                         *)
LEMMA FateStep ==
  ASSUME IInv, NEW c \in CPUs, outpc[c] # "idle", Returned(c),
         \/ Passed(c) /\ UNCHANGED <<answers, congested>>
         \/ Sent(c) /\ UNCHANGED <<forwarded, congested>>
         \/ Sent(c) /\ Passed(c) /\ congested' = congested \cup {outq[c]}
  PROVE  IInv'
<1> USE DEF IInv
<1>1. Accounted' /\ Unseen' /\ Cached' = Cached /\ Busy' = Busy
  BY OutFrame DEF Returned
<1>2. /\ outq[c] \in Queries /\ outq[c] \in started \ forwarded
      /\ outaddr[c] \in Addrs
      /\ \A a \in Addrs : <<outq[c], a>> \notin answers
      /\ \A d \in CPUs : outpc[d] # "idle" /\ outq[d] = outq[c] => d = c
  BY DEF Held, Types
<1>3. /\ outpc' \in [CPUs -> {"idle", "reply", "sending"}]
      /\ outq' \in [CPUs -> Queries \cup {None}]
      /\ outpc'[c] = "idle"
      /\ \A d \in CPUs \ {c} : outpc'[d] = outpc[d] /\ outq'[d] = outq[d]
  BY DEF Returned, Types
<1>4. /\ forwarded \subseteq forwarded' /\ forwarded' \subseteq forwarded \cup {outq[c]}
      /\ answers' \subseteq answers \cup {<<outq[c], outaddr[c]>>}
      /\ congested' \subseteq Queries
  BY <1>2 DEF Passed, Sent, Types
<1>5. Types'
  <2>1. forwarded' \subseteq Queries /\ answers' \subseteq Queries \X Addrs
    BY <1>2, <1>4 DEF Types
  <2> QED BY <1>3, <1>4, <2>1, Zenon DEF Returned, Types, inVars
<1>6. Held'
  <2>1. \A x \in answers' : x \in answers \/ x[1] = outq[c]
    BY <1>4
  <2>2. \A d \in CPUs \ {c}, a \in Addrs : outpc[d] # "idle" =>
          <<outq[d], a>> \notin answers'
    BY <1>2, <1>4 DEF Held
  <2> QED BY <1>2, <1>3, <1>4, <2>1, <2>2 DEF Held, Returned
<1>7. OneFate'
  <2>1. \A q \in forwarded, a \in Addrs : <<q, a>> \in answers' => <<q, a>> \in answers
    BY <1>2, <1>4
  <2>2. congested \subseteq congested'
    OBVIOUS
  <2>3. outq[c] \in forwarded' /\ (\E a \in Addrs : <<outq[c], a>> \in answers')
          => outq[c] \in congested'
    BY <1>2 DEF Passed, Sent
  <2> QED BY <1>4, <2>1, <2>2, <2>3 DEF OneFate
<1>8. Alone'
  <2>1. \A x \in answers' : x \in answers \/ (x[1] = outq[c] /\ x[2] = outaddr[c])
    BY <1>4
  <2> QED BY <1>1, <1>3, <2>1 DEF Alone, Returned, inVars
<1> QED BY <1>1, <1>5, <1>6, <1>7, <1>8

-----------------------------------------------------------------------------
(* Every step keeps the books, the fates and, alone, the tree.             *)
LEMMA NextIInv == IInv /\ [Next]_vars => IInv'
<1> SUFFICES ASSUME IInv, [Next]_vars PROVE IInv'
  OBVIOUS
<1>1. ASSUME NEW c \in CPUs, OutNoMemory(c) PROVE IInv'
  <2>1. /\ outpc[c] # "idle" /\ Returned(c)
        /\ Passed(c) /\ UNCHANGED <<answers, congested>>
    BY <1>1 DEF OutNoMemory, Returned, Passed
  <2> QED BY <2>1, FateStep
<1>2. ASSUME NEW c \in CPUs, OutDone(c) PROVE IInv'
  <2>1. /\ outpc[c] # "idle" /\ Returned(c)
        /\ \/ Passed(c) /\ UNCHANGED <<answers, congested>>
           \/ Sent(c) /\ UNCHANGED <<forwarded, congested>>
           \/ Sent(c) /\ Passed(c) /\ congested' = congested \cup {outq[c]}
    BY <1>2 DEF OutDone
  <2> QED BY <2>1, FateStep
<1>3. CASE UNCHANGED vars
  BY <1>3 DEF vars, inVars, outVars, fates, IInv, Types, Accounted, Unseen, Held,
     OneFate, Alone, Cached, Busy
<1> QED BY <1>1, <1>2, <1>3, InSearchStep, InCheckStep, InDescendStep, InLinkStep,
           OutSearchStep, OutReplyStep DEF Next

(* In every reachable state each node is accounted for, each held query    *)
(* has no fate, and without an overlap the tree has lost nothing.          *)
THEOREM Invariance == Spec => []IInv
BY InitIInv, NextIInv, PTL DEF Spec

(* The variables have their types; a reply is built only from an address   *)
(* that was in the tree, and never more nodes leak than were allocated.    *)
THEOREM TypeCorrect == Spec => []TypeOK
<1>1. IInv => TypeOK
  <2> SUFFICES ASSUME IInv PROVE TypeOK
    OBVIOUS
  <2>1. Cardinality(Cached) \in Nat /\ Cardinality(Busy) \in Nat
    BY FS_CardinalityType DEF IInv, Accounted
  <2>2. leaked \in 0 .. nodes /\ refused \in 0 .. nodes
    BY <2>1, DnsAssumption DEF IInv, Accounted, Types
  <2> QED BY <2>2, Zenon DEF IInv, Types, TypeOK
<1> QED BY <1>1, Invariance, PTL

(* On any number of CPUs a query is answered or passed on, never both,     *)
(* unless its reply met congestion.                                        *)
THEOREM FatesExclusive == Spec => []OneFate
<1>1. IInv => OneFate
  BY DEF IInv
<1> QED BY <1>1, Invariance, PTL

(* Without an overlap in hook_in_packets all answers for a name agree.     *)
THEOREM OneAddressPerName == Spec => []AnswersAgree
<1>1. IInv => AnswersAgree
  BY DEF IInv, Alone, AnswersAgree
<1> QED BY <1>1, Invariance, PTL

(* Without an overlap only the nodes of refused records leak.              *)
THEOREM OnlyRefusedLeak == Spec => []LeaksNeedOverlap
<1>1. IInv => LeaksNeedOverlap
  BY DEF IInv, Types, Alone, LeaksNeedOverlap
<1> QED BY <1>1, Invariance, PTL

(* Without an overlap a cached address stays for ever.                     *)
THEOREM CacheNeverForgets == Spec => CacheStable
<1>1. ASSUME IInv, [Next]_vars
      PROVE  [~ overlapped' => \A n \in Cached : cache'[n] = cache[n]]_vars
  <2>1. ASSUME NEW c \in CPUs, InLink(c), ~ overlapped'
        PROVE  \A n \in Cached : cache'[n] = cache[n]
    <3>1. inrec[c].name \notin Cached /\ inseen[c] = Cached
      BY <1>1, <2>1 DEF InLink, IInv, Alone, Busy
    <3> QED BY <1>1, <2>1, <3>1, InLinkTree DEF Cached
  <2>2. cache' = cache \/ \E c \in CPUs : InLink(c)
    BY <1>1 DEF Next, InSearch, InCheck, InDescend, OutSearch, OutNoMemory, OutReply,
       OutDone, Returned, vars
  <2> QED BY <2>1, <2>2
<1> QED BY <1>1, Invariance, PTL DEF Spec, CacheStable

-----------------------------------------------------------------------------
(* The proxy implements DnsService.                                        *)

(* What a query is to be answered with is with the one CPU that holds it.  *)
DueRight ==
  \A q \in Queries :
    /\ \A c \in CPUs : Holds(c, q) => Due[q] = outaddr[c]
    /\ (\A c \in CPUs : ~ Holds(c, q)) => Due[q] = None

LEMMA DueIs == IInv => DueRight
<1> SUFFICES ASSUME IInv, NEW q \in Queries
             PROVE  /\ \A c \in CPUs : Holds(c, q) => Due[q] = outaddr[c]
                    /\ (\A c \in CPUs : ~ Holds(c, q)) => Due[q] = None
  BY DEF DueRight
<1>1. Due[q] = IF \E c \in CPUs : Holds(c, q)
               THEN outaddr[CHOOSE c \in CPUs : Holds(c, q)] ELSE None
  BY DEF Due
<1>2. ASSUME NEW c \in CPUs, Holds(c, q) PROVE Due[q] = outaddr[c]
  <2>1. \A d \in CPUs : Holds(d, q) => d = c
    BY <1>2 DEF Holds, IInv, Held
  <2>2. (CHOOSE d \in CPUs : Holds(d, q)) = c
    BY <1>2, <2>1
  <2> QED BY <1>1, <1>2, <2>2
<1> QED BY <1>1, <1>2

LEMMA DueIsNext == IInv' => DueRight'
BY DueIs, PTL

(* A step that concerns one query leaves the others with their CPUs.       *)
LEMMA OneDueMoves ==
  ASSUME IInv, IInv', NEW x \in Queries,
         \A q \in Queries \ {x}, c \in CPUs :
           /\ Holds(c, q)' <=> Holds(c, q)
           /\ Holds(c, q) => outaddr'[c] = outaddr[c]
  PROVE  \A a : Due'[x] = a => Due' = [Due EXCEPT ![x] = a]
<1>1. /\ Due = [q \in Queries |-> Due[q]] /\ Due' = [q \in Queries |-> Due'[q]]
  BY DEF Due
<1>2. DueRight /\ DueRight'
  BY DueIs, DueIsNext
<1>3. ASSUME NEW q \in Queries \ {x} PROVE Due'[q] = Due[q]
  <2>1. CASE \A c \in CPUs : ~ Holds(c, q)
    BY <1>2, <1>3, <2>1 DEF DueRight
  <2>2. CASE \E c \in CPUs : Holds(c, q)
    <3>1. PICK c \in CPUs : Holds(c, q)
      BY <2>2
    <3>2. Holds(c, q)' /\ outaddr'[c] = outaddr[c]
      BY <1>3, <3>1
    <3>3. Due[q] = outaddr[c] /\ Due'[q] = outaddr'[c]
      BY <1>2, <1>3, <3>1, <3>2 DEF DueRight
    <3> QED BY <3>2, <3>3
  <2> QED BY <2>1, <2>2
<1> QED BY <1>1, <1>3

LEMMA NoDueMoves ==
  ASSUME IInv, IInv', UNCHANGED outaddr,
         \A q \in Queries, c \in CPUs : Holds(c, q)' <=> Holds(c, q)
  PROVE  Due' = Due
<1>1. /\ Due = [q \in Queries |-> Due[q]] /\ Due' = [q \in Queries |-> Due'[q]]
  BY DEF Due
<1>2. ASSUME NEW x \in Queries PROVE Due'[x] = Due[x]
  <2>1. DueRight /\ DueRight'
    BY DueIs, DueIsNext
  <2>2. CASE \A c \in CPUs : ~ Holds(c, x)
    BY <2>1, <2>2 DEF DueRight
  <2>3. CASE \E c \in CPUs : Holds(c, x)
    <3>1. PICK c \in CPUs : Holds(c, x)
      BY <2>3
    <3> QED BY <2>1, <3>1 DEF DueRight
  <2> QED BY <2>2, <2>3
<1> QED BY <1>1, <1>2

LEMMA FatesAre ==
  /\ Fates = [q \in Queries |-> Fate(q)] /\ \A q \in Queries : Fates[q] = Fate(q)
  /\ Fates' = [q \in Queries |-> Fate(q)']
BY DEF Fates

(* A query leaves its CPU: its fate alone is decided.                      *)
LEMMA OneFateMoves ==
  ASSUME NEW x \in Queries,
         \A q \in Queries \ {x} :
           /\ q \in started' <=> q \in started
           /\ q \in forwarded' <=> q \in forwarded
           /\ q \in congested' <=> q \in congested
           /\ \A a \in Addrs : <<q, a>> \in answers' <=> <<q, a>> \in answers
  PROVE  Fates' = [Fates EXCEPT ![x] = Fate(x)']
<1>1. \A q \in Queries \ {x} : Fate(q)' = Fate(q)
  BY DEF Fate, Answered
<1> QED BY <1>1, FatesAre

LEMMA NoFateMoves == UNCHANGED fates => Fates' = Fates
<1> SUFFICES ASSUME UNCHANGED fates PROVE Fates' = Fates
  OBVIOUS
<1>1. \A q \in Queries : Fate(q)' = Fate(q)
  BY DEF Fate, Answered, fates
<1> QED BY <1>1, FatesAre

(* insert: a name is learnt.                                               *)
LEMMA LearnService ==
  ASSUME IInv, IInv', NEW c \in CPUs, InLink(c)
  PROVE  Service!Next
<1> DEFINE n == inrec[c].name
           a == inrec[c].addr
           rivals == InGap(n, inseen[c])
<1>1. n \in Names /\ a \in Addrs /\ inseen[c] \in SUBSET Names /\ cache \in [Names -> Addrs \cup {None}]
  BY DEF IInv, Types, Record
<1>2. Fates' = Fates /\ Due' = Due /\ UNCHANGED <<answers, overlapped>>
  <2>1. UNCHANGED outVars
    BY DEF InLink
  <2> QED BY <2>1, NoFateMoves, NoDueMoves DEF InLink, fates, outVars, Holds
<1>3. ~ overlapped => cache[n] = None /\ rivals = {}
  <2>1. n \notin inseen[c]
    BY DEF InLink, IInv, Unseen
  <2> QED BY <1>1, <2>1, Gap DEF InLink, IInv, Alone, Busy, Cached
<1>5. CASE cache' = cache
  BY <1>2, <1>5 DEF Service!Next
<1>6. ASSUME NEW others \in SUBSET rivals,
             cache' = [m \in Names |-> IF m = n THEN a ELSE IF m \in others THEN None ELSE cache[m]]
      PROVE  Service!Next
  <2>1. others \in SUBSET Names
    BY DEF InGap, Cached
  <2>2. Service!Learn(n, a, others)
    BY <1>2, <1>3, <1>6 DEF Service!Learn
  <2> QED BY <1>1, <1>2, <2>1, <2>2 DEF Service!Next
<1>7. CASE cache' = [m \in Names |-> IF m \in rivals \ {n} THEN None
                                     ELSE [cache EXCEPT ![n] = a][m]]
  <2>1. cache' = [m \in Names |-> IF m = n THEN a ELSE IF m \in rivals \ {n} THEN None ELSE cache[m]]
    BY <1>1, <1>7
  <2> QED BY <1>6, <2>1
<1>8. CASE cache' = [cache EXCEPT ![n] = a]
  <2>1. PICK none \in SUBSET rivals : none = {}
    OBVIOUS
  <2>2. cache' = [m \in Names |-> IF m = n THEN a ELSE IF m \in none THEN None ELSE cache[m]]
    BY <1>1, <1>8, <2>1
  <2> QED BY <1>6, <2>2
<1> QED BY <1>5, <1>7, <1>8 DEF InLink

(* A query reaches hook_out_packets: it passes or is held for a known name.*)
LEMMA SearchService ==
  ASSUME IInv, IInv', NEW c \in CPUs, NEW x \in Queries, OutSearch(c, x)
  PROVE  Service!Next
<1>1. /\ UNCHANGED <<cache, answers, congested, overlapped>> /\ x \notin started
      /\ started' = started \cup {x}
  BY DEF OutSearch
<1>2. Fate(x) = "new" /\ ~ Answered(x) /\ x \notin forwarded
  BY <1>1 DEF Fate, Answered, IInv, Held
<1>0. DueRight /\ DueRight'
  BY DueIs, DueIsNext
<1>3. CASE forwarded' = forwarded \cup {x} /\ UNCHANGED outVars
  <2>1. Fate(x)' = "passed"
    BY <1>1, <1>2, <1>3 DEF Fate, Answered
  <2>2. Due' = Due /\ Due' = [Due EXCEPT ![x] = None]
    <3>1. \A d \in CPUs : ~ Holds(d, x)
      BY <1>1 DEF IInv, Held, Holds
    <3>2. Due' = Due
      BY <1>3, NoDueMoves DEF outVars, Holds
    <3>3. Due[x] = None /\ Due = [q \in Queries |-> Due[q]]
      BY <1>0, <3>1 DEF DueRight, Due
    <3> QED BY <3>2, <3>3
  <2>3. Service!Pass(x)
    BY <1>1, <1>2, <1>3, <2>1, <2>2, OneFateMoves, FatesAre DEF Service!Pass, Service!Settle
  <2> QED BY <1>1, <2>3 DEF Service!Next
<1>4. CASE /\ UNCHANGED forwarded /\ \E seen \in Seen(c) : NameOf[x] \in seen
           /\ outq' = [outq EXCEPT ![c] = x]
           /\ outaddr' = [outaddr EXCEPT ![c] = cache[NameOf[x]]]
           /\ outpc' = [outpc EXCEPT ![c] = "reply"]
  <2>1. Fate(x)' = "held"
    BY <1>1, <1>2, <1>4 DEF Fate, Answered
  <2>2. cache[NameOf[x]] # None
    BY <1>4, SeenCached DEF Cached
  <2>3. Due' = [Due EXCEPT ![x] = cache[NameOf[x]]]
    <3>1. /\ outpc[c] = "idle" /\ outpc'[c] = "reply" /\ outq'[c] = x
          /\ outaddr'[c] = cache[NameOf[x]]
          /\ \A d \in CPUs \ {c} : /\ outpc'[d] = outpc[d] /\ outq'[d] = outq[d]
                                   /\ outaddr'[d] = outaddr[d]
      BY <1>4 DEF OutSearch, Idle, IInv, Types
    <3>2. Due'[x] = cache[NameOf[x]]
      BY <1>0, <3>1 DEF DueRight, Holds
    <3>3. \A q \in Queries \ {x}, d \in CPUs :
            /\ Holds(d, q)' <=> Holds(d, q)
            /\ Holds(d, q) => outaddr'[d] = outaddr[d]
      BY <3>1 DEF Holds
    <3> QED BY <3>2, <3>3, OneDueMoves
  <2>4. Service!Hold(x)
    BY <1>1, <1>2, <1>4, <2>1, <2>2, <2>3, OneFateMoves, FatesAre
       DEF Service!Hold, Service!Settle
  <2> QED BY <1>1, <2>4 DEF Service!Next
<1> QED BY <1>3, <1>4 DEF OutSearch

(* A held query is answered or passed on.                                  *)
LEMMA FateService ==
  ASSUME IInv, IInv', NEW c \in CPUs, OutNoMemory(c) \/ OutDone(c)
  PROVE  Service!Next
<1>1. /\ outpc[c] # "idle" /\ UNCHANGED <<cache, started, overlapped>>
      /\ \/ Passed(c) /\ UNCHANGED <<answers, congested>>
         \/ Sent(c) /\ UNCHANGED <<forwarded, congested>>
         \/ Sent(c) /\ Passed(c) /\ congested' = congested \cup {outq[c]}
  BY DEF OutNoMemory, OutDone, Returned, Passed
<1>2. /\ outq[c] \in Queries /\ outq[c] \in started \ forwarded /\ outaddr[c] \in Addrs
      /\ \A a \in Addrs : <<outq[c], a>> \notin answers
      /\ \A d \in CPUs : outpc[d] # "idle" /\ outq[d] = outq[c] => d = c
      /\ ~ overlapped => outaddr[c] = cache[NameOf[outq[c]]]
  BY <1>1 DEF IInv, Types, Held, Alone
<1>3. PICK x \in Queries : x = outq[c]
  BY <1>2
<1>4. PICK a \in Addrs : a = outaddr[c]
  BY <1>2
<1>5. Fate(x) = "held"
  BY <1>2, <1>3 DEF Fate, Answered
<1>6. Fates' = [Fates EXCEPT ![x] = Fate(x)']
  BY <1>1, <1>3, OneFateMoves DEF Passed, Sent
<1>9. Due[x] = a /\ Due' = [Due EXCEPT ![x] = None]
  <2>1. /\ UNCHANGED outaddr /\ outpc'[c] = "idle"
        /\ \A d \in CPUs \ {c} : outpc'[d] = outpc[d] /\ outq'[d] = outq[d]
    BY DEF OutNoMemory, OutDone, Returned, IInv, Types
  <2>2. DueRight /\ DueRight'
    BY DueIs, DueIsNext
  <2>3. Due[x] = a
    BY <1>1, <1>3, <1>4, <2>2 DEF DueRight, Holds
  <2>4. \A d \in CPUs : ~ Holds(d, x)'
    BY <1>1, <1>2, <1>3, <2>1 DEF Holds
  <2>5. Due'[x] = None
    BY <2>2, <2>4 DEF DueRight
  <2>6. \A q \in Queries \ {x}, d \in CPUs : Holds(d, q)' <=> Holds(d, q)
    BY <1>1, <1>3, <2>1 DEF Holds
  <2> QED BY <2>1, <2>3, <2>5, <2>6, OneDueMoves
<1>7. CASE Passed(c) /\ UNCHANGED <<answers, congested>>
  <2>1. Fate(x)' = "passed"
    BY <1>2, <1>3, <1>7 DEF Fate, Answered, Passed
  <2>2. Service!Pass(x)
    BY <1>1, <1>5, <1>6, <1>7, <1>9, <2>1, FatesAre DEF Service!Pass, Service!Settle
  <2> QED BY <1>1, <2>2 DEF Service!Next
<1>8. CASE Sent(c) /\ (UNCHANGED <<forwarded, congested>>
                       \/ (Passed(c) /\ congested' = congested \cup {outq[c]}))
  <2>1. Fate(x)' \in {"answered", "congested"}
    BY <1>2, <1>3, <1>4, <1>8 DEF Fate, Answered, Passed, Sent
  <2>2. answers' = answers \cup {<<x, a>>} /\ (~ overlapped => a = cache[NameOf[x]])
    BY <1>2, <1>3, <1>4, <1>8 DEF Sent
  <2>3. Service!Answer(x)
    BY <1>1, <1>5, <1>6, <1>9, <2>1, <2>2, FatesAre DEF Service!Answer, Service!Settle
  <2> QED BY <1>1, <2>3 DEF Service!Next
<1> QED BY <1>1, <1>7, <1>8

LEMMA InitService == Init => Service!Init
<1> SUFFICES ASSUME Init PROVE Service!Init
  OBVIOUS
<1>1. Fates = [q \in Queries |-> "new"]
  BY DEF Init, Fates, Fate, Answered
<1>2. Due = [q \in Queries |-> None]
  BY DEF Init, Due, Holds
<1> QED BY <1>1, <1>2 DEF Init, Service!Init

LEMMA NextService ==
  ASSUME IInv, IInv', [Next]_vars
  PROVE  [Service!Next]_(Service!vars)
<1>1. ASSUME UNCHANGED <<cache, outq, outaddr, fates>>, overlapped => overlapped',
             \A c \in CPUs : outpc'[c] # "idle" <=> outpc[c] # "idle"
      PROVE  Service!Next
  <2>1. Due' = Due
    BY <1>1, NoDueMoves DEF Holds
  <2> QED BY <1>1, <2>1, NoFateMoves DEF Service!Next, fates
<1>2. ASSUME NEW c \in CPUs, NEW r \in Record, InSearch(c, r) PROVE Service!Next
  <2>1. UNCHANGED <<cache, outVars, fates>>
    BY <1>2 DEF InSearch
  <2>2. overlapped => overlapped'
    BY <1>2, Zenon DEF InSearch, Allocate
  <2> QED BY <1>1, <2>1, <2>2 DEF outVars
<1>3. ASSUME NEW c \in CPUs, InCheck(c) \/ InDescend(c) PROVE Service!Next
  BY <1>1, <1>3 DEF InCheck, InDescend, outVars
<1>5. ASSUME NEW c \in CPUs, OutReply(c) PROVE Service!Next
  <2>1. \A d \in CPUs : outpc'[d] # "idle" <=> outpc[d] # "idle"
    BY <1>5 DEF OutReply, IInv, Types
  <2> QED BY <1>1, <1>5, <2>1 DEF OutReply
<1>4. CASE UNCHANGED vars
  BY <1>1, <1>4 DEF vars, outVars
<1> QED BY <1>2, <1>3, <1>4, <1>5, LearnService, SearchService, FateService DEF Next

(* For every number of CPUs, names, queries and nodes, and whatever arrives*)
(* from port 53: a query is answered or passed on, an answer is the address*)
(* that was cached when the query came, and in calm nothing cached is lost *)
(* or changed.                                                             *)
THEOREM Refinement == Spec => ImplementsDns
<1>1. IInv /\ IInv' /\ [Next]_vars => [Service!Next]_(Service!vars)
  BY NextService
<1> QED BY <1>1, InitService, Invariance, PTL DEF Spec, ImplementsDns, Service!Spec
=============================================================================
