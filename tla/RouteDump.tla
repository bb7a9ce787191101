----------------------------- MODULE RouteDump -----------------------------
(***************************************************************************)
(* netlink_recv.c of core/netlinkdev/netlink_rt: asks the kernel for its   *)
(* routes and prints a row for each route of the main table. The request   *)
(* ends before its family (gen, line 152), so whatever lies behind it on   *)
(* the stack decides which dump the kernel sends: any of Dumps.            *)
(***************************************************************************)
EXTENDS Naturals, Sequences, FiniteSets

CONSTANTS
  Dumps,  \* the dumps the kernel may send, each a sequence of datagrams
  Values, \* what an attribute may hold
  Junk    \* what an uninitialised field holds

Fields == {"dst", "gateway", "oif", "src"}

(* main: the route is in RT_TABLE_MAIN. An attribute is <<field, value>>.  *)
Message == [type : Nat, main : BOOLEAN, attrs : Seq(STRING \X Values)]

ASSUME RouteAssumption == Dumps \subseteq Seq(Seq(Message)) \ {<<>>}

VARIABLES
  dump,      \* what the kernel has still to send
  rpcs,      \* "recvmsg", "message", "attr", "over"
  msgs,      \* reply_msg: the rest of the datagram, from msg_ptr on
  attrs,     \* print_route: the rest of the attributes, from rt_attr on
  rt_info,   \* its stack frame: the next call finds what this one leaves
  table      \* the rows printed

routeVars == <<dump, rpcs, msgs, attrs, rt_info, table>>

RouteInit ==
  /\ dump \in Dumps /\ rpcs = "recvmsg"
  /\ msgs = <<>> /\ attrs = <<>> /\ table = <<>>
  /\ rt_info = [f \in Fields |-> Junk]

(* One recvmsg, hence one datagram, or an error.                           *)
RecvDump ==
  /\ rpcs = "recvmsg"
  /\ \/ rpcs' = "message" /\ msgs' = Head(dump)
     \/ rpcs' = "over" /\ UNCHANGED msgs
  /\ UNCHANGED <<dump, attrs, rt_info, table>>

(* Mutant: the table is not looked at.                                     *)
EnterAnyRoute ==
  /\ rpcs = "message" /\ msgs # <<>>
  /\ IF Head(msgs).type = 24
     THEN rpcs' = "attr" /\ attrs' = Head(msgs).attrs /\ UNCHANGED msgs
     ELSE UNCHANGED <<rpcs, attrs>> /\ msgs' = Tail(msgs)
  /\ UNCHANGED <<dump, rt_info, table>>

(* The switch of reply_msg, and print_route up to its loop. rt_info is not *)
(* cleared: its frame lies where the last call left it, unless a printf of *)
(* reply_msg has used the memory in between.                               *)
EnterRoute ==
  /\ rpcs = "message" /\ msgs # <<>>
  /\ IF Head(msgs).type = 24 /\ Head(msgs).main
     THEN rpcs' = "attr" /\ attrs' = Head(msgs).attrs
          /\ UNCHANGED <<msgs, rt_info>>
     ELSE /\ UNCHANGED <<rpcs, attrs>> /\ msgs' = Tail(msgs)
          /\ rt_info' \in IF Head(msgs).type \in {3, 16, 24} THEN {rt_info}
                          ELSE {rt_info, [f \in Fields |-> Junk]}
  /\ UNCHANGED <<dump, table>>

(* The loop over the attributes; others than these four are passed over.   *)
(* if_indextoname writes nothing for an interface that is gone.            *)
ReadAttr ==
  /\ rpcs = "attr" /\ attrs # <<>> /\ attrs' = Tail(attrs)
  /\ \/ rt_info' = [f \in Fields |->
                      IF f = attrs[1][1] THEN attrs[1][2] ELSE rt_info[f]]
     \/ attrs[1][1] = "oif" /\ UNCHANGED rt_info
  /\ UNCHANGED <<dump, rpcs, msgs, table>>

PrintRow ==
  /\ rpcs = "attr" /\ attrs = <<>> /\ rpcs' = "message"
  /\ table' = Append(table, rt_info) /\ msgs' = Tail(msgs)
  /\ UNCHANGED <<dump, attrs, rt_info>>

ExitRoutes ==
  /\ rpcs = "message" /\ msgs = <<>> /\ rpcs' = "over"
  /\ UNCHANGED <<dump, msgs, attrs, rt_info, table>>

RouteNext ==
  RecvDump \/ EnterRoute \/ ReadAttr \/ PrintRow \/ ExitRoutes

-----------------------------------------------------------------------------
RouteSpec == RouteInit /\ [][RouteNext]_routeVars

MainRoutes == {n \in DOMAIN Head(dump) : Head(dump)[n].type = 24 /\ Head(dump)[n].main}

(* The row that shows the n-th message, and what it shows beyond the       *)
(* route's own values: the row above, or junk.                             *)
Row(n) == Cardinality({j \in MainRoutes : j <= n})
Above(i, f) == {Junk} \cup {table[j][f] : j \in {i - 1} \ {0}}

Own(m, f) == {m.attrs[i][2] : i \in {j \in DOMAIN m.attrs : m.attrs[j][1] = f}}

(* The rows are the main routes of the first datagram, in order, and no    *)
(* others: a longer table is cut off. A field is the route's own where it  *)
(* has one; where it has none (the destination of a default route), or its *)
(* interface is gone, the row above shows through, or junk.                *)
RowsAreRoutes ==
  /\ Len(table) <= Cardinality(MainRoutes)
  /\ rpcs = "over" => Len(table) \in {0, Cardinality(MainRoutes)}
  /\ \A n \in MainRoutes, f \in Fields :
       LET own == Own(Head(dump)[n], f)
       IN  Row(n) <= Len(table) =>
             table[Row(n)][f] \in IF own # {} /\ f # "oif" THEN own
                                 ELSE own \cup Above(Row(n), f)
=============================================================================
