----------------------------- MODULE MCPrograms -----------------------------
(***************************************************************************)
(* The smaller programs, which share nothing, in one state space: a        *)
(* behaviour is one of a single program, and the variables of the others   *)
(* keep their initial values.                                              *)
(***************************************************************************)
EXTENDS ProcDev, StreamPairs, UdpPairs, Netlink, RouteDump, Packets, TLC

VARIABLE program

AllPairs == {"tcp", "sctp", "pipe"}
AllKinds == {"echo", "time", "raw", "broadcast"}
AllMakers == {"raw", "kping", "ping", "other"}
MCTotals == {1, 1239, 65535, 65536, 131071, 65535 * 29}
MCGarbage == {0, 1, 1238, 65534, 65535}

(* A full route, a default route, one of another table, and other messages.*)
Route(t, m, fs) == [type |-> t, main |-> m,
                    attrs |-> [i \in DOMAIN fs |-> <<fs[i][1], fs[i][2]>>]]
Full == Route(24, TRUE, << <<"table", "t">>, <<"dst", "a">>, <<"src", "b">>, <<"oif", "c">> >>)
Default == Route(24, TRUE, << <<"gateway", "d">>, <<"oif", "e">> >>)
Local == Route(24, FALSE, << <<"dst", "f">>, <<"oif", "g">> >>)
Done == Route(3, FALSE, <<>>)
Odd == Route(2, FALSE, <<>>)
MCValues == {"a", "b", "c", "d", "e", "f", "g", "t"}
MCDumps == { << <<Full, Local, Default>>, <<Full, Done>> >>,
             << <<Default, Odd, Default, Full, Done>> >>, << <<Odd>> >> }

allVars == <<program, procVars, streamVars, udpVars, netlinkVars, routeVars,
             packetVars>>

(* A program that does not run starts in one of its initial states.        *)
ProgramsInit ==
  /\ program \in {"procfs", "streams", "udp", "netlink", "routes", "packets"}
  /\ ProcInit /\ (program # "procfs" => present)
  /\ StreamInit /\ (program # "streams" => pair = "tcp")
  /\ UdpInit /\ (program # "udp" => kind = "raw" /\ blocked /\ hooked)
  /\ NetlinkInit
  /\ program # "netlink" => loaded /\ pid = CHOOSE f \in [Users -> Pids] : TRUE
  /\ RouteInit /\ (program # "routes" => dump = << <<Odd>> >>)
  /\ PacketInit /\ (program # "packets" => maker = "raw" /\ header = 1)

ProgramsNext ==
  \/ /\ program = "procfs" /\ ProcNext
     /\ UNCHANGED <<program, streamVars, udpVars, netlinkVars, routeVars, packetVars>>
  \/ /\ program = "streams" /\ StreamNext
     /\ UNCHANGED <<program, procVars, udpVars, netlinkVars, routeVars, packetVars>>
  \/ /\ program = "udp" /\ UdpNext
     /\ UNCHANGED <<program, procVars, streamVars, netlinkVars, routeVars, packetVars>>
  \/ /\ program = "netlink" /\ NetlinkNext
     /\ UNCHANGED <<program, procVars, streamVars, udpVars, routeVars, packetVars>>
  \/ /\ program = "routes" /\ RouteNext
     /\ UNCHANGED <<program, procVars, streamVars, udpVars, netlinkVars, packetVars>>
  \/ /\ program = "packets" /\ PacketNext
     /\ UNCHANGED <<program, procVars, streamVars, udpVars, netlinkVars, routeVars>>

(* Processes that are not killed go on, and a datagram is delivered or     *)
(* lost at some time. Opening a file, loading, stopping and killing are    *)
(* choices of somebody else.                                               *)
ProgramsFairness ==
  /\ \A r \in Readers : WF_allVars(program = "procfs" /\ ReaderStep(r)
        /\ UNCHANGED <<program, streamVars, udpVars, netlinkVars, routeVars, packetVars>>)
  /\ WF_allVars(program = "streams" /\ SenderStep
        /\ UNCHANGED <<program, procVars, udpVars, netlinkVars, routeVars, packetVars>>)
  /\ WF_allVars(program = "streams" /\ ReceiverStep
        /\ UNCHANGED <<program, procVars, udpVars, netlinkVars, routeVars, packetVars>>)
  /\ WF_allVars(program = "udp" /\ ClientStep
        /\ UNCHANGED <<program, procVars, streamVars, netlinkVars, routeVars, packetVars>>)
  /\ WF_allVars(program = "udp" /\ ServerStep
        /\ UNCHANGED <<program, procVars, streamVars, netlinkVars, routeVars, packetVars>>)
  /\ \A l \in Links : WF_allVars(program = "udp" /\ (Deliver(l) \/ Lose(l))
        /\ UNCHANGED <<program, procVars, streamVars, netlinkVars, routeVars, packetVars>>)
  /\ \A u \in Users : WF_allVars(program = "netlink" /\ UserStep(u)
        /\ UNCHANGED <<program, procVars, streamVars, udpVars, routeVars, packetVars>>)

ProgramsSpec == ProgramsInit /\ [][ProgramsNext]_allVars /\ ProgramsFairness
=============================================================================
