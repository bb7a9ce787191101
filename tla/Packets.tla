------------------------------- MODULE Packets -------------------------------
(***************************************************************************)
(* One IPv4 packet and its checksums, from the program that makes it over  *)
(* the wire to the ones that look at it:                                   *)
(*   raw   client_udp of raw_socket/main.c, checksum() of utils.c          *)
(*   kping create_packet of core/netfilter/ping/kernel_ping.c              *)
(*   ping  the echo request of ping/main.c and of traceroute/main.c        *)
(*   other any packet of another host                                      *)
(* The kernel completes what the first three send. sniffer/main.c shows    *)
(* the packet, and the host it is for answers an echo request. A header or *)
(* a message is the sum of its 16-bit words apart from the checksum field, *)
(* which is all that the checksums depend on.                              *)
(***************************************************************************)
EXTENDS Integers

CONSTANTS
  Makers,  \* who makes packets
  Totals,  \* sums of the words of a header or message without its checksum
  Garbage  \* what a word holds that nobody has set

ASSUME PacketsAssumption ==
  /\ \A n \in Totals : n \in Nat /\ n > 0 /\ n <= 65535 * 32766
  /\ \A g \in Garbage : g \in Nat /\ g <= 65535

VARIABLES
  maker, stage,   \* "make", "send", "wire", "seen", "over"
  header, check,  \* the IP header's words, and its checksum field
  message, icmpCheck, \* the same of the ICMP message; 0 if there is none
  stale,          \* what the field icmpCheck held when it was computed
  intact,         \* history: nothing was changed on the wire
  verdict,        \* what the sniffer says: "none", "size", "wrong", "shown"
  start,          \* the halves of what sum held when check_sum was entered
  answered        \* the host answered the echo request

packetVars == <<maker, stage, header, check, message, icmpCheck, stale,
                intact, verdict, start, answered>>

-----------------------------------------------------------------------------
(* Mutant: the upper half is dropped.                                      *)
FoldDropsUpper(high, low) == low

(* The two lines that add the upper half of a sum to the lower one, and    *)
(* the carry; the same in every checksum function here.                    *)
Fold(high, low) == LET t == high + low IN (t + (t \div 65536)) % 65536

(* checksum(): the complement. sum is a signed int, which the 32767 words  *)
(* of the longest packet do not overflow.                                  *)
Checksum(total) == 65535 - Fold(total \div 65536, total % 65536)

(* check_sum() of the sniffer: sum, given by its halves, is not            *)
(* initialised, and wraps.                                                 *)
CheckSum(sum, total) ==
  LET low == sum[2] + total
  IN 65535 - Fold((sum[1] + (low \div 65536)) % 65536, low % 65536)

-----------------------------------------------------------------------------
PacketInit ==
  /\ maker \in Makers /\ stage = "make"
  /\ header \in Totals /\ check = 0
  /\ message = 0 /\ icmpCheck = 0 /\ stale = 0
  /\ intact = TRUE /\ verdict = "none" /\ start = <<0, 0>> /\ answered = FALSE

(* client_udp adds up tot_len bytes, the UDP header that is still to come  *)
(* included.                                                               *)
MakeRaw ==
  /\ maker = "raw" /\ stage = "make" /\ stage' = "send"
  /\ \E g \in Garbage : check' = Checksum(header + g)
  /\ UNCHANGED <<maker, header, message, icmpCheck, stale, intact, verdict,
                 start, answered>>

(* create_packet: without memory there is no packet; without the device    *)
(* ens3 the module crashes on a null pointer. Type 8, sequence number 1231 *)
(* and zeros add up to the message; the checksum field is summed as well,  *)
(* with what alloc_skb left there.                                         *)
MakePing ==
  /\ maker = "kping" /\ stage = "make"
  /\ \/ stage' = "over" /\ UNCHANGED <<message, icmpCheck, stale>>
     \/ /\ stage' = "send"
        /\ message' = 8 + 1231
        /\ stale' \in Garbage
        /\ icmpCheck' = Checksum(message' + stale')
  /\ UNCHANGED <<maker, header, check, intact, verdict, start, answered>>

(* ping and traceroute clear the field before they compute it.             *)
MakeEcho ==
  /\ maker = "ping" /\ stage = "make" /\ stage' = "send"
  /\ message' \in Totals
  /\ icmpCheck' = Checksum(message')
  /\ UNCHANGED <<maker, header, check, stale, intact, verdict, start, answered>>

(* Another host computes its header checksum as it should.                 *)
MakeOther ==
  /\ maker = "other" /\ stage = "make" /\ stage' = "send"
  /\ UNCHANGED <<maker, header, check, message, icmpCheck, stale, intact,
                 verdict, start, answered>>

(* IP_HDRINCL and ip_local_out both compute the header checksum.           *)
KernelSend ==
  /\ stage = "send" /\ stage' = "wire"
  /\ check' = 65535 - (IF header % 65535 = 0 THEN 65535 ELSE header % 65535)
  /\ UNCHANGED <<maker, header, message, icmpCheck, stale, intact, verdict,
                 start, answered>>

(* Words of the header are changed on the way, also such that their sum   *)
(* still verifies.                                                         *)
Damage ==
  /\ stage = "wire" /\ intact /\ intact' = FALSE
  /\ header' \in Totals
  /\ UNCHANGED <<maker, stage, check, message, icmpCheck, stale, verdict,
                 start, answered>>

(* callback(): frames that are not IP and headers that are too short are   *)
(* left aside; then the test of line 220. Of a packet that is shown and is *)
(* UDP, the ports are read from the IP header.                             *)
Callback ==
  /\ stage = "wire" /\ stage' = "seen"
  /\ \/ verdict' \in {"none", "size"} /\ UNCHANGED start
     \/ /\ start' \in Garbage \X Garbage
        /\ verdict' = IF CheckSum(start', header + check) = 0
                      THEN "wrong" ELSE "shown"
  /\ UNCHANGED <<maker, header, check, message, icmpCheck, stale, intact,
                 answered>>

(* The host verifies both checksums and answers.                           *)
Verifies(total) == total % 65535 = 0

Arrive ==
  /\ stage = "seen" /\ stage' = "over"
  /\ answered' = (message # 0 /\ Verifies(header + check)
                              /\ Verifies(message + icmpCheck))
  /\ UNCHANGED <<maker, header, check, message, icmpCheck, stale, intact,
                 verdict, start>>

PacketNext == \/ MakeRaw \/ MakePing \/ MakeEcho \/ MakeOther
              \/ KernelSend \/ Damage \/ Callback \/ Arrive

PacketSpec == PacketInit /\ [][PacketNext]_packetVars

-----------------------------------------------------------------------------
(* What line 221 says, "Wrong checksum", is said only of a header that was *)
(* damaged, even if sum starts at zero. The code tests for the value that  *)
(* a right header gives.                                                   *)
WrongMeansDamaged == (start = <<0, 0>> /\ verdict = "wrong") => ~ intact

(* An echo request that was not damaged is answered if and only if its     *)
(* checksum field held a zero, of either sign, when the checksum was       *)
(* computed. ping clears it; kernel_ping.c leaves it to the memory.        *)
EchoNeedsCleanField ==
  (stage = "over" /\ intact /\ message # 0)
    => (answered <=> stale \in {0, 65535})
=============================================================================
