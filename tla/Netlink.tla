------------------------------- MODULE Netlink -------------------------------
(***************************************************************************)
(* core/netlinkdev/netlink_kernel: processes that run user_module.c, and   *)
(* the kernel module that answers each, at the number it finds in the      *)
(* request.                                                                *)
(***************************************************************************)
EXTENDS Naturals, Sequences

CONSTANTS
  Users,      \* processes that run user_module.c
  Pids,       \* what getpid() may return
  OtherPorts  \* what the kernel binds to when the pid is in use

ASSUME PortsAssumption == OtherPorts \cap Pids = {} /\ 0 \notin OtherPorts \cup Pids

VARIABLES
  loaded,   \* the module is loaded
  upc,      \* "new", "send", "handler", "reply", "recv", "over"
  pid,      \* getpid() of each user; the same in two pid namespaces perhaps
  nlport,   \* the port each open socket is bound to; 0: none
  inbox,    \* whose requests are answered in the user's socket
  printed,  \* whose answer the user printed; {}: none yet
  noMemory  \* history: users whose answer could not be allocated

netlinkVars == <<loaded, upc, pid, nlport, inbox, printed, noMemory>>

NetlinkInit ==
  /\ loaded \in BOOLEAN
  /\ upc = [u \in Users |-> "new"]
  /\ pid \in [Users -> Pids]
  /\ nlport = [u \in Users |-> 0]
  /\ inbox = [u \in Users |-> <<>>]
  /\ printed = [u \in Users |-> {}] /\ noMemory = {}

UserGoes(u, from, to) == upc[u] = from /\ upc' = [upc EXCEPT ![u] = to]

(* socket(): without the module there is no such protocol.                 *)
OpenSocket(u) ==
  /\ UserGoes(u, "new", IF loaded THEN "send" ELSE "over")
  /\ UNCHANGED <<loaded, pid, nlport, inbox, printed, noMemory>>

(* Mutant: the socket gets a number of its own, not the pid.               *)
SendMsgOtherPort(u) ==
  /\ UserGoes(u, "send", "handler")
  /\ \E p \in OtherPorts \ {nlport[v] : v \in Users} :
       nlport' = [nlport EXCEPT ![u] = p]
  /\ UNCHANGED <<loaded, pid, inbox, printed, noMemory>>

(* The socket is not bound, so sendmsg binds it: to the pid, or if that is *)
(* in use, to another number. iov_len is far more than the header it       *)
(* points to: sendmsg reads the stack behind it, and may fail.             *)
SendMsg(u) ==
  /\ \/ UserGoes(u, "send", "over") /\ UNCHANGED nlport
     \/ /\ UserGoes(u, "send", "handler")
        /\ \E p \in IF \A v \in Users : nlport[v] # pid[u] THEN {pid[u]}
                    ELSE OtherPorts \ {nlport[v] : v \in Users} :
             nlport' = [nlport EXCEPT ![u] = p]
  /\ UNCHANGED <<loaded, pid, inbox, printed, noMemory>>

(* nl_recv_msg, within the sendmsg of u: no memory, or on to the reply.    *)
NewReply(u) ==
  /\ \/ UserGoes(u, "handler", "recv") /\ noMemory' = noMemory \cup {u}
     \/ UserGoes(u, "handler", "reply") /\ UNCHANGED noMemory
  /\ UNCHANGED <<loaded, pid, nlport, inbox, printed>>

(* nlmsg_unicast to nlmsg_pid, the number the user wrote into the header:  *)
(* to the socket bound to it, or to nobody.                                *)
Unicast(u) ==
  /\ UserGoes(u, "reply", "recv")
  /\ \/ \E v \in Users :
          /\ nlport[v] = pid[u]
          /\ inbox' = [inbox EXCEPT ![v] = Append(@, u)]
     \/ (\A v \in Users : nlport[v] # pid[u]) /\ UNCHANGED inbox
  /\ UNCHANGED <<loaded, pid, nlport, printed, noMemory>>

(* recvmsg, print, close: answers that are still in the socket are lost.   *)
RecvMsg(u) ==
  /\ inbox[u] # <<>> /\ UserGoes(u, "recv", "over")
  /\ printed' = [printed EXCEPT ![u] = {Head(inbox[u])}]
  /\ inbox' = [inbox EXCEPT ![u] = <<>>]
  /\ nlport' = [nlport EXCEPT ![u] = 0]
  /\ UNCHANGED <<loaded, pid, noMemory>>

(* A process that waits may be killed.                                     *)
KillUser(u) ==
  /\ UserGoes(u, "recv", "over")
  /\ inbox' = [inbox EXCEPT ![u] = <<>>]
  /\ nlport' = [nlport EXCEPT ![u] = 0]
  /\ UNCHANGED <<loaded, pid, printed, noMemory>>

(* The module is in use as long as a socket of its protocol is open.       *)
InsertOrRemove ==
  /\ \A u \in Users : upc[u] \in {"new", "over"}
  /\ loaded' = ~ loaded
  /\ UNCHANGED <<upc, pid, nlport, inbox, printed, noMemory>>

UserStep(u) == SendMsg(u) \/ NewReply(u) \/ Unicast(u) \/ RecvMsg(u)

NetlinkNext ==
  \/ \E u \in Users : OpenSocket(u) \/ UserStep(u) \/ KillUser(u)
  \/ InsertOrRemove

NetlinkSpec == NetlinkInit /\ [][NetlinkNext]_netlinkVars

-----------------------------------------------------------------------------
(* The answer is made within sendmsg: a process that gets to its recvmsg   *)
(* has it already, alone in its socket, and it prints no other - unless    *)
(* there was no memory, and whatever the kernel bound the others to. Only  *)
(* a process with the same pid can take it away or add to it.              *)
OwnAnswerWaits ==
  \A u \in Users :
    (\A v \in Users \ {u} : pid[v] # pid[u]) =>
      /\ upc[u] = "recv" => u \in noMemory \/ inbox[u] = <<u>>
      /\ printed[u] \subseteq {u}

(* A process that waits gets the answer to its own request, or is killed;  *)
(* except without memory, or when another process calls itself by the same *)
(* pid: then the answer goes to whichever of them is bound to the number,  *)
(* or to nobody, and the other waits for ever.                             *)
RequestsAnswered ==
  \A u \in Users :
    upc[u] = "recv" ~> (\/ upc[u] = "over" /\ printed[u] \subseteq {u}
                       \/ u \in noMemory
                       \/ \E v \in Users \ {u} : pid[v] = pid[u])
=============================================================================
