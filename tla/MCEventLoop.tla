---------------------------- MODULE MCEventLoop ----------------------------
(* Two clients; one or two descriptors are free for them.                  *)
EXTENDS EventLoop

AllBuilds == {"select", "poll", "epoll"}
MCInherited == {{}, {0}}
=============================================================================
