------------------------------- MODULE Library -------------------------------
(***************************************************************************)
(* What can be used on its own: the classes of the repository that its     *)
(* programs do not use, or use in part, as a library - the TCP classes     *)
(* (TcpSock), a udp_sock (UdpSock), a thread (OsThread), a registry        *)
(* (Pairs) - and the cipher (Codec).  They have no state in common; a      *)
(* behaviour is of one of them.                                            *)
(***************************************************************************)
EXTENDS TcpSock, UdpSock, OsThread, Pairs, Codec

VARIABLE family

vars == <<family, tcpVars, udpVars, thrVars, pairs, codecVars>>

\* What is unknown of a thread object, and the choice of a buffer, matter
\* where there is one.
Init ==
    /\ TcpInit /\ UdpInit /\ ThrInit /\ PairsInit /\ CodecInit
    /\ family \in {"tcp", "udp", "thread", "pairs", "codec"}
    /\ family # "thread" => ~stopped
    /\ family # "codec" =>
           <<text, key, first>> = CHOOSE c \in Texts \X Keys \X BOOLEAN : TRUE

Next ==
    /\ \/ /\ family = "tcp" /\ TcpNext
          /\ UNCHANGED <<udpVars, thrVars, pairs, codecVars>>
       \/ /\ family = "udp" /\ UdpNext
          /\ UNCHANGED <<tcpVars, thrVars, pairs, codecVars>>
       \/ /\ family = "thread" /\ ThrNext
          /\ UNCHANGED <<tcpVars, udpVars, pairs, codecVars>>
       \/ /\ family = "pairs" /\ PairsNext
          /\ UNCHANGED <<tcpVars, udpVars, thrVars, codecVars>>
       \/ /\ family = "codec" /\ CodecNext
          /\ UNCHANGED <<tcpVars, udpVars, thrVars, pairs>>
    /\ UNCHANGED family

InTcp(A) == A /\ UNCHANGED <<family, udpVars, thrVars, pairs, codecVars>>

InThread(A) == A /\ UNCHANGED <<family, tcpVars, udpVars, pairs, codecVars>>

\* The thread that waits in a connect goes on, and its clock runs.  What a
\* callback of the caller says is not known.  Threads go on, and thread_main
\* returns when it is told to.
Fairness ==
    /\ WF_vars(InTcp(LoopConnected \/ LoopWaits))
    /\ WF_vars(InTcp(~Idle /\ call.ends = "clock" /\ LoopStops))
    /\ WF_vars(InThread(JoinReturns \/ JoinCrashes))
    /\ \A t \in Runs :
          WF_vars(InThread(\/ Begins(t) \/ CallsMain(t) \/ CallsPure(t)
                           \/ ReturnsWhenTold(t) \/ Finishes(t)))

Spec == Init /\ [][Next]_vars /\ Fairness

\* Every class keeps its types, and with them: who waits in a connect has an
\* open socket that does not block (sock.cpp:999); the kernel has no peer for
\* a socket that is not there (sock.cpp:1360); only what was started is joined
\* (osthread.h:131); and a second party comes after a first (peers.cpp:26).
LibTypeOK == TcpTypeOK /\ UdpTypeOK /\ ThrTypeOK /\ PairsTypeOK
=============================================================================
