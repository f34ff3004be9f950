--------------------------- MODULE ClientAloneProof ---------------------------
(***************************************************************************)
(* Theorems about one client against hosts that send anything, for any     *)
(* addresses, strangers and limits, with NATs or without, and whichever    *)
(* datagrams are repeated.                                                 *)
(***************************************************************************)
EXTENDS ClientAlone, TLAPS

-----------------------------------------------------------------------------
(* The invariant.                                                          *)

\* Everything in flight comes from the server, a stranger or the client, and
\* the server types no lines.
SoundSource(d) ==
    /\ d.src \in {SrvAddr} \cup Sources
    /\ d.verb = "LINE" => d.src \in Sources

NetSound == \A d \in net : SoundSource(d)

Inv == PeerTypeOK /\ NetSound

\* The limits are numbers.
LEMMA Limits ==
    /\ REG_TICK \in Nat /\ IAM_HERE_TO \in Nat /\ SERVER_DOWN_TO \in Nat
    /\ Lines \subseteq {"LINE", "CLEAR"}
    /\ Client \in Peers
  BY PeerAssumption, WatchAssumption, ClientAssumption
  DEF PeerAssumption, WatchAssumption, ClientAssumption

\* What is sent to the client has a source that it may hear.
LEMMA IncomingSources ==
    ASSUME NEW d \in Incoming
    PROVE  SoundSource(d)
  BY DEF Incoming, SrvVerbs, SetPeer, Datagram, Sources, SoundSource

\* The client sends from its own address.
LEMMA OwnSources ==
    ASSUME NetSound, NEW out, \A d \in out : d.src = AddrOf[Client],
           \/ Put(out)
           \/ \E d : Exchange(d, out)
    PROVE  NetSound'
  BY DEF NetSound, Put, Exchange, Carried, Sources, SoundSource

\* A datagram that did not come from the server's port came from a stranger or
\* from the client itself.
LEMMA PeerSources ==
    ASSUME NetSound, NEW d \in net, ~FromServer(d.src)
    PROVE  d.src \in Sources
  <1>1. d.src # SrvAddr
    BY DEF FromServer, SameAddr
  <1> QED
    BY <1>1 DEF NetSound, SoundSource

\* A client never takes the status that an acknowledgement tests for.
LEMMA RegisterredIsIdentity ==
    ASSUME NEW s \in Statuses
    PROVE  Registerred(s) = s
  BY DEF Registerred, Statuses

\* A member is one that was there or the one that is inserted.
LEMMA InsertIs ==
    ASSUME NEW S, NEW a
    PROVE  /\ Insert(S, a) \subseteq S \cup {a}
           /\ S \subseteq Insert(S, a)
  BY DEF Insert

-----------------------------------------------------------------------------
(* What a step does to members, what is shown, and the status.             *)

\* The ages of the watch keep their types.
LEMMA WatchTypes ==
    ASSUME PeerTypeOK, NEW d,
           Hear(Client, d) \/ WatchReset(Client) \/ WatchTick
    PROVE  /\ iahAge' \in [Peers -> 0 .. IAM_HERE_TO + 1]
           /\ pingAge' \in [Peers -> 0 .. SERVER_DOWN_TO + 1]
  <1>1. /\ iahAge \in [Peers -> 0 .. IAM_HERE_TO + 1]
        /\ pingAge \in [Peers -> 0 .. SERVER_DOWN_TO + 1]
    BY DEF PeerTypeOK
  <1>2. /\ IAM_HERE_TO + 1 \in 0 .. IAM_HERE_TO + 1
        /\ 0 \in 0 .. SERVER_DOWN_TO + 1
    BY Limits
  <1>3. CASE Hear(Client, d)
    BY <1>1, <1>2, <1>3 DEF Hear
  <1>4. CASE WatchReset(Client)
    BY <1>1, <1>2, <1>4 DEF WatchReset
  <1>5. CASE WatchTick
    <2>1. ASSUME NEW limit \in Nat, NEW age \in 0 .. limit + 1
          PROVE  Older(age, limit) \in 0 .. limit + 1
      BY DEF Older
    <2> QED
      BY <1>1, <1>5, <2>1, Limits DEF WatchTick
  <1> QED
    BY <1>3, <1>4, <1>5

\* A datagram adds at most its source to the members and to what is shown and
\* takes none away.
LEMMA ReceiveChange ==
    ASSUME Inv, NEW d \in net, PeerReceive(Client, d)
    PROVE  /\ UNCHANGED <<up, announced>>
           /\ regAge' \in [Peers -> 0 .. REG_TICK + 1]
           /\ status' \in [Peers -> Statuses]
           /\ \/ pers' = pers
              \/ d.src \in Sources /\ pers' = [pers EXCEPT ![Client] = Insert(@, d.src)]
           /\ \/ shown' = shown
              \/ d.src \in Sources /\ shown' = [shown EXCEPT ![Client] = @ \cup {d.src}]
           /\ NetSound'
  <1> USE Limits
  <1>1. /\ status \in [Peers -> Statuses]
        /\ regAge \in [Peers -> 0 .. REG_TICK + 1]
    BY DEF Inv, PeerTypeOK
  <1>2. ASSUME NEW e, Exchange(e, {})
        PROVE  NetSound'
    BY <1>2, OwnSources DEF Inv
  <1>3. ASSUME NEW v, NEW a, Exchange(d, {Direct(v, AddrOf[Client], a)})
        PROVE  NetSound'
    BY <1>3, OwnSources DEF Inv, Direct, Datagram
  <1>4. CASE RecvRegisterred(Client, d)
    <2>1. status' = status
      BY <1>1, <1>4, RegisterredIsIdentity DEF RecvRegisterred
    <2>2. regAge' \in [Peers -> 0 .. REG_TICK + 1]
      BY <1>1, <1>4 DEF RecvRegisterred
    <2> QED
      BY <1>1, <1>2, <1>4, <2>1, <2>2 DEF RecvRegisterred
  <1>5. CASE RecvSetPeer(Client, d)
    BY <1>1, <1>3, <1>5 DEF RecvSetPeer, peerVars
  <1>6. CASE RecvUnregistered(Client, d)
    <2>1. status' \in [Peers -> Statuses]
      BY <1>1, <1>6 DEF RecvUnregistered, Statuses
    <2> QED
      BY <1>1, <1>2, <1>6, <2>1 DEF RecvUnregistered
  <1>7. CASE RecvSrvPing(Client, d)
    <2>1. status' = status
      BY <1>1, <1>7, RegisterredIsIdentity DEF RecvSrvPing
    <2> QED
      BY <1>1, <1>2, <1>7, <2>1 DEF RecvSrvPing
  <1>8. CASE RecvPing(Client, d)
    BY <1>1, <1>3, <1>8 DEF RecvPing, peerVars
  <1>9. CASE RecvPong(Client, d)
    <2>1. status' \in [Peers -> Statuses]
      BY <1>1, <1>9 DEF RecvPong, Statuses
    <2>2. d.src \in Sources
      BY <1>9, PeerSources DEF RecvPong, FromPeerTo, Inv
    <2> QED
      BY <1>1, <1>2, <1>9, <2>1, <2>2 DEF RecvPong
  <1>10. CASE RecvLine(Client, d)
    <2>1. d.src \in Sources
      BY <1>10 DEF RecvLine, Inv, NetSound, SoundSource
    <2> QED
      BY <1>1, <1>2, <1>10, <2>1 DEF RecvLine, DataIn
  <1>11. CASE RecvData(Client, d)
    <2>1. status' \in [Peers -> Statuses]
      BY <1>1, <1>11 DEF RecvData, Statuses
    <2>2. d.src \in Sources
      BY <1>11, PeerSources DEF RecvData, FromPeerTo, Inv
    <2> QED
      BY <1>1, <1>2, <1>11, <2>1, <2>2 DEF RecvData, DataIn
  <1>12. CASE RecvInvalid(Client, d)
    BY <1>1, <1>2, <1>12 DEF RecvInvalid, peerVars
  <1> QED
    BY <1>4, <1>5, <1>6, <1>7, <1>8, <1>9, <1>10, <1>11, <1>12 DEF PeerReceive

\* The watch on the server changes nothing but its ages: the age it compares
\* is 0.
LEMMA WatchChange ==
    ASSUME PeerTypeOK, Watch(Client)
    PROVE  /\ UNCHANGED <<netVars, peerVars>>
           /\ iahAge' \in [Peers -> 0 .. IAM_HERE_TO + 1]
           /\ pingAge' \in [Peers -> 0 .. SERVER_DOWN_TO + 1]
  <1>1. ~(WatchedAge(Client) > SERVER_DOWN_TO)
    BY Limits DEF WatchedAge
  <1>2. /\ pingAge' = [pingAge EXCEPT ![Client] = 0]
        /\ UNCHANGED <<pers, status>>
    BY <1>1 DEF Watch, WatchedAge
  <1>3. 0 \in 0 .. IAM_HERE_TO + 1 /\ 0 \in 0 .. SERVER_DOWN_TO + 1
    BY Limits
  <1> QED
    BY <1>2, <1>3 DEF Watch, PeerTypeOK, peerVars

\* The client's process starts or ends: its state is new.
LEMMA ProcessChange ==
    ASSUME Inv, StartPeer(Client) \/ StopPeer(Client)
    PROVE  /\ ~(up[Client] /\ up'[Client])
           /\ up' \in [Peers -> BOOLEAN]
           /\ status' \in [Peers -> Statuses]
           /\ pers' = [pers EXCEPT ![Client] = {}]
           /\ regAge' \in [Peers -> 0 .. REG_TICK + 1]
           /\ shown' = [shown EXCEPT ![Client] = {}]
           /\ UNCHANGED announced
  <1>1. REG_TICK + 1 \in 0 .. REG_TICK + 1 /\ Client \in Peers
    BY Limits
  <1>2. /\ up \in [Peers -> BOOLEAN]
        /\ status \in [Peers -> Statuses]
        /\ regAge \in [Peers -> 0 .. REG_TICK + 1]
    BY DEF Inv, PeerTypeOK
  <1>3. CASE StartPeer(Client)
    <2>1. ~up[Client]
      BY <1>1, <1>3 DEF StartPeer, SameSocket
    <2> QED
      BY <1>1, <1>2, <1>3, <2>1 DEF StartPeer, Statuses
  <1>4. CASE StopPeer(Client)
    BY <1>1, <1>2, <1>4 DEF StopPeer, Statuses
  <1> QED
    BY <1>3, <1>4

\* How a step may change the members: they grow by a source, or start afresh
\* with the process.
Change ==
    \/ ~(up[Client] /\ up'[Client]) /\ pers' = [pers EXCEPT ![Client] = {}]
    \/ UNCHANGED pers
    \/ \E a \in Sources : pers' = [pers EXCEPT ![Client] = Insert(@, a)]

\* Every step changes them so and keeps the invariant: one step per action.
LEMMA StepChange ==
    ASSUME Inv, [Next]_vars
    PROVE  Inv' /\ Change
  <1> USE Limits
  <1>1. /\ up \in [Peers -> BOOLEAN] /\ status \in [Peers -> Statuses]
        /\ pers \in [Peers -> SUBSET Sources] /\ shown \in [Peers -> SUBSET Sources]
        /\ regAge \in [Peers -> 0 .. REG_TICK + 1] /\ announced \subseteq Peers
        /\ iahAge \in [Peers -> 0 .. IAM_HERE_TO + 1]
        /\ pingAge \in [Peers -> 0 .. SERVER_DOWN_TO + 1]
        /\ NetSound
    BY DEF Inv, PeerTypeOK
  <1>2. ASSUME NEW d \in Incoming, OthersSend(d)
        PROVE  Inv' /\ Change
    <2>1. NetSound'
      BY <1>2, IncomingSources DEF OthersSend, NetSound, Sources, SoundSource
    <2> QED
      BY <1>1, <1>2, <2>1 DEF OthersSend, peerVars, watchVars, Inv, PeerTypeOK, Change
  <1>3. ASSUME NEW d \in net, PeerReceive(Client, d), Hear(Client, d)
        PROVE  Inv' /\ Change
    <2>1. Change
      BY <1>1, <1>3, ReceiveChange DEF Change
    <2>2. pers' \in [Peers -> SUBSET Sources] /\ shown' \in [Peers -> SUBSET Sources]
      BY <1>1, <1>3, ReceiveChange, InsertIs
    <2>3. /\ iahAge' \in [Peers -> 0 .. IAM_HERE_TO + 1]
          /\ pingAge' \in [Peers -> 0 .. SERVER_DOWN_TO + 1]
      BY <1>3, WatchTypes DEF Inv
    <2> QED
      BY <1>1, <1>3, <2>1, <2>2, <2>3, ReceiveChange DEF Inv, PeerTypeOK
  <1>4. ASSUME StartPeer(Client) \/ StopPeer(Client), WatchReset(Client), NetSound'
        PROVE  Inv' /\ Change
    <2>1. /\ iahAge' \in [Peers -> 0 .. IAM_HERE_TO + 1]
          /\ pingAge' \in [Peers -> 0 .. SERVER_DOWN_TO + 1]
      BY <1>4, WatchTypes DEF Inv
    <2>2. pers' \in [Peers -> SUBSET Sources] /\ shown' \in [Peers -> SUBSET Sources]
      BY <1>1, <1>4, ProcessChange
    <2>3. Change
      BY <1>1, <1>4, ProcessChange DEF Change
    <2> QED
      BY <1>1, <1>4, <2>1, <2>2, <2>3, ProcessChange DEF Inv, PeerTypeOK
  <1>5. CASE Process
    <2>1. NetSound'
      BY <1>1, <1>5 DEF Process, netVars, NetSound, SoundSource
    <2> QED
      BY <1>4, <1>5, <2>1 DEF Process
  <1>6. CASE Aborts
    <2>1. PICK d \in net : Exchange(d, {})
      BY <1>6 DEF Aborts
    <2>2. NetSound'
      BY <1>1, <2>1, OwnSources
    <2> QED
      BY <1>4, <1>6, <2>2 DEF Aborts
  <1>7. CASE Registers
    <2>1. regAge' \in [Peers -> 0 .. REG_TICK + 1]
      BY <1>1, <1>7 DEF Registers, Register
    <2>2. NetSound'
      BY <1>1, <1>7, OwnSources DEF Registers, Register, FromPeer, Datagram
    <2> QED
      BY <1>1, <1>7, <2>1, <2>2 DEF Registers, Register, watchVars, Inv, PeerTypeOK, Change
  <1>8. CASE SendsLine
    <2>1. PICK line \in Lines : SendLine(Client, line)
      BY <1>8 DEF SendsLine
    <2>2. NetSound'
      BY <1>1, <2>1, OwnSources DEF SendLine, Direct, Datagram
    <2> QED
      BY <1>1, <1>8, <2>1, <2>2
      DEF SendsLine, SendLine, peerVars, watchVars, Inv, PeerTypeOK, Change
  <1>9. CASE Watch(Client)
    <2>1. /\ UNCHANGED <<netVars, peerVars>>
          /\ iahAge' \in [Peers -> 0 .. IAM_HERE_TO + 1]
          /\ pingAge' \in [Peers -> 0 .. SERVER_DOWN_TO + 1]
      BY <1>9, WatchChange DEF Inv
    <2> QED
      BY <1>1, <2>1 DEF netVars, peerVars, NetSound, SoundSource, Inv, PeerTypeOK, Change
  <1>10. CASE ClientTick
    <2>1. /\ iahAge' \in [Peers -> 0 .. IAM_HERE_TO + 1]
          /\ pingAge' \in [Peers -> 0 .. SERVER_DOWN_TO + 1]
      BY <1>10, WatchTypes DEF ClientTick, Inv
    <2>2. regAge' \in [Peers -> 0 .. REG_TICK + 1]
      BY <1>1, <1>10 DEF ClientTick, PeerTick
    <2> QED
      BY <1>1, <1>10, <2>1, <2>2 DEF ClientTick, netVars, NetSound, SoundSource, Inv, PeerTypeOK, Change
  <1>11. CASE UNCHANGED vars
    BY <1>1, <1>11 DEF vars, netVars, peerVars, watchVars, NetSound, SoundSource, Inv, PeerTypeOK, Change
  <1> QED
    BY <1>2, <1>3, <1>5, <1>6, <1>7, <1>8, <1>9, <1>10, <1>11 DEF Next, Receive

-----------------------------------------------------------------------------
(* The theorems.                                                           *)

\* The invariant holds in every reachable state.
LEMMA InvHolds == Spec => []Inv
  <1>1. Init => Inv
    <2>1. IAM_HERE_TO + 1 \in 0 .. IAM_HERE_TO + 1 /\ REG_TICK + 1 \in 0 .. REG_TICK + 1
          /\ 0 \in 0 .. SERVER_DOWN_TO + 1
      BY Limits
    <2> QED
      BY <2>1 DEF Init, NetInit, PeerInit, WatchInit, Inv, PeerTypeOK, NetSound, Statuses
  <1> QED
    BY <1>1, StepChange, PTL DEF Spec

\* Whatever a client is sent, its members and what it shows are sources that
\* sent to it and its status is one of two (a_peer.cpp:155-277).
THEOREM ClientTypeCorrect == Spec => []PeerTypeOK
  BY InvHolds, PTL DEF Inv

\* Nothing that arrives takes a member away while the process runs
\* (a_peer.cpp:262, sock.h:197).
THEOREM MembersStay == Spec => LinksLast
  <1>1. ASSUME Inv, Change, up[Client], up'[Client]
        PROVE  pers[Client] \subseteq pers'[Client]
    <2>1. pers \in [Peers -> SUBSET Sources] /\ Client \in Peers
      BY <1>1, Limits DEF Inv, PeerTypeOK
    <2> QED
      BY <1>1, <2>1, InsertIs DEF Change
  <1>2. Inv /\ [Next]_vars =>
           [up[Client] /\ up'[Client]
              => Watch(Client) \/ pers[Client] \subseteq pers'[Client]]_vars
    BY <1>1, StepChange
  <1> QED
    BY <1>2, InvHolds, PTL DEF Spec, LinksLast
=============================================================================
