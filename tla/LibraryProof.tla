----------------------------- MODULE LibraryProof -----------------------------
(***************************************************************************)
(* Theorems about the library's classes, for any number of objects,        *)
(* descriptors, threads and names, any time-outs and any hosts and ports.  *)
(***************************************************************************)
EXTENDS Library, CodecProof, TLAPS

-----------------------------------------------------------------------------
(* The udp_sock.                                                           *)

\* An object that says it is connected has an address, which is the one that
\* the kernel has unless the kernel has none, the object was told otherwise
\* (unsure), or a receive may have written over it (ubind).
Agreed ==
    uconnected => /\ remote \in Sin
                  /\ unsure \/ ubind \/ kernPeer \in {remote, Nobody}

UdpInv == UdpTypeOK /\ Agreed /\ SentWhereAsked

\* A send goes where it is asked to but in the four cases: one step per way
\* of sending.
LEMMA SendKeeps ==
    ASSUME UdpInv, NEW a \in Sin, SendAt(a) \/ SendTo(a)
    PROVE  UdpInv'
  <1> USE DEF UdpInv, UdpTypeOK, Agreed, SentWhereAsked, HasSocket
  <1>1. ASSUME NEW asked \in Sin, NEW to \in Sin \cup {Nobody}, Went(asked, to)
        PROVE  /\ sent' \in [asked : Sin, went : Sin] \cup {Nobody}
               /\ sent' # Nobody => sent'.asked = asked /\ sent'.went = to
               /\ to = Nobody => sent' = Nobody
               /\ UNCHANGED <<ufd, uconnected, ubind, masked, kernPeer, unsure>>
    BY <1>1 DEF Went
  <1>2. CASE uconnected /\ Went(remote, kernPeer) /\ UNCHANGED remote
    <2>1. remote \in Sin /\ (unsure \/ ubind \/ kernPeer \in {remote, Nobody})
      BY <1>2
    <2> QED
      BY <1>1, <1>2, <2>1
  <1>3. CASE ~uconnected /\ ubind /\ Went(a, remote) /\ UNCHANGED remote
    BY <1>1, <1>3
  <1>4. CASE ~uconnected /\ ~ubind /\ Went(a, a) /\ remote' = a
    BY <1>1, <1>4
  <1>5. CASE uconnected /\ SameSin(a) /\ Went(a, kernPeer) /\ UNCHANGED remote
    <2>1. remote \in Sin /\ (unsure \/ ubind \/ kernPeer \in {remote, Nobody})
      BY <1>5
    <2>2. a.port = remote.port /\ (masked => a = remote)
      BY <1>5, <2>1 DEF SameSin, Sin
    <2>3. /\ sent' \in [asked : Sin, went : Sin] \cup {Nobody}
          /\ sent' # Nobody => sent'.asked = a /\ sent'.went = kernPeer
          /\ kernPeer = Nobody => sent' = Nobody
          /\ UNCHANGED <<ufd, uconnected, ubind, masked, kernPeer, unsure, remote>>
      BY <1>1, <1>5
    <2>4. UdpTypeOK' /\ Agreed'
      BY <2>3
    <2>5. CASE unsure \/ ubind
      BY <2>3, <2>4, <2>5
    <2>6. CASE kernPeer \in {remote, Nobody}
      BY <2>2, <2>3, <2>4, <2>6
    <2> QED
      BY <2>1, <2>5, <2>6
  <1>6. CASE ~(uconnected /\ SameSin(a)) /\ Went(a, a) /\ UNCHANGED remote
    BY <1>1, <1>6
  <1>7. SendAt(a) => \/ uconnected /\ Went(remote, kernPeer) /\ UNCHANGED remote
                     \/ ~uconnected /\ ubind /\ Went(a, remote) /\ UNCHANGED remote
                     \/ ~uconnected /\ ~ubind /\ Went(a, a) /\ remote' = a
    BY DEF SendAt
  <1>8. SendTo(a) =>
            \/ uconnected /\ SameSin(a) /\ Went(a, kernPeer) /\ UNCHANGED remote
            \/ ~(uconnected /\ SameSin(a)) /\ Went(a, a) /\ UNCHANGED remote
    BY DEF SendTo
  <1> QED
    BY <1>2, <1>3, <1>4, <1>5, <1>6, <1>7, <1>8

\* A step that sends nothing keeps it when the object and the kernel agree.
LEMMA SilentKeeps ==
    ASSUME Silent, UdpTypeOK', Agreed'
    PROVE  UdpInv'
  BY DEF Silent, UdpInv, SentWhereAsked

\* Every call on the object keeps the invariant: one step per action.
LEMMA UdpStep ==
    ASSUME UdpInv, UdpNext \/ UNCHANGED udpVars
    PROVE  UdpInv'
  <1> USE DEF UdpInv, UdpTypeOK, Agreed, HasSocket, Silent
  <1>1. CASE UdpCreate
    BY <1>1, SilentKeeps DEF UdpCreate
  <1>2. CASE UdpDestroy
    BY <1>2, SilentKeeps DEF UdpDestroy
  <1>3. ASSUME NEW a \in Sin, UdpConnect(a)
        PROVE  UdpInv'
    BY <1>3, SilentKeeps DEF UdpConnect
  <1>4. ASSUME NEW a \in Sin, SetRsinOf(a)
        PROVE  UdpInv'
    BY <1>4, SilentKeeps DEF SetRsinOf
  <1>5. ASSUME NEW a \in Sin, SetRsin(a)
        PROVE  UdpInv'
    <2>1. unsure' \in BOOLEAN /\ (uconnected => unsure')
      BY <1>5 DEF SetRsin
    <2>2. UdpTypeOK'
      BY <1>5, <2>1 DEF SetRsin
    <2>3. Agreed'
      BY <1>5, <2>1 DEF SetRsin
    <2> QED
      BY <1>5, <2>2, <2>3, SilentKeeps DEF SetRsin
  <1>6. ASSUME NEW a \in Sin, ReceiveBound(a)
        PROVE  UdpInv'
    BY <1>6, SilentKeeps DEF ReceiveBound
  <1>7. ASSUME NEW a \in Sin, Receive(a)
        PROVE  UdpInv'
    BY <1>7, SilentKeeps DEF Receive
  <1>8. ASSUME NEW a \in Sin, ReceiveAside(a)
        PROVE  UdpInv'
    BY <1>8, SilentKeeps DEF ReceiveAside
  <1>9. CASE UNCHANGED udpVars
    BY <1>9 DEF udpVars, SentWhereAsked
  <1> QED
    BY <1>1, <1>2, <1>3, <1>4, <1>5, <1>6, <1>7, <1>8, <1>9, SendKeeps DEF UdpNext

\* The invariant holds in every reachable state.
LEMMA UdpInvariant == Spec => []UdpInv
  <1>1. Init => UdpInv
    BY DEF Init, UdpInit, UdpInv, UdpTypeOK, Agreed, SentWhereAsked, HasSocket
  <1>2. UdpInv /\ [Next]_vars => UdpInv'
    <2>1. [Next]_vars => UdpNext \/ UNCHANGED udpVars
      BY DEF Next, vars
    <2> QED
      BY <2>1, UdpStep
  <1> QED
    BY <1>1, <1>2, PTL DEF Spec

\* In any order of calls a datagram goes where the caller or the object says,
\* but for the four cases that the property names
\* (sock.cpp:1182-1254, sock.cpp:1360-1416).
THEOREM SendsAreRight == Spec => []SentWhereAsked
  <1>1. UdpInv => SentWhereAsked
    BY DEF UdpInv
  <1> QED
    BY <1>1, UdpInvariant, PTL

-----------------------------------------------------------------------------
(* The TCP classes: types.                                                 *)

\* A function changed at one descriptor keeps its type,
LEMMA AtType ==
    ASSUME NEW S, NEW c \in [Fd -> S], NEW f, NEW w \in S
    PROVE  At(c, f, w) \in [Fd -> S]
  BY DEF At

\* and its values everywhere else.
LEMMA AtApply ==
    ASSUME NEW c, NEW f, NEW w, NEW g \in Fd
    PROVE  At(c, f, w)[g] = IF g = f THEN w ELSE c[g]
  BY DEF At

\* Descriptors are naturals.
LEMMA FdFacts ==
    /\ 0 \in Fd
    /\ \A f \in Fd : f \in Int /\ f >= 0
    /\ -1 \notin Fd
  BY FdAssumption DEF Fd

\* What socket() gives is none, or was closed.
LEMMA NewFdFacts ==
    ASSUME NEW c, NEW f \in NewFd(c)
    PROVE  /\ f = -1 \/ (f \in Fd /\ c[f] = "closed")
           /\ f > 0 => f >= 0
  <1>1. f = -1 \/ (f \in Fd /\ c[f] = "closed")
    BY DEF NewFd
  <1>2. f \in Int
    <2>1. f = -1 \/ f \in Fd
      BY <1>1
    <2> QED
      BY <2>1, FdFacts
  <1> QED
    BY <1>1, <1>2

\* The types without the last conjunct, which each step of the loop concerns.
Kinds ==
    /\ conn \in [Fd -> Conns] /\ nonblock \in [Fd -> BOOLEAN]
    /\ fd \in [Socks -> Fd \cup {-1}]
    /\ connecting \in [Tcps -> BOOLEAN] /\ connected \in [Tcps -> BOOLEAN]
    /\ blocking \in [Tcps -> BOOLEAN]

\* A step that leaves no call waiting has the types when its variables do.
LEMMA IdleTypes ==
    ASSUME Kinds', call' = NoCall, shared' \in BOOLEAN
    PROVE  TcpTypeOK'
  BY DEF Kinds, TcpTypeOK

\* What becomes of a descriptor that its object lets go of.
LEMMA ReleasedType ==
    ASSUME TcpTypeOK, NEW o \in Socks
    PROVE  /\ Released(o) \in [Fd -> Conns]
           /\ Deserted(fd[o]) \in [Fd -> Conns]
           /\ ClosedFd(o) \in Fd \cup {-1}
  BY AtType DEF TcpTypeOK, Released, Deserted, ClosedFd, Conns

\* The calls that do not wait keep the types,
LEMMA BasicTypes ==
    ASSUME TcpTypeOK, Idle, NEW o \in Tcps,
           \/ Destroy(o)
           \/ Create(o)
           \/ \E block \in BOOLEAN : SetBlocking(o, block)
           \/ IsReallyConnected(o)
           \/ SetConnected(o)
           \/ \E p \in Tcps : Assign(o, p)
           \/ Accept(o)
    PROVE  TcpTypeOK'
  <1> USE DEF Idle
  <1>0. Kinds /\ shared \in BOOLEAN /\ o \in Socks
    BY DEF TcpTypeOK, Kinds, Socks
  <1>1. CASE Destroy(o)
    <2>1. Kinds'
      BY <1>0, <1>1, ReleasedType DEF Destroy, Kinds
    <2> QED
      BY <1>0, <1>1, <2>1, IdleTypes DEF Destroy
  <1>2. CASE Create(o)
    <2>1. PICK f \in NewFd(conn) : /\ fd' = [fd EXCEPT ![o] = f]
                                   /\ conn' = At(conn, f, "fresh")
                                   /\ nonblock' = At(nonblock, f, FALSE)
      BY <1>2 DEF Create
    <2>2. conn' \in [Fd -> Conns] /\ nonblock' \in [Fd -> BOOLEAN]
      BY <1>0, <2>1, AtType DEF Kinds, Conns
    <2>3. fd' \in [Socks -> Fd \cup {-1}]
      BY <1>0, <2>1, NewFdFacts DEF Kinds
    <2>4. Kinds'
      BY <1>0, <1>2, <2>2, <2>3 DEF Kinds, Create
    <2> QED
      BY <1>0, <1>2, <2>4, IdleTypes DEF Create
  <1>3. ASSUME NEW block \in BOOLEAN, SetBlocking(o, block)
        PROVE  TcpTypeOK'
    <2>1. nonblock' \in [Fd -> BOOLEAN]
      <3>1. (~block) \in BOOLEAN
        OBVIOUS
      <3> QED
        BY <1>0, <1>3, <3>1, AtType DEF SetBlocking, Kinds
    <2>2. Kinds'
      BY <1>0, <1>3, <2>1 DEF Kinds, SetBlocking
    <2> QED
      BY <1>0, <1>3, <2>2, IdleTypes DEF SetBlocking
  <1>4. CASE IsReallyConnected(o)
    <2>1. Kinds'
      BY <1>0, <1>4 DEF IsReallyConnected, Kinds, kernVars
    <2> QED
      BY <1>0, <1>4, <2>1, IdleTypes DEF IsReallyConnected
  <1>5. CASE SetConnected(o)
    <2>1. Kinds'
      BY <1>0, <1>5 DEF SetConnected, Kinds, kernVars
    <2> QED
      BY <1>0, <1>5, <2>1, IdleTypes DEF SetConnected
  <1>6. ASSUME NEW p \in Tcps, Assign(o, p)
        PROVE  TcpTypeOK'
    <2>1. Kinds'
      BY <1>0, <1>6 DEF Assign, Kinds, kernVars, Socks
    <2>2. shared' \in BOOLEAN
      BY <1>0, <1>6 DEF Assign
    <2> QED
      BY <1>6, <2>1, <2>2, IdleTypes DEF Assign
  <1>7. CASE Accept(o)
    <2>1. PICK f \in NewFd(conn) : /\ fd' = [fd EXCEPT ![o] = f]
                                   /\ conn' = At(conn, f, "accepted")
                                   /\ nonblock' = At(nonblock, f, FALSE)
      BY <1>7 DEF Accept
    <2>2. conn' \in [Fd -> Conns] /\ nonblock' \in [Fd -> BOOLEAN]
      BY <1>0, <2>1, AtType DEF Kinds, Conns
    <2>3. fd' \in [Socks -> Fd \cup {-1}]
      BY <1>0, <2>1, NewFdFacts DEF Kinds
    <2>4. Kinds'
      BY <1>0, <1>7, <2>2, <2>3 DEF Kinds, Accept
    <2>5. shared' \in BOOLEAN
      BY <1>0, <1>7 DEF Accept
    <2> QED
      BY <1>7, <2>4, <2>5, IdleTypes DEF Accept
  <1> QED
    BY <1>1, <1>2, <1>3, <1>4, <1>5, <1>6, <1>7

\* What bio_unblock puts back is a mode.
LEMMA RestoredType ==
    ASSUME TcpTypeOK, NEW f, NEW block \in BOOLEAN
    PROVE  Restored(f, block) \in [Fd -> BOOLEAN]
  <1>1. (f > 0 /\ ~block) \in BOOLEAN
    OBVIOUS
  <1> QED
    BY <1>1, AtType DEF TcpTypeOK, Restored

\* A connect that is over.
LEMMA ReturnsTypes ==
    ASSUME TcpTypeOK, Idle, NEW o \in Tcps,
           NEW f \in Fd \cup {-1}, NEW c \in [Fd -> Conns], NEW b \in BOOLEAN,
           Returns(o, f, c, b), connected' \in [Tcps -> BOOLEAN], shared' = shared
    PROVE  TcpTypeOK'
  <1>1. nonblock' \in [Fd -> BOOLEAN]
    BY RestoredType DEF Returns, TcpTypeOK
  <1>2. Kinds'
    BY <1>1 DEF Returns, TcpTypeOK, Kinds
  <1> QED
    BY <1>2, IdleTypes DEF Returns, Idle, TcpTypeOK

\* A connect that waits has a descriptor that does not block.
LEMMA WaitsTypes ==
    ASSUME TcpTypeOK, Idle, NEW o \in Tcps,
           NEW f \in Fd, f > 0, NEW c \in [Fd -> Conns],
           NEW fn \in {"raw", "i4", "s4"}, NEW ends \in {"clock", "user"},
           Waits(o, f, c, fn, ends),
           connected' \in [Tcps -> BOOLEAN], shared' = shared
    PROVE  TcpTypeOK'
  <1>1. nonblock' \in [Fd -> BOOLEAN] /\ nonblock'[f] = TRUE
    <2>1. nonblock' = At(nonblock, f, TRUE) /\ nonblock \in [Fd -> BOOLEAN]
      BY DEF Waits, Unblocked, TcpTypeOK
    <2> QED
      BY <2>1 DEF At
  <1>2. /\ fd' \in [Socks -> Fd \cup {-1}] /\ fd'[o] = f
        /\ blocking' \in [Tcps -> BOOLEAN] /\ blocking'[o] = FALSE
        /\ connecting' \in [Tcps -> BOOLEAN]
        /\ conn' \in [Fd -> Conns]
    BY DEF Waits, TcpTypeOK, Socks
  <1>3. call'.o = o /\ call' \in Calls
    BY TcpAssumption DEF Waits, Calls, TcpTypeOK
  <1>4. shared' \in BOOLEAN
    BY DEF TcpTypeOK
  <1> QED
    BY <1>1, <1>2, <1>3, <1>4 DEF TcpTypeOK, IsOpen

\* What a connect may find a socket in is one of the kinds of connection.
LEMMA AttemptsType == \A nb : Attempts(nb) \subseteq Conns
  BY DEF Attempts, Conns

\* and so does a connect that only tries,
LEMMA TryTypes ==
    ASSUME TcpTypeOK, NEW o \in Tcps, TryConnect(o)
    PROVE  TcpTypeOK'
  <1>1. PICK c \in CASE conn[fd[o]] \in {"fresh", "failed"} -> Attempts(~blocking[o])
                     [] conn[fd[o]] \in Pending ->
                            IF ~blocking[o] THEN {"left"} ELSE {"up", "failed"}
                     [] OTHER -> {conn[fd[o]]} :
             /\ conn' = At(conn, fd[o], c)
             /\ connecting' = [connecting EXCEPT ![o] = c = "waiting"]
    BY DEF TryConnect
  <1>2. fd[o] \in Fd
    BY DEF TryConnect, IsOpen, TcpTypeOK, Socks
  <1>3. c \in Conns
    BY <1>1, <1>2, AttemptsType DEF Conns, TcpTypeOK, Pending
  <1>4. conn' \in [Fd -> Conns]
    BY <1>1, <1>3, AtType DEF TcpTypeOK
  <1>5. nonblock' \in [Fd -> BOOLEAN]
    <2>1. (~blocking[o]) \in BOOLEAN
      OBVIOUS
    <2> QED
      BY <2>1, AtType DEF TryConnect, TcpTypeOK
  <1>6. connecting' \in [Tcps -> BOOLEAN]
    BY <1>1 DEF TcpTypeOK
  <1>7. Kinds'
    BY <1>4, <1>5, <1>6 DEF TryConnect, Kinds, TcpTypeOK
  <1> QED
    BY <1>7, IdleTypes DEF TryConnect, Idle, TcpTypeOK

\* i4connect and s4connect: one step per way of ending.
LEMMA ReconnectTypes ==
    ASSUME TcpTypeOK, NEW o \in Tcps, NEW fn \in {"i4", "s4"},
           NEW before \in BOOLEAN, Reconnect(o, fn, before)
    PROVE  TcpTypeOK'
  <1>1. Idle /\ shared' = shared /\ connected' \in [Tcps -> BOOLEAN]
    BY DEF Reconnect, TcpTypeOK
  <1>2. PICK f \in NewFd(Released(o)) :
            \/ f = -1 /\ Returns(o, -1, Released(o), before /\ ~IsOpen(o))
            \/ f >= 0 /\ Returns(o, f, At(Released(o), f, "up"), FALSE)
            \/ f > 0 /\ Returns(o, -1, Released(o), FALSE)
            \/ f = 0 /\ Returns(o, 0, At(Released(o), 0, "failed"), FALSE)
            \/ f > 0 /\ \E ends \in {"clock", "user"} :
                  Waits(o, f, At(Released(o), f, "waiting"), fn, ends)
    BY DEF Reconnect
  <1>3. /\ Released(o) \in [Fd -> Conns] /\ f \in Fd \cup {-1}
        /\ f >= 0 => f \in Fd
        /\ f > 0 => f \in Fd
        /\ \A c \in Conns : At(Released(o), f, c) \in [Fd -> Conns]
    <2>1. Released(o) \in [Fd -> Conns]
      BY ReleasedType DEF Socks
    <2>2. f = -1 \/ f \in Fd
      BY NewFdFacts
    <2> QED
      BY <2>1, <2>2, AtType
  <1>4. {"up", "failed", "waiting"} \subseteq Conns
    BY DEF Conns
  <1>5. CASE f = -1 /\ Returns(o, -1, Released(o), before /\ ~IsOpen(o))
    <2>1. (before /\ ~IsOpen(o)) \in BOOLEAN
      OBVIOUS
    <2> QED
      BY <1>1, <1>3, <1>5, <2>1, ReturnsTypes
  <1>6. CASE f >= 0 /\ Returns(o, f, At(Released(o), f, "up"), FALSE)
    BY <1>1, <1>3, <1>4, <1>6, ReturnsTypes
  <1>7. CASE f > 0 /\ Returns(o, -1, Released(o), FALSE)
    BY <1>1, <1>3, <1>7, ReturnsTypes
  <1>8. CASE f = 0 /\ Returns(o, 0, At(Released(o), 0, "failed"), FALSE)
    BY <1>1, <1>3, <1>4, <1>8, ReturnsTypes
  <1>9. CASE f > 0 /\ \E ends \in {"clock", "user"} :
                  Waits(o, f, At(Released(o), f, "waiting"), fn, ends)
    BY <1>1, <1>3, <1>4, <1>9, WaitsTypes
  <1> QED
    BY <1>2, <1>5, <1>6, <1>7, <1>8, <1>9

\* The connects of the other names, and the step that ends a call.
LEMMA ConnectTypes ==
    ASSUME TcpTypeOK, NEW o \in Tcps,
           RawConnect(o) \/ RawConnectSin(o) \/ I4Connect(o) \/ S4Connect(o) \/ Connect(o)
    PROVE  TcpTypeOK'
  <1> USE DEF Idle
  <1>1. CASE RawConnectSin(o)
    <2>0. PICK f \in NewFd(conn) : \E c \in Attempts(f > 0) :
              Returns(o, f, At(conn, f, c), f >= 0 /\ c = "waiting")
      BY <1>1 DEF RawConnectSin
    <2>1. PICK c \in Attempts(f > 0) :
              Returns(o, f, At(conn, f, c), f >= 0 /\ c = "waiting")
      BY <2>0
    <2>2. f \in Fd \cup {-1} /\ At(conn, f, c) \in [Fd -> Conns]
      <3>1. f = -1 \/ f \in Fd
        BY NewFdFacts
      <3>2. c \in Conns /\ conn \in [Fd -> Conns]
        BY AttemptsType DEF TcpTypeOK
      <3> QED
        BY <3>1, <3>2, AtType
    <2>3. (f >= 0 /\ c = "waiting") \in BOOLEAN
      OBVIOUS
    <2>4. /\ call = NoCall /\ shared' = shared
          /\ connected' \in [Tcps -> BOOLEAN]
      BY <1>1 DEF RawConnectSin, TcpTypeOK
    <2> QED
      BY <2>1, <2>2, <2>3, <2>4, ReturnsTypes
  <1>2. CASE Idle /\ ~IsOpen(o) /\ UNCHANGED <<connected, shared>>
             /\ \E f \in NewFd(conn) :
                   f > 0 /\ Waits(o, f, At(conn, f, "waiting"), "raw", "clock")
    <2>1. PICK f \in NewFd(conn) :
              f > 0 /\ Waits(o, f, At(conn, f, "waiting"), "raw", "clock")
      BY <1>2
    <2>2. f \in Fd /\ f > 0 /\ At(conn, f, "waiting") \in [Fd -> Conns]
      <3>1. f \in Fd
        BY <2>1, NewFdFacts
      <3>2. "waiting" \in Conns /\ conn \in [Fd -> Conns]
        BY DEF TcpTypeOK, Conns
      <3> QED
        BY <2>1, <3>1, <3>2, AtType
    <2>3. shared' = shared /\ connected' \in [Tcps -> BOOLEAN]
      BY <1>2 DEF TcpTypeOK
    <2> QED
      BY <1>2, <2>1, <2>2, <2>3, WaitsTypes
  <1>3. ASSUME NEW before \in BOOLEAN, Reconnect(o, "s4", before)
        PROVE  TcpTypeOK'
    BY <1>3, ReconnectTypes
  <1>4. ASSUME NEW before \in BOOLEAN, S4ConnectFrom(o, before)
        PROVE  TcpTypeOK'
    <2>1. CASE Idle /\ connected' = [connected EXCEPT ![o] = @ /\ ~IsOpen(o)]
               /\ shared' = shared
               /\ \E f \in NewFd(Released(o)) :
                     f > 0 /\ Returns(o, f, At(Released(o), f, "waiting"), TRUE)
      <3>1. PICK f \in NewFd(Released(o)) :
                f > 0 /\ Returns(o, f, At(Released(o), f, "waiting"), TRUE)
        BY <2>1
      <3>2. f \in Fd \cup {-1} /\ At(Released(o), f, "waiting") \in [Fd -> Conns]
        <4>1. f = -1 \/ f \in Fd
          BY NewFdFacts
        <4>2. "waiting" \in Conns /\ Released(o) \in [Fd -> Conns]
          BY ReleasedType DEF Socks, Conns
        <4> QED
          BY <4>1, <4>2, AtType
      <3>3. connected' \in [Tcps -> BOOLEAN] /\ TRUE \in BOOLEAN
        BY <2>1 DEF TcpTypeOK
      <3> QED
        BY <2>1, <3>1, <3>2, <3>3, ReturnsTypes
    <2> QED
      BY <1>3, <1>4, <2>1 DEF S4ConnectFrom
  <1>5. CASE /\ Idle
             /\ connecting' = [connecting EXCEPT ![o] = FALSE]
             /\ conn' = IF IsOpen(o) THEN Deserted(fd[o]) ELSE conn
             /\ UNCHANGED <<nonblock, fd, connected, blocking, call, shared>>
    <2>1. conn' \in [Fd -> Conns]
      BY <1>5, ReleasedType DEF Socks, TcpTypeOK
    <2>2. Kinds'
      BY <1>5, <2>1 DEF Kinds, TcpTypeOK
    <2> QED
      BY <1>5, <2>2, IdleTypes DEF TcpTypeOK
  <1>6. connecting[o] \in BOOLEAN /\ TRUE \in BOOLEAN
    BY DEF TcpTypeOK
  <1>7. I4Connect(o) => TcpTypeOK'
    BY <1>6, ReconnectTypes DEF I4Connect
  <1>8. S4Connect(o) => TcpTypeOK'
    BY <1>4, <1>6 DEF S4Connect
  <1>9. Connect(o) => TcpTypeOK'
    BY <1>4, <1>5, <1>6 DEF Connect
  <1> QED
    BY <1>1, <1>2, <1>7, <1>8, <1>9 DEF RawConnect

\* The call that waits ends, or goes on.
LEMMA LoopTypes ==
    ASSUME TcpTypeOK, LoopConnected \/ LoopWaits \/ LoopStops
    PROVE  TcpTypeOK'
  <1>1. /\ call \in Calls /\ call.o \in Tcps /\ call.o \in Socks
        /\ call.saved \in BOOLEAN /\ call.waited \in 0 .. TOUT
        /\ IsOpen(call.o) /\ nonblock[fd[call.o]] /\ ~blocking[call.o]
        /\ fd[call.o] \in Fd \cup {-1} /\ shared \in BOOLEAN
    BY DEF LoopConnected, LoopWaits, LoopStops, Idle, TcpTypeOK, Calls, Socks
  <1>2. ASSUME NEW f \in Fd \cup {-1}, NEW c \in [Fd -> Conns], NEW b \in BOOLEAN,
               Leaves(f, c, b), connected' \in [Tcps -> BOOLEAN]
        PROVE  TcpTypeOK'
    <2>1. nonblock' \in [Fd -> BOOLEAN]
      BY <1>1, <1>2, RestoredType DEF Leaves
    <2>2. Kinds'
      BY <1>1, <1>2, <2>1 DEF Leaves, Kinds, TcpTypeOK
    <2> QED
      BY <1>1, <1>2, <2>2, IdleTypes DEF Leaves
  <1>3. /\ conn \in [Fd -> Conns] /\ connected \in [Tcps -> BOOLEAN]
        /\ TRUE \in BOOLEAN /\ FALSE \in BOOLEAN
    BY DEF TcpTypeOK
  <1>4. CASE LoopConnected
    BY <1>1, <1>2, <1>3, <1>4 DEF LoopConnected
  <1>5. CASE LoopWaits
    <2>1. (IF call.waited = TOUT THEN call.waited ELSE Elapsed(call.waited)) \in 0 .. TOUT
      BY <1>1, TcpAssumption DEF Elapsed
    <2>2. call' \in Calls /\ call'.o = call.o
      BY <1>1, <1>5, <2>1 DEF LoopWaits, Calls
    <2> QED
      BY <1>1, <1>5, <2>2 DEF LoopWaits, TcpTypeOK, kernVars, objVars, IsOpen
  <1>6. CASE LoopStops
    <2>1. CASE Leaves(fd[call.o], conn, StillConnecting) /\ UNCHANGED connected
      BY <1>1, <1>2, <1>3, <2>1 DEF StillConnecting
    <2>2. CASE Leaves(fd[call.o], Deserted(fd[call.o]), FALSE) /\ UNCHANGED connected
      BY <1>1, <1>2, <1>3, <2>2, ReleasedType
    <2>3. CASE /\ Leaves(ClosedFd(call.o), Released(call.o), FALSE)
               /\ connected' = [connected EXCEPT ![call.o] = FALSE]
      BY <1>1, <1>2, <1>3, <2>3, ReleasedType
    <2> QED
      BY <1>6, <2>1, <2>2, <2>3 DEF LoopStops
  <1> QED
    BY <1>4, <1>5, <1>6

\* The socket of the server, and the network.
LEMMA ServerTypes ==
    ASSUME TcpTypeOK, SrvCreate \/ Listen \/ SrvDestroy \/ NetAnswers
    PROVE  TcpTypeOK'
  <1>0. Kinds /\ shared \in BOOLEAN /\ SrvSock \in Socks
    BY DEF TcpTypeOK, Kinds, Socks
  <1>1. CASE SrvCreate
    <2>1. PICK f \in NewFd(conn) :
              \/ /\ fd' = [fd EXCEPT ![SrvSock] = f]
                 /\ conn' = At(conn, f, "fresh")
                 /\ nonblock' = At(nonblock, f, FALSE)
              \/ /\ f > 0
                 /\ fd' = [fd EXCEPT ![SrvSock] = -1]
                 /\ UNCHANGED kernVars
      BY <1>1 DEF SrvCreate
    <2>2. fd' \in [Socks -> Fd \cup {-1}]
      BY <1>0, <2>1, NewFdFacts DEF Kinds
    <2>3. conn' \in [Fd -> Conns] /\ nonblock' \in [Fd -> BOOLEAN]
      <3>1. "fresh" \in Conns /\ FALSE \in BOOLEAN
        BY DEF Conns
      <3> QED
        BY <1>0, <2>1, <3>1 DEF Kinds, kernVars, At
    <2>4. Kinds'
      BY <1>0, <1>1, <2>2, <2>3 DEF Kinds, SrvCreate
    <2> QED
      BY <1>0, <1>1, <2>4, IdleTypes DEF SrvCreate, Idle
  <1>2. CASE Listen
    <2>1. conn' \in [Fd -> Conns]
      BY <1>0, <1>2, AtType DEF Listen, Kinds, Conns
    <2>2. Kinds'
      BY <1>0, <1>2, <2>1 DEF Kinds, Listen, objVars
    <2> QED
      BY <1>0, <1>2, <2>2, IdleTypes DEF Listen, Idle
  <1>3. CASE SrvDestroy
    <2>1. Kinds'
      BY <1>0, <1>3, ReleasedType DEF Kinds, SrvDestroy
    <2> QED
      BY <1>0, <1>3, <2>1, IdleTypes DEF SrvDestroy, Idle
  <1>4. CASE NetAnswers
    <2>1. conn' \in [Fd -> Conns]
      BY <1>0, <1>4 DEF NetAnswers, Answers, Kinds, Conns, At
    <2> QED
      BY <1>4, <2>1 DEF NetAnswers, Answers, objVars, TcpTypeOK, IsOpen
  <1> QED
    BY <1>1, <1>2, <1>3, <1>4

\* and so does every call.
LEMMA TcpTypes ==
    ASSUME TcpTypeOK, TcpNext
    PROVE  TcpTypeOK'
  BY BasicTypes, TryTypes, ConnectTypes, LoopTypes, ServerTypes
     DEF TcpNext, TcpDestroy, SendAllFails, Idle, Create, SetBlocking,
         IsReallyConnected, SetConnected, Assign, Accept

-----------------------------------------------------------------------------
(* The TCP classes: who has which descriptor, and what its object says.    *)

HeldInv ==
    /\ \A o \in Socks : IsOpen(o) => conn[fd[o]] # "closed"
    /\ \A f \in Fd \ {0} : conn[f] # "closed" => \E o \in Socks : fd[o] = f
    /\ \A o, p \in Socks : IsOpen(o) /\ fd[o] = fd[p] => o = p

\* The object whose connect waits says what it will be told later.
OutOfCall(o) == Idle \/ o # call.o

ModeAt(o) ==
    OutOfCall(o) /\ IsOpen(o) /\ conn[fd[o]] \in {"waiting", "left", "up", "failed"}
        => nonblock[fd[o]] = ~blocking[o]

StatusAt(o) ==
    /\ connected[o] => IsOpen(o)
    /\ OutOfCall(o) /\ IsOpen(o) /\ conn[fd[o]] = "waiting" => connecting[o]

Sound == HeldInv /\ \A o \in Tcps : ModeAt(o) /\ StatusAt(o)

TcpInv == TcpTypeOK /\ (~shared => Sound)

\* What a step about o does to the descriptors: those of the others are left
\* alone, and o gives its own back or keeps it, and takes none that is open.
Moves(o) ==
    /\ \A p \in Socks \ {o} : fd'[p] = fd[p]
    /\ \A f \in Fd : f # fd[o] /\ f # fd'[o] =>
           conn'[f] = conn[f] /\ nonblock'[f] = nonblock[f]
    /\ fd'[o] > 0 => conn'[fd'[o]] # "closed"
    /\ fd[o] > 0 /\ fd'[o] # fd[o] => conn'[fd[o]] = "closed"
    /\ fd'[o] > 0 /\ fd'[o] # fd[o] => conn[fd'[o]] = "closed"

\* What it does to the objects and to the call that waits.
Minds(o) ==
    /\ \A p \in Tcps \ {o} : /\ connecting'[p] = connecting[p]
                             /\ connected'[p] = connected[p]
                             /\ blocking'[p] = blocking[p]
    /\ Idle \/ call.o = o
    /\ Idle' \/ call'.o = o

AboutOnly(o) == Moves(o) /\ Minds(o)

\* Such a step keeps the others sound when it leaves o so.
LEMMA AboutOnlyKeeps ==
    ASSUME TcpTypeOK, TcpTypeOK', Sound, NEW o \in Socks, AboutOnly(o),
           o \in Tcps => ModeAt(o)' /\ StatusAt(o)'
    PROVE  Sound'
  <1>0. /\ fd \in [Socks -> Fd \cup {-1}] /\ fd' \in [Socks -> Fd \cup {-1}]
        /\ Tcps \subseteq Socks
    BY DEF TcpTypeOK, Socks
  <1>1. ASSUME NEW p \in Socks \ {o}, IsOpen(p)
        PROVE  /\ fd'[p] = fd[p] /\ fd[p] \in Fd /\ fd[p] # fd[o] /\ fd[p] # fd'[o]
               /\ conn'[fd[p]] = conn[fd[p]] /\ nonblock'[fd[p]] = nonblock[fd[p]]
    <2>1. fd'[p] = fd[p] /\ fd[p] > 0 /\ fd[p] \in Fd
      BY <1>0, <1>1 DEF IsOpen, AboutOnly, Moves, Minds
    <2>2. fd[p] # fd[o] /\ conn[fd[p]] # "closed"
      BY <1>0, <1>1 DEF Sound, HeldInv
    <2>3. fd[p] # fd'[o]
      BY <2>1, <2>2 DEF AboutOnly, Moves, Minds
    <2> QED
      BY <2>1, <2>2, <2>3 DEF AboutOnly, Moves, Minds
  <1>2. HeldInv'
    <2>1. ASSUME NEW p \in Socks, fd'[p] > 0
          PROVE  conn'[fd'[p]] # "closed"
      <3>1. CASE p = o
        BY <2>1, <3>1 DEF AboutOnly, Moves, Minds
      <3>2. CASE p # o
        <4>1. IsOpen(p)
          BY <2>1, <3>2 DEF AboutOnly, Moves, Minds, IsOpen
        <4> QED
          BY <1>1, <3>2, <4>1 DEF Sound, HeldInv
      <3> QED
        BY <3>1, <3>2
    <2>2. ASSUME NEW f \in Fd \ {0}, conn'[f] # "closed"
          PROVE  \E p \in Socks : fd'[p] = f
      <3>1. CASE f = fd'[o]
        BY <3>1
      <3>2. CASE f # fd'[o] /\ f = fd[o]
        BY <2>2, <3>2, FdFacts DEF AboutOnly, Moves, Minds
      <3>3. CASE f # fd'[o] /\ f # fd[o]
        <4>1. PICK p \in Socks : fd[p] = f
          BY <2>2, <3>3 DEF AboutOnly, Moves, Minds, Sound, HeldInv
        <4> QED
          BY <3>3, <4>1 DEF AboutOnly, Moves, Minds
      <3> QED
        BY <3>1, <3>2, <3>3
    <2>3. ASSUME NEW p \in Socks, NEW q \in Socks, fd'[p] > 0, fd'[p] = fd'[q]
          PROVE  p = q
      <3>1. CASE p = o /\ q # o
        BY <1>1, <2>3, <3>1 DEF IsOpen, AboutOnly, Moves, Minds
      <3>2. CASE p # o /\ q = o
        BY <1>1, <2>3, <3>2 DEF IsOpen, AboutOnly, Moves, Minds
      <3>3. CASE p # o /\ q # o
        BY <2>3, <3>3 DEF IsOpen, AboutOnly, Moves, Minds, Sound, HeldInv
      <3> QED
        BY <3>1, <3>2, <3>3
    <2> QED
      BY <2>1, <2>2, <2>3 DEF HeldInv, IsOpen
  <1>3. ASSUME NEW p \in Tcps
        PROVE  ModeAt(p)' /\ StatusAt(p)'
    <2>1. CASE p = o
      BY <2>1
    <2>2. CASE p # o
      <3>1. /\ IsOpen(p)' <=> IsOpen(p)
            /\ OutOfCall(p)
            /\ connecting'[p] = connecting[p] /\ connected'[p] = connected[p]
            /\ blocking'[p] = blocking[p]
        BY <1>0, <2>2 DEF AboutOnly, Moves, Minds, IsOpen, OutOfCall
      <3>2. ModeAt(p) /\ StatusAt(p)
        BY DEF Sound
      <3>3. ModeAt(p)'
        BY <1>0, <1>1, <2>2, <3>1, <3>2 DEF ModeAt
      <3>4. StatusAt(p)'
        BY <1>0, <1>1, <2>2, <3>1, <3>2 DEF StatusAt
      <3> QED
        BY <3>3, <3>4
    <2> QED
      BY <2>1, <2>2
  <1> QED
    BY <1>2, <1>3 DEF Sound

\* Three ways to move descriptors: o takes a new one after its own is closed,
LEMMA TakesNew ==
    ASSUME TcpTypeOK, NEW o \in Socks, NEW f \in NewFd(Released(o)), NEW k,
           k # "closed",
           fd' = [fd EXCEPT ![o] = f], conn' = At(Released(o), f, k),
           \A g \in Fd \ {f} : nonblock'[g] = nonblock[g]
    PROVE  Moves(o) /\ fd'[o] = f /\ (f > 0 => conn'[f] = k)
  <1>1. fd \in [Socks -> Fd \cup {-1}] /\ conn \in [Fd -> Conns]
    BY DEF TcpTypeOK
  <1>2. /\ \A g \in Fd : Released(o)[g] =
                           IF fd[o] > 0 /\ g = fd[o] THEN "closed" ELSE conn[g]
        /\ \A g \in Fd : conn'[g] = IF g = f THEN k ELSE Released(o)[g]
    BY <1>1, AtApply DEF Released, IsOpen
  <1>3. f = -1 \/ (f \in Fd /\ Released(o)[f] = "closed")
    BY NewFdFacts
  <1>4. fd'[o] = f /\ \A p \in Socks \ {o} : fd'[p] = fd[p]
    BY <1>1
  <1>5. fd[o] > 0 => fd[o] \in Fd
    BY <1>1
  <1>6. f > 0 => f \in Fd /\ conn'[f] = k
    BY <1>2, <1>3
  <1>7. \A g \in Fd : g # fd[o] /\ g # fd'[o] =>
            conn'[g] = conn[g] /\ nonblock'[g] = nonblock[g]
    BY <1>2, <1>4
  <1>8. fd[o] > 0 /\ fd'[o] # fd[o] => conn'[fd[o]] = "closed"
    BY <1>2, <1>4, <1>5
  <1>9. fd'[o] > 0 /\ fd'[o] # fd[o] => conn[fd'[o]] = "closed"
    BY <1>2, <1>3, <1>4
  <1> QED
    BY <1>4, <1>6, <1>7, <1>8, <1>9 DEF Moves

\* it has none afterwards,
LEMMA GivesBack ==
    ASSUME TcpTypeOK, NEW o \in Socks, NEW f \in {-1, 0},
           fd' = [fd EXCEPT ![o] = f], conn' = Released(o),
           \A g \in Fd : nonblock'[g] = nonblock[g]
    PROVE  Moves(o) /\ fd'[o] = f /\ ~IsOpen(o)'
  <1>1. fd \in [Socks -> Fd \cup {-1}] /\ conn \in [Fd -> Conns]
    BY DEF TcpTypeOK
  <1>2. \A g \in Fd : conn'[g] =
                       IF fd[o] > 0 /\ g = fd[o] THEN "closed" ELSE conn[g]
    BY <1>1, AtApply DEF Released, IsOpen
  <1>3. fd'[o] = f /\ \A p \in Socks \ {o} : fd'[p] = fd[p]
    BY <1>1
  <1>4. ~(f > 0) /\ (fd[o] > 0 => fd[o] \in Fd)
    BY <1>1
  <1>5. \A g \in Fd : g # fd[o] /\ g # fd'[o] =>
            conn'[g] = conn[g] /\ nonblock'[g] = nonblock[g]
    BY <1>2
  <1>6. fd[o] > 0 => conn'[fd[o]] = "closed"
    BY <1>2, <1>4
  <1> QED
    BY <1>3, <1>4, <1>5, <1>6 DEF Moves, IsOpen

\* and it keeps the one that it has.
LEMMA KeepsFd ==
    ASSUME TcpTypeOK, NEW o \in Socks, fd' = fd,
           \A g \in Fd : g # fd[o] => conn'[g] = conn[g] /\ nonblock'[g] = nonblock[g],
           IsOpen(o) => conn'[fd[o]] # "closed"
    PROVE  Moves(o)
  BY DEF Moves, IsOpen, TcpTypeOK

\* An object that is not open has no descriptor, or 0.
LEMMA NotOpenFd ==
    ASSUME TcpTypeOK, NEW o \in Socks, ~IsOpen(o)
    PROVE  fd[o] \in {-1, 0}
  <1>1. fd[o] \in (0 .. MaxFd) \cup {-1} /\ ~(fd[o] > 0)
    BY DEF TcpTypeOK, IsOpen, Fd
  <1> QED
    BY <1>1, FdAssumption

\* What a descriptor's mode is after a guard came and went.
LEMMA RestoredApply ==
    ASSUME TcpTypeOK, NEW f, NEW block \in BOOLEAN
    PROVE  /\ \A g \in Fd \ {f} : Restored(f, block)[g] = nonblock[g]
           /\ f \in Fd /\ f > 0 => Restored(f, block)[f] = ~block
  BY DEF Restored, At, TcpTypeOK

\* Closing, creating, modes and the marks: one step per action.
LEMMA BasicSound ==
    ASSUME TcpTypeOK, TcpTypeOK', Sound, Idle, NEW o \in Tcps,
           \/ Destroy(o)
           \/ Create(o)
           \/ \E block \in BOOLEAN : SetBlocking(o, block)
           \/ IsReallyConnected(o)
           \/ SetConnected(o)
    PROVE  Sound'
  <1>0. /\ o \in Socks /\ ModeAt(o) /\ StatusAt(o)
        /\ fd[o] \in Fd \cup {-1}
        /\ fd \in [Socks -> Fd \cup {-1}] /\ conn \in [Fd -> Conns]
        /\ nonblock \in [Fd -> BOOLEAN]
        /\ connecting \in [Tcps -> BOOLEAN] /\ connected \in [Tcps -> BOOLEAN]
        /\ blocking \in [Tcps -> BOOLEAN]
        /\ IsOpen(o) => conn[fd[o]] # "closed"
    BY DEF Sound, HeldInv, TcpTypeOK, Socks
  <1>1. ASSUME Minds(o), Moves(o), ModeAt(o)', StatusAt(o)'
        PROVE  Sound'
    BY <1>0, <1>1, AboutOnlyKeeps DEF AboutOnly
  <1>2. CASE Destroy(o)
    <2>1. Moves(o) /\ ~IsOpen(o)'
      <3>1. ClosedFd(o) \in {-1, 0}
        BY <1>0, NotOpenFd DEF ClosedFd
      <3> QED
        BY <1>0, <1>2, <3>1, GivesBack DEF Destroy
    <2>2. Minds(o) /\ ~connected'[o]
      BY <1>0, <1>2 DEF Minds, Destroy, Idle, StatusAt
    <2> QED
      BY <1>1, <2>1, <2>2 DEF ModeAt, StatusAt
  <1>3. CASE Create(o)
    <2>1. PICK f \in NewFd(conn) : /\ fd' = [fd EXCEPT ![o] = f]
                                   /\ conn' = At(conn, f, "fresh")
                                   /\ nonblock' = At(nonblock, f, FALSE)
      BY <1>3 DEF Create
    <2>2. Released(o) = conn
      BY <1>3 DEF Create, Released
    <2>3. \A g \in Fd \ {f} : nonblock'[g] = nonblock[g]
      BY <2>1 DEF At
    <2>4. Moves(o) /\ fd'[o] = f /\ (f > 0 => conn'[f] = "fresh")
      BY <1>0, <2>1, <2>2, <2>3, TakesNew
    <2>5. Minds(o) /\ ~connected'[o]
      BY <1>0, <1>3 DEF Minds, Create, Idle, StatusAt
    <2> QED
      BY <1>1, <2>4, <2>5 DEF ModeAt, StatusAt, IsOpen
  <1>4. ASSUME NEW block \in BOOLEAN, SetBlocking(o, block)
        PROVE  Sound'
    <2>1. \A g \in Fd : nonblock'[g] =
              IF IsOpen(o) /\ g = fd[o] THEN ~block ELSE nonblock[g]
      <3>1. nonblock' = At(nonblock, IF IsOpen(o) THEN fd[o] ELSE -1, ~block)
        BY <1>4 DEF SetBlocking
      <3> QED
        BY <3>1, FdFacts DEF At
    <2>2. Moves(o)
      <3>1. fd' = fd /\ conn' = conn
        BY <1>4 DEF SetBlocking
      <3> QED
        BY <1>0, <2>1, <3>1, KeepsFd
    <2>3. Minds(o) /\ blocking'[o] = block
      BY <1>0, <1>4 DEF Minds, SetBlocking, Idle
    <2>4. ModeAt(o)'
      <3>1. IsOpen(o)' => nonblock'[fd'[o]] = ~block
        BY <1>0, <1>4, <2>1 DEF SetBlocking, IsOpen
      <3> QED
        BY <2>3, <3>1 DEF ModeAt
    <2>5. StatusAt(o)'
      BY <1>0, <1>4 DEF StatusAt, SetBlocking, IsOpen, OutOfCall, Idle
    <2> QED
      BY <1>1, <2>2, <2>3, <2>4, <2>5
  <1>5. CASE IsReallyConnected(o)
    <2>1. Moves(o)
      BY <1>0, <1>5, KeepsFd DEF IsReallyConnected, kernVars
    <2>2. Minds(o) /\ (connected'[o] => IsOpen(o))
      BY <1>0, <1>5 DEF Minds, IsReallyConnected, Idle
    <2>3. ModeAt(o)' /\ StatusAt(o)'
      BY <1>0, <1>5, <2>2 DEF IsReallyConnected, ModeAt, StatusAt, IsOpen, OutOfCall,
         Idle, kernVars
    <2> QED
      BY <1>1, <2>1, <2>2, <2>3
  <1>6. CASE SetConnected(o)
    <2>1. Moves(o)
      BY <1>0, <1>6, KeepsFd DEF SetConnected, kernVars
    <2>2. Minds(o)
      BY <1>0, <1>6 DEF Minds, SetConnected, Idle
    <2>3. ModeAt(o)' /\ StatusAt(o)'
      BY <1>0, <1>6 DEF SetConnected, ModeAt, StatusAt, IsOpen, OutOfCall,
         Idle, kernVars
    <2> QED
      BY <1>1, <2>1, <2>2, <2>3
  <1> QED
    BY <1>2, <1>3, <1>4, <1>5, <1>6

\* Where no open object is written over, an assignment copies an object that
\* is not open, and accept is into one that is not.
LEMMA CopySound ==
    ASSUME TcpTypeOK, TcpTypeOK', Sound, NEW o \in Tcps, ~shared',
           Accept(o) \/ \E p \in Tcps : Assign(o, p)
    PROVE  Sound'
  <1>0. /\ o \in Socks /\ ModeAt(o) /\ StatusAt(o) /\ Tcps \subseteq Socks
        /\ fd[o] \in Fd \cup {-1}
        /\ fd \in [Socks -> Fd \cup {-1}] /\ conn \in [Fd -> Conns]
        /\ connecting \in [Tcps -> BOOLEAN] /\ connected \in [Tcps -> BOOLEAN]
        /\ blocking \in [Tcps -> BOOLEAN]
    BY DEF Sound, TcpTypeOK, Socks
  <1>1. ASSUME Minds(o), Moves(o), ModeAt(o)', StatusAt(o)'
        PROVE  Sound'
    BY <1>0, <1>1, AboutOnlyKeeps DEF AboutOnly
  <1>2. CASE Accept(o)
    <2>1. PICK f \in NewFd(conn) : /\ fd' = [fd EXCEPT ![o] = f]
                                   /\ conn' = At(conn, f, "accepted")
                                   /\ nonblock' = At(nonblock, f, FALSE)
      BY <1>2 DEF Accept
    <2>2. ~IsOpen(o)
      BY <1>2 DEF Accept
    <2>3. Released(o) = conn
      BY <2>2 DEF Released
    <2>4. \A g \in Fd \ {f} : nonblock'[g] = nonblock[g]
      BY <2>1 DEF At
    <2>5. Moves(o) /\ fd'[o] = f /\ (f > 0 => conn'[f] = "accepted")
      BY <1>0, <2>1, <2>3, <2>4, TakesNew
    <2>6. Minds(o) /\ ~connected'[o]
      BY <1>0, <1>2, <2>2 DEF Minds, Accept, Idle, StatusAt
    <2> QED
      BY <1>1, <2>5, <2>6 DEF ModeAt, StatusAt, IsOpen
  <1>3. ASSUME NEW p \in Tcps, Assign(o, p)
        PROVE  Sound'
    <2>1. ~IsOpen(o) /\ ~IsOpen(p)
      BY <1>3 DEF Assign
    <2>2. /\ fd' = [fd EXCEPT ![o] = fd[p]] /\ conn' = conn /\ nonblock' = nonblock
          /\ connected' = [connected EXCEPT ![o] = connected[p]]
      BY <1>3 DEF Assign, kernVars
    <2>3. Released(o) = conn
      BY <2>1 DEF Released
    <2>4. fd[p] \in {-1, 0}
      BY <1>0, <2>1, NotOpenFd
    <2>5. Moves(o) /\ ~IsOpen(o)'
      BY <1>0, <2>2, <2>3, <2>4, GivesBack
    <2>6. Minds(o) /\ ~connected'[o]
      <3>1. StatusAt(p)
        BY DEF Sound
      <3>2. ~connected'[o]
        BY <1>0, <2>1, <2>2, <3>1 DEF StatusAt
      <3> QED
        BY <1>0, <1>3, <3>2 DEF Minds, Assign, Idle
    <2> QED
      BY <1>1, <2>5, <2>6 DEF ModeAt, StatusAt
  <1> QED
    BY <1>2, <1>3

\* A connect that has a new socket and does not wait: its mode is as the
\* object says, and the object says so while it goes on.
LEMMA ReturnsNew ==
    ASSUME TcpTypeOK, TcpTypeOK', Sound, Idle, NEW o \in Tcps,
           NEW f \in NewFd(Released(o)), NEW k \in {"up", "failed", "waiting"},
           NEW b, (k = "waiting" /\ f > 0) => b,
           Returns(o, f, At(Released(o), f, k), b),
           connected' = [connected EXCEPT ![o] = @ /\ ~IsOpen(o)]
    PROVE  Sound'
  <1>1. /\ o \in Socks /\ StatusAt(o)
        /\ connecting \in [Tcps -> BOOLEAN] /\ connected \in [Tcps -> BOOLEAN]
        /\ blocking[o] \in BOOLEAN
    BY DEF Sound, TcpTypeOK, Socks
  <1>2. /\ \A g \in Fd \ {f} : nonblock'[g] = nonblock[g]
        /\ f > 0 => nonblock'[f] = ~blocking[o]
    BY <1>1, RestoredApply, NewFdFacts DEF Returns
  <1>3. Moves(o) /\ fd'[o] = f /\ (f > 0 => conn'[f] = k)
    BY <1>1, <1>2, TakesNew DEF Returns
  <1>4. Minds(o) /\ blocking' = blocking /\ connecting'[o] = b
    BY <1>1 DEF Minds, Returns, Idle
  <1>5. ~connected'[o]
    BY <1>1 DEF StatusAt
  <1>6. ModeAt(o)'
    BY <1>2, <1>3, <1>4 DEF ModeAt, IsOpen
  <1>7. StatusAt(o)'
    BY <1>3, <1>4, <1>5 DEF StatusAt, IsOpen
  <1> QED
    BY <1>1, <1>3, <1>4, <1>6, <1>7, AboutOnlyKeeps DEF AboutOnly

\* A connect that leaves the object without a socket.
LEMMA ReturnsNone ==
    ASSUME TcpTypeOK, TcpTypeOK', Sound, Idle, NEW o \in Tcps, NEW b,
           Returns(o, -1, Released(o), b),
           connected' = [connected EXCEPT ![o] = @ /\ ~IsOpen(o)]
    PROVE  Sound'
  <1>1. /\ o \in Socks /\ StatusAt(o)
        /\ connecting \in [Tcps -> BOOLEAN] /\ connected \in [Tcps -> BOOLEAN]
        /\ blocking[o] \in BOOLEAN
    BY DEF Sound, TcpTypeOK, Socks
  <1>2. \A g \in Fd : nonblock'[g] = nonblock[g]
    BY <1>1, RestoredApply, FdFacts DEF Returns
  <1>3. Moves(o) /\ ~IsOpen(o)'
    BY <1>1, <1>2, GivesBack DEF Returns
  <1>4. Minds(o) /\ ~connected'[o]
    BY <1>1 DEF Minds, Returns, Idle, StatusAt
  <1> QED
    BY <1>1, <1>3, <1>4, AboutOnlyKeeps DEF AboutOnly, ModeAt, StatusAt

\* A connect that waits: what its object says is not asked until it is over.
LEMMA WaitsSound ==
    ASSUME TcpTypeOK, TcpTypeOK', Sound, Idle, NEW o \in Tcps,
           NEW f \in NewFd(Released(o)), f > 0,
           NEW fn \in {"raw", "i4", "s4"}, NEW ends \in {"clock", "user"},
           Waits(o, f, At(Released(o), f, "waiting"), fn, ends),
           connected' = [connected EXCEPT ![o] = @ /\ ~IsOpen(o)]
    PROVE  Sound'
  <1>1. /\ o \in Socks /\ StatusAt(o)
        /\ connecting \in [Tcps -> BOOLEAN] /\ connected \in [Tcps -> BOOLEAN]
        /\ blocking \in [Tcps -> BOOLEAN]
    BY DEF Sound, TcpTypeOK, Socks
  <1>2. \A g \in Fd \ {f} : nonblock'[g] = nonblock[g]
    BY DEF Waits, Unblocked, At
  <1>3. Moves(o) /\ fd'[o] = f
    BY <1>1, <1>2, TakesNew DEF Waits
  <1>4. ~connected'[o] /\ call'.o = o
    BY <1>1 DEF Waits, StatusAt
  <1>5. Minds(o)
    BY <1>1, <1>4 DEF Minds, Waits, Idle
  <1>6. ~OutOfCall(o)'
    <2>1. call' \in Calls
      BY <1>1, TcpAssumption DEF Waits, Calls
    <2> QED
      BY <1>4, <2>1, TcpAssumption DEF OutOfCall, Idle
  <1> QED
    BY <1>1, <1>3, <1>4, <1>5, <1>6, AboutOnlyKeeps DEF AboutOnly, ModeAt, StatusAt

\* try_connect keeps its descriptor; only a connect that it begins can wait.
LEMMA TrySound ==
    ASSUME TcpTypeOK, TcpTypeOK', Sound, NEW o \in Tcps, TryConnect(o)
    PROVE  Sound'
  <1>1. /\ o \in Socks /\ StatusAt(o) /\ Idle /\ IsOpen(o)
        /\ fd[o] \in Fd /\ conn[fd[o]] # "closed"
        /\ connecting \in [Tcps -> BOOLEAN]
        /\ UNCHANGED <<fd, connected, blocking, call, shared>>
        /\ nonblock' = At(nonblock, fd[o], ~blocking[o])
    BY DEF Sound, HeldInv, TcpTypeOK, Socks, TryConnect, IsOpen
  <1>2. PICK c \in CASE conn[fd[o]] \in {"fresh", "failed"} -> Attempts(~blocking[o])
                     [] conn[fd[o]] \in Pending ->
                            IF ~blocking[o] THEN {"left"} ELSE {"up", "failed"}
                     [] OTHER -> {conn[fd[o]]} :
             /\ conn' = At(conn, fd[o], c)
             /\ connecting' = [connecting EXCEPT ![o] = c = "waiting"]
    BY DEF TryConnect
  <1>3. c # "closed"
    BY <1>1, <1>2 DEF Attempts, Pending
  <1>4. /\ \A g \in Fd : g # fd[o] => conn'[g] = conn[g] /\ nonblock'[g] = nonblock[g]
        /\ conn'[fd[o]] = c
        /\ nonblock'[fd[o]] = ~blocking[o]
    BY <1>1, <1>2 DEF At
  <1>5. Moves(o)
    BY <1>1, <1>3, <1>4, KeepsFd
  <1>6. Minds(o) /\ (c = "waiting" => connecting'[o])
    BY <1>1, <1>2 DEF Minds, Idle
  <1>7. ModeAt(o)'
    BY <1>1, <1>4 DEF ModeAt
  <1>8. StatusAt(o)'
    BY <1>1, <1>4, <1>6 DEF StatusAt, IsOpen
  <1> QED
    BY <1>1, <1>5, <1>6, <1>7, <1>8, AboutOnlyKeeps DEF AboutOnly

\* i4connect and s4connect, whichever way they go.
LEMMA ReconnectSound ==
    ASSUME TcpTypeOK, TcpTypeOK', Sound, NEW o \in Tcps,
           NEW fn \in {"i4", "s4"}, NEW before, Reconnect(o, fn, before)
    PROVE  Sound'
  <1>1. Idle /\ connected' = [connected EXCEPT ![o] = @ /\ ~IsOpen(o)]
    BY DEF Reconnect
  <1>2. PICK f \in NewFd(Released(o)) :
            \/ f = -1 /\ Returns(o, -1, Released(o), before /\ ~IsOpen(o))
            \/ f >= 0 /\ Returns(o, f, At(Released(o), f, "up"), FALSE)
            \/ f > 0 /\ Returns(o, -1, Released(o), FALSE)
            \/ f = 0 /\ Returns(o, 0, At(Released(o), 0, "failed"), FALSE)
            \/ f > 0 /\ \E ends \in {"clock", "user"} :
                  Waits(o, f, At(Released(o), f, "waiting"), fn, ends)
    BY DEF Reconnect
  <1>3. CASE f = -1 /\ Returns(o, -1, Released(o), before /\ ~IsOpen(o))
    BY <1>1, <1>3, ReturnsNone
  <1>4. CASE f >= 0 /\ Returns(o, f, At(Released(o), f, "up"), FALSE)
    BY <1>1, <1>4, ReturnsNew
  <1>5. CASE f > 0 /\ Returns(o, -1, Released(o), FALSE)
    BY <1>1, <1>5, ReturnsNone
  <1>6. CASE f = 0 /\ Returns(o, 0, At(Released(o), 0, "failed"), FALSE)
    BY <1>1, <1>6, ReturnsNew
  <1>7. CASE f > 0 /\ \E ends \in {"clock", "user"} :
                  Waits(o, f, At(Released(o), f, "waiting"), fn, ends)
    BY <1>1, <1>7, WaitsSound
  <1> QED
    BY <1>2, <1>3, <1>4, <1>5, <1>6, <1>7

\* The five ways to connect leave their object as it says it is.
LEMMA ConnectSound ==
    ASSUME TcpTypeOK, TcpTypeOK', Sound, NEW o \in Tcps,
           RawConnect(o) \/ RawConnectSin(o) \/ I4Connect(o) \/ S4Connect(o) \/ Connect(o)
    PROVE  Sound'
  <1>0. /\ o \in Socks /\ ModeAt(o) /\ StatusAt(o)
        /\ connecting \in [Tcps -> BOOLEAN] /\ connected \in [Tcps -> BOOLEAN]
        /\ fd[o] \in Fd \cup {-1} /\ conn \in [Fd -> Conns]
        /\ IsOpen(o) => conn[fd[o]] # "closed"
    BY DEF Sound, HeldInv, TcpTypeOK, Socks
  <1>1. ASSUME ~IsOpen(o), connected' = connected
        PROVE  /\ Released(o) = conn
               /\ connected' = [connected EXCEPT ![o] = @ /\ ~IsOpen(o)]
    <2>1. Released(o) = conn
      BY <1>1 DEF Released
    <2>2. connected[o] = FALSE
      BY <1>0, <1>1 DEF StatusAt
    <2> QED
      BY <1>0, <1>1, <2>1, <2>2
  <1>2. CASE RawConnectSin(o)
    <2>1. PICK f \in NewFd(conn) : \E c \in Attempts(f > 0) :
              Returns(o, f, At(conn, f, c), f >= 0 /\ c = "waiting")
      BY <1>2 DEF RawConnectSin
    <2>0. f > 0 => f >= 0
      BY NewFdFacts
    <2>2. PICK c \in Attempts(f > 0) :
              Returns(o, f, At(conn, f, c), f >= 0 /\ c = "waiting")
      BY <2>1
    <2>3. Idle /\ ~IsOpen(o) /\ connected' = connected
      BY <1>2 DEF RawConnectSin
    <2>4. c \in {"up", "failed", "waiting"}
      BY DEF Attempts
    <2>5. (c = "waiting" /\ f > 0) => (f >= 0 /\ c = "waiting")
      BY <2>0
    <2> QED
      BY <1>1, <2>2, <2>3, <2>4, <2>5, ReturnsNew
  <1>3. CASE Idle /\ ~IsOpen(o) /\ UNCHANGED <<connected, shared>>
             /\ \E f \in NewFd(conn) :
                   f > 0 /\ Waits(o, f, At(conn, f, "waiting"), "raw", "clock")
    BY <1>1, <1>3, WaitsSound
  <1>4. ASSUME NEW before, S4ConnectFrom(o, before)
        PROVE  Sound'
    <2>1. CASE Idle /\ connected' = [connected EXCEPT ![o] = @ /\ ~IsOpen(o)]
               /\ shared' = shared
               /\ \E f \in NewFd(Released(o)) :
                     f > 0 /\ Returns(o, f, At(Released(o), f, "waiting"), TRUE)
      BY <2>1, ReturnsNew
    <2> QED
      BY <1>4, <2>1, ReconnectSound DEF S4ConnectFrom
  <1>5. CASE /\ Idle
             /\ connecting' = [connecting EXCEPT ![o] = FALSE]
             /\ conn' = IF IsOpen(o) THEN Deserted(fd[o]) ELSE conn
             /\ UNCHANGED <<nonblock, fd, connected, blocking, call, shared>>
    <2>1. /\ \A g \in Fd : g # fd[o] => conn'[g] = conn[g]
          /\ IsOpen(o) => conn'[fd[o]] = IF conn[fd[o]] = "waiting" THEN "left"
                                         ELSE conn[fd[o]]
      BY <1>0, <1>5 DEF Deserted, At, IsOpen
    <2>2. Moves(o)
      BY <1>0, <1>5, <2>1, KeepsFd
    <2>3. Minds(o)
      BY <1>0, <1>5 DEF Minds, Idle
    <2>4. ModeAt(o)' /\ StatusAt(o)'
      BY <1>0, <1>5, <2>1 DEF ModeAt, StatusAt, IsOpen, OutOfCall, Idle
    <2> QED
      BY <1>0, <2>2, <2>3, <2>4, AboutOnlyKeeps DEF AboutOnly
  <1>6. RawConnect(o) => Sound'
    BY <1>2, <1>3 DEF RawConnect
  <1>7. I4Connect(o) => Sound'
    BY ReconnectSound DEF I4Connect
  <1>8. S4Connect(o) => Sound'
    BY <1>4 DEF S4Connect
  <1>9. Connect(o) => Sound'
    BY <1>4, <1>5 DEF Connect
  <1> QED
    BY <1>2, <1>6, <1>7, <1>8, <1>9

\* The loop: the object whose connect is over is as its guard leaves it.
LEMMA LoopSound ==
    ASSUME TcpTypeOK, TcpTypeOK', Sound, LoopConnected \/ LoopWaits \/ LoopStops
    PROVE  Sound'
  <1>0. call \in Calls /\ ~Idle
    BY DEF LoopConnected, LoopWaits, LoopStops, Idle, TcpTypeOK
  <1>a. PICK o \in Tcps : o = call.o
    BY <1>0 DEF Calls
  <1>1. /\ o = call.o /\ o \in Tcps /\ o \in Socks
        /\ IsOpen(o) /\ fd[o] \in Fd /\ conn[fd[o]] # "closed"
        /\ call.saved \in BOOLEAN /\ StatusAt(o)
        /\ fd \in [Socks -> Fd \cup {-1}] /\ conn \in [Fd -> Conns]
        /\ connecting \in [Tcps -> BOOLEAN] /\ connected \in [Tcps -> BOOLEAN]
        /\ blocking \in [Tcps -> BOOLEAN]
    <2>1. o = call.o /\ o \in Socks /\ IsOpen(o) /\ call.saved \in BOOLEAN
      BY <1>0, <1>a DEF Idle, TcpTypeOK, Calls, Socks
    <2> QED
      BY <2>1 DEF TcpTypeOK, IsOpen, Sound, HeldInv
  <1>2. ASSUME NEW f, NEW c, NEW b, Leaves(f, c, b),
               \A p \in Tcps \ {o} : connected'[p] = connected[p]
        PROVE  /\ Minds(o) /\ connecting'[o] = b /\ blocking'[o] = call.saved
               /\ fd' = [fd EXCEPT ![o] = f] /\ conn' = c
               /\ \A g \in Fd \ {f} : nonblock'[g] = nonblock[g]
               /\ f \in Fd /\ f > 0 => nonblock'[f] = ~call.saved
    <2>1. nonblock' = Restored(f, call.saved)
      BY <1>2 DEF Leaves
    <2>2. Minds(o) /\ connecting'[o] = b /\ blocking'[o] = call.saved
      BY <1>0, <1>1, <1>2 DEF Leaves, Minds, Idle
    <2> QED
      BY <1>1, <1>2, <2>1, <2>2, RestoredApply DEF Leaves
  <1>3. ASSUME NEW c \in [Fd -> Conns], NEW b, Leaves(fd[o], c, b), connected' = connected,
               \A g \in Fd : g # fd[o] => c[g] = conn[g],
               c[fd[o]] # "closed", c[fd[o]] = "waiting" => b
        PROVE  Sound'
    <2>1. /\ Minds(o) /\ connecting'[o] = b /\ blocking'[o] = call.saved
          /\ fd' = fd /\ conn' = c
          /\ \A g \in Fd \ {fd[o]} : nonblock'[g] = nonblock[g]
          /\ nonblock'[fd[o]] = ~call.saved
      BY <1>1, <1>2, <1>3 DEF IsOpen
    <2>2. Moves(o)
      BY <1>1, <1>3, <2>1, KeepsFd
    <2>3. ModeAt(o)'
      BY <2>1 DEF ModeAt
    <2>4. StatusAt(o)'
      BY <1>1, <1>3, <2>1 DEF StatusAt, IsOpen
    <2> QED
      BY <1>1, <2>1, <2>2, <2>3, <2>4, AboutOnlyKeeps DEF AboutOnly
  <1>4. CASE LoopConnected
    <2>1. conn[fd[o]] \in {"up", "failed"} /\ Leaves(fd[o], conn, FALSE)
          /\ connected' = connected
      BY <1>1, <1>4 DEF LoopConnected, Writable
    <2> QED
      BY <1>1, <1>3, <2>1
  <1>5. CASE LoopWaits
    <2>1. UNCHANGED <<conn, nonblock, fd, connecting, connected, blocking>>
          /\ call'.o = o
      BY <1>0, <1>1, <1>5 DEF LoopWaits, kernVars, objVars, Calls
    <2>2. call' # NoCall
      <3>1. call \in Calls
        BY <1>0
      <3>2. call' \in Calls
        <4>1. (IF call.waited = TOUT THEN call.waited ELSE Elapsed(call.waited))
                  \in 0 .. TOUT
          BY <3>1, TcpAssumption DEF Elapsed, Calls
        <4> QED
          BY <1>5, <3>1, <4>1 DEF LoopWaits, Calls
      <3> QED
        BY <3>2, TcpAssumption
    <2>3. \A p : OutOfCall(p)' => OutOfCall(p)
      BY <1>0, <1>1, <2>1, <2>2 DEF OutOfCall, Idle
    <2> QED
      BY <2>1, <2>3 DEF Sound, HeldInv, ModeAt, StatusAt, IsOpen
  <1>6. CASE Leaves(fd[o], conn, StillConnecting) /\ UNCHANGED connected
    BY <1>1, <1>3, <1>6 DEF StillConnecting
  <1>7. CASE Leaves(fd[o], Deserted(fd[o]), FALSE) /\ UNCHANGED connected
    <2>1. /\ Deserted(fd[o]) \in [Fd -> Conns]
          /\ \A g \in Fd : g # fd[o] => Deserted(fd[o])[g] = conn[g]
          /\ Deserted(fd[o])[fd[o]] = IF conn[fd[o]] = "waiting" THEN "left"
                                      ELSE conn[fd[o]]
      BY <1>1 DEF Deserted, At, Conns
    <2> QED
      BY <1>1, <1>3, <1>7, <2>1
  <1>8. CASE /\ Leaves(ClosedFd(o), Released(o), FALSE)
             /\ connected' = [connected EXCEPT ![o] = FALSE]
    <2>1. ClosedFd(o) = -1
      BY <1>1 DEF ClosedFd
    <2>2. /\ Minds(o) /\ fd' = [fd EXCEPT ![o] = -1] /\ conn' = Released(o)
          /\ \A g \in Fd : nonblock'[g] = nonblock[g]
      <3>1. Leaves(-1, Released(o), FALSE)
        BY <1>8, <2>1
      <3>2. \A p \in Tcps \ {o} : connected'[p] = connected[p]
        BY <1>1, <1>8
      <3>3. /\ Minds(o) /\ fd' = [fd EXCEPT ![o] = -1] /\ conn' = Released(o)
            /\ \A g \in Fd \ {-1} : nonblock'[g] = nonblock[g]
        BY <1>2, <3>1, <3>2
      <3> QED
        BY <3>3, FdFacts
    <2>3. Moves(o) /\ ~IsOpen(o)'
      BY <1>1, <2>2, GivesBack
    <2>4. ~connected'[o]
      BY <1>1, <1>8
    <2> QED
      BY <1>1, <2>2, <2>3, <2>4, AboutOnlyKeeps DEF AboutOnly, ModeAt, StatusAt
  <1>9. LoopStops => \/ Leaves(fd[o], conn, StillConnecting) /\ UNCHANGED connected
                     \/ Leaves(fd[o], Deserted(fd[o]), FALSE) /\ UNCHANGED connected
                     \/ /\ Leaves(ClosedFd(o), Released(o), FALSE)
                        /\ connected' = [connected EXCEPT ![o] = FALSE]
    BY <1>1 DEF LoopStops
  <1> QED
    BY <1>4, <1>5, <1>6, <1>7, <1>8, <1>9

\* The server's socket is no client's, and the network opens and closes nothing.
LEMMA ServerSound ==
    ASSUME TcpTypeOK, TcpTypeOK', Sound, SrvCreate \/ Listen \/ SrvDestroy \/ NetAnswers
    PROVE  Sound'
  <1>1. /\ SrvSock \in Socks /\ SrvSock \notin Tcps
        /\ fd[SrvSock] \in Fd \cup {-1} /\ fd \in [Socks -> Fd \cup {-1}]
        /\ conn \in [Fd -> Conns]
    BY TcpAssumption DEF TcpTypeOK, Socks
  <1>2. ASSUME Moves(SrvSock), UNCHANGED <<connecting, connected, blocking, call>>, Idle
        PROVE  Sound'
    BY <1>1, <1>2, AboutOnlyKeeps DEF AboutOnly, Minds, Idle
  <1>3. CASE SrvCreate
    <2>1. Idle /\ ~IsOpen(SrvSock) /\ UNCHANGED <<connecting, connected, blocking, call>>
      BY <1>3 DEF SrvCreate
    <2>2. PICK f \in NewFd(conn) :
              \/ /\ fd' = [fd EXCEPT ![SrvSock] = f]
                 /\ conn' = At(conn, f, "fresh")
                 /\ nonblock' = At(nonblock, f, FALSE)
              \/ /\ f > 0
                 /\ fd' = [fd EXCEPT ![SrvSock] = -1]
                 /\ UNCHANGED kernVars
      BY <1>3 DEF SrvCreate
    <2>3. Released(SrvSock) = conn
      BY <2>1 DEF Released
    <2>4. CASE /\ fd' = [fd EXCEPT ![SrvSock] = f]
               /\ conn' = At(conn, f, "fresh")
               /\ nonblock' = At(nonblock, f, FALSE)
      <3>1. \A g \in Fd \ {f} : nonblock'[g] = nonblock[g]
        BY <2>4 DEF At
      <3> QED
        BY <1>1, <1>2, <2>1, <2>3, <2>4, <3>1, TakesNew
    <2>5. CASE fd' = [fd EXCEPT ![SrvSock] = -1] /\ UNCHANGED kernVars
      BY <1>1, <1>2, <2>1, <2>3, <2>5, GivesBack DEF kernVars
    <2> QED
      BY <2>2, <2>4, <2>5
  <1>4. CASE Listen
    <2>1. conn' = At(conn, fd[SrvSock], "listening") /\ IsOpen(SrvSock) /\ Idle
          /\ UNCHANGED <<nonblock, fd, connecting, connected, blocking, call>>
      BY <1>4 DEF Listen, objVars
    <2>2. Moves(SrvSock)
      <3>1. /\ \A g \in Fd : g # fd[SrvSock] => conn'[g] = conn[g]
            /\ conn'[fd[SrvSock]] = "listening"
        BY <1>1, <2>1 DEF At, IsOpen
      <3> QED
        BY <1>1, <2>1, <3>1, KeepsFd
    <2> QED
      BY <1>2, <2>1, <2>2
  <1>5. CASE SrvDestroy
    <2>1. ClosedFd(SrvSock) \in {-1, 0}
      BY <1>1, NotOpenFd DEF ClosedFd
    <2>2. Moves(SrvSock)
      BY <1>1, <1>5, <2>1, GivesBack DEF SrvDestroy
    <2> QED
      BY <1>2, <1>5, <2>2 DEF SrvDestroy
  <1>6. CASE NetAnswers
    <2>1. PICK f \in Fd : Answers(f)
      BY <1>6 DEF NetAnswers
    <2>2. UNCHANGED <<nonblock, fd, connecting, connected, blocking, call>>
      BY <1>6, <2>1 DEF NetAnswers, objVars, Answers
    <2>3. \A g \in Fd : \/ conn'[g] = conn[g]
                       \/ /\ conn[g] \in {"waiting", "left", "up"}
                          /\ conn'[g] \in {"up", "failed"}
      BY <1>1, <2>1 DEF Answers, Pending, At
    <2>4. HeldInv'
      BY <1>1, <2>2, <2>3 DEF Sound, HeldInv, IsOpen
    <2>5. ASSUME NEW o \in Tcps
          PROVE  ModeAt(o)' /\ StatusAt(o)'
      <3>1. ModeAt(o) /\ StatusAt(o) /\ (IsOpen(o) => fd[o] \in Fd)
        BY DEF Sound, TcpTypeOK, Socks, IsOpen
      <3>2. OutOfCall(o)' <=> OutOfCall(o)
        BY <2>2 DEF OutOfCall, Idle
      <3> QED
        BY <2>2, <2>3, <3>1, <3>2 DEF ModeAt, StatusAt, IsOpen
    <2> QED
      BY <2>4, <2>5 DEF Sound
  <1> QED
    BY <1>3, <1>4, <1>5, <1>6

\* Every step of the TCP classes keeps the invariant,
LEMMA TcpStep ==
    ASSUME TcpInv, TcpNext \/ UNCHANGED tcpVars
    PROVE  TcpInv'
  <1>1. CASE TcpNext
    <2>1. TcpTypeOK'
      BY <1>1, TcpTypes DEF TcpInv
    <2>2. ~shared' => ~shared
      BY <1>1 DEF TcpNext, TcpDestroy, SendAllFails, Destroy, Create, SetBlocking,
         IsReallyConnected, SetConnected, Assign, TryConnect, RawConnectSin, RawConnect,
         I4Connect, S4Connect, Connect, S4ConnectFrom, Reconnect, Accept, LoopConnected,
         LoopWaits, LoopStops, Leaves, SrvCreate, Listen, SrvDestroy, NetAnswers
    <2>3. ASSUME ~shared'
          PROVE  Sound'
      BY <1>1, <2>1, <2>2, <2>3, BasicSound, CopySound, TrySound, ConnectSound, LoopSound,
         ServerSound DEF TcpInv, TcpNext, TcpDestroy, SendAllFails, Create, SetBlocking,
         IsReallyConnected, SetConnected
    <2> QED
      BY <2>1, <2>3 DEF TcpInv
  <1>2. CASE UNCHANGED tcpVars
    BY <1>2 DEF tcpVars, kernVars, objVars, TcpInv, TcpTypeOK, Sound, HeldInv, ModeAt,
       StatusAt, OutOfCall, Idle, IsOpen
  <1> QED
    BY <1>1, <1>2

\* which holds at first.
LEMMA TcpStart == TcpInit => TcpInv
  <1> SUFFICES ASSUME TcpInit
               PROVE  TcpInv
    OBVIOUS
  <1>1. /\ conn \in [Fd -> Conns] /\ nonblock \in [Fd -> BOOLEAN]
        /\ \A f \in Fd \ {0} : conn[f] = "closed"
    BY DEF TcpInit, KernInit, Conns
  <1>2. fd = [o \in Socks |-> -1] /\ Tcps \subseteq Socks
    BY DEF TcpInit, Socks
  <1>3. \A o \in Socks : ~IsOpen(o)
    BY <1>2 DEF IsOpen
  <1>4. TcpTypeOK
    BY <1>1, <1>2 DEF TcpInit, TcpTypeOK
  <1>5. HeldInv
    BY <1>1, <1>3 DEF HeldInv
  <1>6. \A o \in Tcps : ModeAt(o) /\ StatusAt(o)
    BY <1>2, <1>3 DEF TcpInit, ModeAt, StatusAt
  <1> QED
    BY <1>4, <1>5, <1>6 DEF TcpInv, Sound

\* The invariant says what the properties say.
LEMMA TcpInvHolds == TcpInv => HeldOnce /\ ModeKnown /\ StatusKnown
  <1> SUFFICES ASSUME TcpInv
               PROVE  HeldOnce /\ ModeKnown /\ StatusKnown
    OBVIOUS
  <1>1. ASSUME ~shared, NEW f \in Fd \ {0}
        PROVE  IF conn[f] = "closed" THEN {o \in Socks : fd[o] = f} = {}
               ELSE \E o \in Socks : {p \in Socks : fd[p] = f} = {o}
    <2>1. HeldInv /\ f > 0
      BY <1>1, FdAssumption DEF TcpInv, Sound, Fd
    <2>2. \A o \in Socks : fd[o] = f => IsOpen(o) /\ conn[f] # "closed"
      BY <2>1 DEF HeldInv, IsOpen
    <2>3. CASE conn[f] = "closed"
      BY <2>2, <2>3
    <2>4. CASE conn[f] # "closed"
      <3>1. PICK o \in Socks : fd[o] = f
        BY <1>1, <2>1, <2>4 DEF HeldInv
      <3>2. \A p \in Socks : fd[p] = f => p = o
        BY <2>1, <2>2, <3>1 DEF HeldInv
      <3>3. {p \in Socks : fd[p] = f} = {o}
        BY <3>1, <3>2
      <3> QED
        BY <2>4, <3>3
    <2> QED
      BY <2>3, <2>4
  <1>2. ModeKnown
    BY DEF TcpInv, Sound, ModeKnown, ModeAt, OutOfCall
  <1>3. StatusKnown
    BY DEF TcpInv, Sound, StatusKnown, StatusAt, OutOfCall
  <1> QED
    BY <1>1, <1>2, <1>3 DEF HeldOnce

\* The invariant holds in every reachable state.
LEMMA TcpInvariant == Spec => []TcpInv
  <1>1. Init => TcpInv
    BY TcpStart DEF Init
  <1>2. TcpInv /\ [Next]_vars => TcpInv'
    <2>1. [Next]_vars => TcpNext \/ UNCHANGED tcpVars
      BY DEF Next, vars
    <2> QED
      BY <2>1, TcpStep
  <1> QED
    BY <1>1, <1>2, PTL DEF Spec

\* Whatever fails and whatever is called next, as long as no open object is
\* written over, every descriptor above 0 is that of one object: none is
\* leaked and none closed by another (sock.cpp:490, sock.cpp:547).
THEOREM DescriptorsHeldOnce == Spec => []HeldOnce
  <1>1. TcpInv => HeldOnce
    BY TcpInvHolds
  <1> QED
    BY <1>1, TcpInvariant, PTL

\* After any calls a connection blocks exactly when its object says so
\* (sock.cpp:34, sock.cpp:203).
THEOREM ModesAreKnown == Spec => []ModeKnown
  <1>1. TcpInv => ModeKnown
    BY TcpInvHolds
  <1> QED
    BY <1>1, TcpInvariant, PTL

\* An object that is closed never says that it is connected, and one whose
\* connect is on its way, but for the cases named "left", says that it is
\* connecting (sock.cpp:893, sock.cpp:999, sock.cpp:1078).
THEOREM StatusIsKnown == Spec => []StatusKnown
  <1>1. TcpInv => StatusKnown
    BY TcpInvHolds
  <1> QED
    BY <1>1, TcpInvariant, PTL

-----------------------------------------------------------------------------
(* The threads.                                                            *)

\* An object that was started once at most has no thread but that in its
\* handle.  _stopped is false while this one is in thread_main, and _joined
\* says that it has ended.
OneThread ==
    /\ \A t \in Runs : place[t] # "none" => t = handle
    /\ joined => place[handle] = "ended"
    /\ stopped => \A t \in Runs : place[t] \in {"none", "born", "ended"}

ThrInv == ThrTypeOK /\ NoneOutlives /\ (~restarted => OneThread)

\* A step of a thread keeps it.
LEMMA ThreadKeeps ==
    ASSUME ThrInv, NEW t \in Runs,
           Begins(t) \/ CallsMain(t) \/ CallsPure(t) \/ MainReturns(t) \/ Finishes(t)
    PROVE  ThrInv'
  <1> USE DEF ThrInv, ThrTypeOK, NoneOutlives, OneThread, Unmade, Proceeds
  <1>1. CASE Begins(t)
    BY <1>1 DEF Begins
  <1>2. CASE MainReturns(t)
    BY <1>2 DEF MainReturns
  <1>3. CASE Finishes(t)
    BY <1>3 DEF Finishes
  <1>4. CASE CallsMain(t)
    BY <1>4 DEF CallsMain
  <1>5. CASE CallsPure(t)
    BY <1>5 DEF CallsPure
  <1> QED
    BY <1>1, <1>2, <1>3, <1>4, <1>5

\* A start makes the first thread of the object, or the object a restarted one.
LEMMA StartKeeps ==
    ASSUME ThrInv, StartThread
    PROVE  ThrInv'
  <1> USE DEF ThrInv, ThrTypeOK, NoneOutlives, OneThread, Unmade
  <1>1. CASE UNCHANGED <<place, handle>>
    BY <1>1 DEF StartThread, MayCall
  <1>2. ASSUME NEW t \in Runs, place[t] = "none", handle' = t,
               place' = [place EXCEPT ![t] = "born"]
        PROVE  ThrInv'
    <2>1. ThrTypeOK' /\ NoneOutlives'
      BY <1>2, ThreadAssumption DEF StartThread, MayCall
    <2>2. ASSUME ~restarted'
          PROVE  OneThread'
      <3>1. ~restarted /\ handle = NoThread
        BY <2>2 DEF StartThread
      <3>2. \A r \in Runs : place[r] = "none"
        BY <3>1, ThreadAssumption
      <3>3. ~joined /\ ~joined'
        BY <3>1 DEF StartThread
      <3>4. \A r \in Runs : place'[r] = IF r = t THEN "born" ELSE "none"
        BY <1>2, <3>2
      <3> QED
        BY <1>2, <3>3, <3>4
    <2> QED
      BY <2>1, <2>2
  <1> QED
    BY <1>1, <1>2 DEF StartThread

\* When the subclass goes, a thread that was joined has ended.
LEMMA UnmakeKeeps ==
    ASSUME ThrInv, Unmake
    PROVE  ThrInv'
  <1>1. ThrTypeOK'
    BY DEF ThrInv, ThrTypeOK, Unmake, MayCall
  <1>2. ~restarted' => OneThread'
    BY DEF ThrInv, OneThread, Unmake
  <1>3. NoneOutlives'
    <2>1. SUFFICES ASSUME joined, ~restarted, NEW t \in Runs
                   PROVE  place[t] \in {"none", "ended"}
      BY DEF NoneOutlives, Unmake, MayCall
    <2> QED
      BY <2>1 DEF ThrInv, OneThread
  <1> QED
    BY <1>1, <1>2, <1>3 DEF ThrInv

\* ~OsThread of an object whose _stopped its thread wrote finds that this one
\* has ended, or joins it.
LEMMA DestructKeeps ==
    ASSUME ThrInv, Destruct
    PROVE  ThrInv'
  <1>1. ThrTypeOK' /\ ~gone
    BY DEF ThrInv, ThrTypeOK, Destruct
  <1>2. ~restarted' => OneThread'
    BY DEF ThrInv, OneThread, Destruct
  <1>3. NoneOutlives'
    <2>1. SUFFICES ASSUME gone' \/ joined', ~restarted', ~unseen', NEW t \in Runs
                   PROVE  place[t] \in {"none", "ended"}
      BY DEF NoneOutlives, Destruct
    <2>2. OneThread
      BY <2>1 DEF ThrInv, Destruct
    <2>3. CASE joined
      BY <2>2, <2>3 DEF OneThread
    <2>4. CASE ~joined
      <3>1. stopped
        BY <1>1, <2>1, <2>4 DEF Destruct
      <3>2. \A r \in Runs : place[r] # "born"
        BY <2>1, <3>1 DEF Destruct
      <3> QED
        BY <2>2, <3>1, <3>2 DEF OneThread
    <2> QED
      BY <2>3, <2>4
  <1> QED
    BY <1>1, <1>2, <1>3 DEF ThrInv

\* The steps of the caller keep it.
LEMMA CallerKeeps ==
    ASSUME ThrInv,
           SignalToStop \/ StopThread \/ TJoin \/ JoinReturns \/ JoinCrashes
    PROVE  ThrInv'
  <1> USE DEF ThrInv, ThrTypeOK, NoneOutlives, OneThread, Unmade, MayCall
  <1>1. CASE SignalToStop
    BY <1>1 DEF SignalToStop
  <1>2. CASE StopThread
    BY <1>2 DEF StopThread
  <1>3. CASE TJoin
    BY <1>3 DEF TJoin
  <1>4. CASE JoinReturns
    <2>1. ThrTypeOK'
      BY <1>4 DEF JoinReturns, JoinOver
    <2>2. ASSUME ~restarted'
          PROVE  OneThread' /\ \A t \in Runs : place[t] \in {"none", "ended"}
      <3>1. ~restarted /\ handle # NoThread /\ place[handle] = "ended"
        BY <1>4, <2>2 DEF JoinReturns, JoinOver
      <3> QED
        BY <1>4, <3>1 DEF JoinReturns
    <2> QED
      BY <1>4, <2>1, <2>2 DEF JoinReturns
  <1>5. CASE JoinCrashes
    BY <1>5 DEF JoinCrashes
  <1> QED
    BY <1>1, <1>2, <1>3, <1>4, <1>5

\* Every step keeps the invariant.
LEMMA ThrStep ==
    ASSUME ThrInv, ThrNext \/ UNCHANGED thrVars
    PROVE  ThrInv'
  <1> USE DEF ThrInv, ThrTypeOK, NoneOutlives, OneThread, Unmade
  <1>1. CASE Anew
    BY <1>1 DEF Anew
  <1>2. CASE UNCHANGED thrVars
    BY <1>2 DEF thrVars
  <1> QED
    BY <1>1, <1>2, ThreadKeeps, StartKeeps, UnmakeKeeps, DestructKeeps, CallerKeeps
    DEF ThrNext

\* The invariant holds in every reachable state.
LEMMA ThrInvariant == Spec => []ThrInv
  <1>1. Init => ThrInv
    BY DEF Init, ThrInit, ThrInv, ThrTypeOK, NoneOutlives, OneThread, Unmade
  <1>2. ThrInv /\ [Next]_vars => ThrInv'
    <2>1. [Next]_vars => ThrNext \/ UNCHANGED thrVars
      BY DEF Next, vars
    <2> QED
      BY <2>1, ThrStep
  <1> QED
    BY <1>1, <1>2, PTL DEF Spec

\* An object that was started once and joined has no thread from the moment
\* that its subclass is destroyed; one that was not joined, and whose _stopped
\* its thread wrote, has none when ~OsThread is through (osthread.h:93-108,
\* osthread.h:131-154).
THEOREM NoThreadOutlives == Spec => []NoneOutlives
  <1>1. ThrInv => NoneOutlives
    BY DEF ThrInv
  <1> QED
    BY <1>1, ThrInvariant, PTL

-----------------------------------------------------------------------------
(* The registry of pairs.                                                  *)

\* The parties of a complete pair are apart, and a second party came when
\* there was a first.
PairInv == PairsTypeOK /\ PairsApart

\* What is stored of a name has its type.
LEMMA StoreType ==
    ASSUME NEW x \in Ends
    PROVE  /\ x[1] \in Ipp /\ x[2] \in Ipp
           /\ Store(x[1]) \in Stored /\ Store(x[2]) \in Stored
  BY PairsAssumption DEF Store, Stored, Ipp

\* What add does to one name.
LEMMA AddKeeps ==
    ASSUME PairInv, NEW n \in Names, NEW x \in Ends, Add(n, x[1], x[2])
    PROVE  PairInv'
  <1> DEFINE p == x[1]
             q == x[2]
             e == pairs[n]
             f == pairs'[n]
  <1>1. p \in Ipp /\ q \in Ipp /\ Store(p) \in Stored /\ Store(q) \in Stored
    BY StoreType
  <1>2. pairs \in [Names -> PerPair \cup {NoPair}]
    BY DEF PairInv, PairsTypeOK
  <1>3. /\ f = IF e = NoPair THEN New(p, q) ELSE Joined(e, p, q)
        /\ \A m \in Names : m # n => pairs'[m] = pairs[m]
    BY <1>2 DEF Add
  <1>4. e # NoPair => e \in PerPair
    BY <1>2
  <1>5. Unset \in Stored
    BY DEF Unset, Stored
  <1>6. f \in PerPair /\ (f.b[1] # Unset => f.a[1].port # 0)
        /\ (Complete(f) /\ ~f.typed =>
              /\ f.a[1] \notin {f.b[1], f.b[2]}
              /\ f.a[2] \in {f.b[1], f.b[2]} => Loopback \in {f.b[1].host, f.b[2].host})
    <2>1. CASE e = NoPair
      <3>1. f = New(p, q)
        BY <1>3, <2>1
      <3> QED
        BY <3>1, <1>1, <1>5, PairsAssumption DEF New, PerPair, Complete, Unset
    <2>2. CASE e # NoPair /\ e.a[1].port = 0
      <3>1. f = [e EXCEPT !.a = <<Store(p), Store(q)>>]
        BY <1>3, <2>2 DEF Joined
      <3>2. f \in PerPair /\ f.b = e.b /\ f.a[1] = Store(p)
        BY <3>1, <1>1, <1>4, <2>2 DEF PerPair
      <3>3. e.b[1] = Unset
        BY <2>2 DEF PairInv, PairsTypeOK
      <3> QED
        BY <3>2, <3>3 DEF Complete, Unset
    <2>3. CASE e # NoPair /\ e.a[1].port # 0 /\ (e.b[1].port # 0 \/ SameOne(e, p, q))
      <3>1. f = e
        BY <1>3, <2>3 DEF Joined
      <3> QED
        BY <3>1, <1>4, <2>3 DEF PairInv, PairsApart
    <2>4. CASE e # NoPair /\ e.a[1].port # 0 /\ e.b[1].port = 0 /\ ~SameOne(e, p, q)
      <3>1. f = [e EXCEPT !.b = <<Store(p), Store(q)>>, !.typed = Typed(p, q)]
        BY <1>3, <2>4 DEF Joined
      <3>2. /\ f \in PerPair /\ f.a = e.a
            /\ f.b[1] = Store(p) /\ f.b[2] = Store(q) /\ f.typed = Typed(p, q)
        <4> DEFINE second == <<Store(p), Store(q)>>
                   typed == Typed(p, q)
        <4>1. f = [e EXCEPT !.b = second, !.typed = typed]
          BY <3>1
        <4>2. typed \in BOOLEAN
          BY DEF Typed
        <4>3. second \in Stored \X Stored /\ second[1] = Store(p) /\ second[2] = Store(q)
          BY <1>1
        <4> HIDE DEF second, typed, f, e
        <4>4. e \in PerPair
          BY <1>4, <2>4
        <4>5. f \in PerPair /\ f.a = e.a /\ f.b = second /\ f.typed = typed
          BY <4>1, <4>2, <4>3, <4>4 DEF PerPair
        <4> QED
          BY <4>3, <4>5 DEF typed
      <3>3. ASSUME ~f.typed
            PROVE  /\ f.a[1] \notin {f.b[1], f.b[2]}
                   /\ f.a[2] \in {f.b[1], f.b[2]} =>
                         Loopback \in {f.b[1].host, f.b[2].host}
        <4>1. p.typ = 0 /\ q.typ = 0
          BY <3>2, <3>3 DEF Typed
        <4>2. \A i \in {1, 2} : /\ e.a[i] = Store(p) => Equal(e.a[i], p)
                                /\ e.a[i] = Store(q) => Equal(e.a[i], q)
          BY <4>1 DEF Store, Equal
        <4>3. Store(p).host = p.host /\ Store(q).host = q.host
          BY DEF Store
        <4> QED
          BY <2>4, <3>2, <4>2, <4>3 DEF SameOne
      <3> QED
        BY <2>4, <3>2, <3>3
    <2> QED
      BY <2>1, <2>2, <2>3, <2>4
  <1>7. pairs' \in [Names -> PerPair \cup {NoPair}]
    BY <1>2, <1>3, <1>6 DEF Add
  <1> QED
    BY <1>3, <1>6, <1>7 DEF PairInv, PairsTypeOK, PairsApart

\* A second changes the age of a pair only.
LEMMA AgedKeeps ==
    ASSUME NEW e \in PerPair
    PROVE  /\ Aged(e) \in PerPair
           /\ Aged(e).a = e.a /\ Aged(e).b = e.b /\ Aged(e).typed = e.typed
  BY PairsAssumption DEF Aged, PerPair

\* The other steps take pairs away and count their age.
LEMMA PairStep ==
    ASSUME PairInv, PairsNext \/ UNCHANGED pairs
    PROVE  PairInv'
  <1> USE DEF PairInv, PairsTypeOK, PairsApart
  <1>1. CASE UNCHANGED pairs
    BY <1>1 DEF Complete
  <1>2. ASSUME NEW n \in Names, Remove(n)
        PROVE  PairInv'
    BY <1>2 DEF Remove, Complete
  <1>3. CASE DelOldies
    BY <1>3 DEF DelOldies, Complete
  <1>4. CASE PairsTick
    <2>1. \A e \in PerPair : Aged(e) \in PerPair
      BY AgedKeeps
    <2>2. \A n \in Names : pairs'[n] = IF pairs[n] = NoPair THEN NoPair ELSE Aged(pairs[n])
      BY <1>4 DEF PairsTick
    <2>3. pairs' \in [Names -> PerPair \cup {NoPair}]
      BY <1>4, <2>1 DEF PairsTick
    <2> QED
      BY <2>2, <2>3, AgedKeeps, NoPairAssumption DEF Complete
  <1> QED
    BY <1>1, <1>2, <1>3, <1>4, AddKeeps DEF PairsNext

\* The invariant holds in every reachable state.
LEMMA PairInvariant == Spec => []PairInv
  <1>1. Init => PairInv
    BY DEF Init, PairsInit, PairInv, PairsTypeOK, PairsApart, Complete
  <1>2. PairInv /\ [Next]_vars => PairInv'
    <2>1. [Next]_vars => PairsNext \/ UNCHANGED pairs
      BY DEF Next, vars
    <2> QED
      BY <2>1, PairStep
  <1> QED
    BY <1>1, <1>2, PTL DEF Spec

\* Whoever adds under whatever names, nobody is paired with himself but for
\* the types and the loopback, as add compares (peers.cpp:33-41).
THEOREM PairsAreApart == Spec => []PairsApart
  <1>1. PairInv => PairsApart
    BY DEF PairInv
  <1> QED
    BY <1>1, PairInvariant, PTL

-----------------------------------------------------------------------------
(* The cipher.                                                             *)

\* Beside the classes, too, the second call of ed gives back every whole
\* block of the buffer (per_id.h:59-86, per_id.cpp:7-30).
THEOREM BlocksReturn == Spec => []WholeBlocksReturn
  <1>1. Init => CodecInit
    BY DEF Init
  <1>2. [Next]_vars => [CodecNext]_codecVars
    BY DEF Next, vars
  <1> QED
    BY <1>1, <1>2, CipherReturns, PTL DEF Spec, CodecSpec

-----------------------------------------------------------------------------
(* All of them.                                                            *)

\* Whatever is called and whatever fails, each class keeps its types and what
\* goes with them: a call waits only in an open object that does not block
\* (sock.cpp:999), the kernel knows a peer only for a socket that is there
\* (sock.cpp:1360), a thread is joined only when it was started
\* (osthread.h:131), and a pair has a second party only after a first
\* (peers.cpp:26).
THEOREM LibTypeCorrect == Spec => []LibTypeOK
  <1>1. TcpInv /\ UdpInv /\ ThrInv /\ PairInv => LibTypeOK
    BY DEF TcpInv, UdpInv, ThrInv, PairInv, LibTypeOK
  <1> QED
    BY <1>1, TcpInvariant, UdpInvariant, ThrInvariant, PairInvariant, PTL
=============================================================================
