------------------------------- MODULE TcpSock -------------------------------
(***************************************************************************)
(* The TCP classes of src/sock.cpp: tcp_cli_sock objects and one           *)
(* tcp_srv_sock of a process, which has one thread.  Callers keep to the   *)
(* assertions of the code and otherwise call anything in any order.        *)
(*                                                                         *)
(* The code takes descriptor 0 for no descriptor: isopen is false of it,   *)
(* destroy does not close it and set_blocking does not touch it.           *)
(***************************************************************************)
EXTENDS Descriptors

CONSTANTS
    Tcps,       \* tcp_cli_sock objects
    SrvSock,    \* the tcp_srv_sock
    TOUT,       \* _tout, and the tout of raw_connect, in seconds
    NoCall

VARIABLES
    fd,         \* fd[o]: _thesock
    connecting, \* connecting[o]: _connecting
    connected,  \* connected[o]: _connected
    blocking,   \* blocking[o]: _blocking
    call,       \* the connect that waits in its loop
    shared      \* history: an open object was assigned or accepted into

objVars == <<fd, connecting, connected, blocking>>

tcpVars == <<kernVars, objVars, call, shared>>

Socks == Tcps \cup {SrvSock}

\* saved: _bl of bio_unblock; tried: select was called, so that err is not -1.
Calls == [o : Tcps, fn : {"raw", "i4", "s4"}, ends : {"clock", "user"},
          saved : BOOLEAN, waited : 0 .. TOUT, tried : BOOLEAN]

ASSUME TcpAssumption ==
    /\ SrvSock \notin Tcps
    /\ TOUT \in Nat \ {0}
    /\ NoCall \notin Calls

TcpInit ==
    /\ KernInit
    /\ fd = [o \in Socks |-> -1]
    /\ connecting = [o \in Tcps |-> FALSE]
    /\ connected = [o \in Tcps |-> FALSE]
    /\ blocking = [o \in Tcps |-> FALSE]
    /\ call = NoCall
    /\ shared = FALSE

IsOpen(o) == fd[o] > 0

Idle == call = NoCall

-----------------------------------------------------------------------------
(* Opening and closing.                                                    *)

\* The descriptors after the one of o was closed.
Released(o) == IF IsOpen(o) THEN At(conn, fd[o], "closed") ELSE conn

\* A bug to find: _thesock keeps its value.
StaleFd(o) == fd[o]

\* _thesock after destroy, which returns at once when the object is not open.
ClosedFd(o) == IF IsOpen(o) THEN -1 ELSE fd[o]

\* bio_unblock in destroy sets the mode back before the descriptor is closed.
Destroy(o) ==
    /\ conn' = Released(o)
    /\ fd' = [fd EXCEPT ![o] = ClosedFd(o)]
    /\ connecting' = [connecting EXCEPT ![o] = @ /\ ~IsOpen(o)]
    /\ connected' = [connected EXCEPT ![o] = @ /\ ~IsOpen(o)]
    /\ UNCHANGED <<nonblock, blocking, call, shared>>

TcpDestroy(o) == Idle /\ Destroy(o)

\* An error other than EAGAIN closes the socket.
SendAllFails(o) ==
    /\ Idle
    /\ IsOpen(o) /\ conn[fd[o]] = "failed"
    /\ Destroy(o)

Create(o) ==
    /\ Idle
    /\ ~IsOpen(o)
    /\ \E f \in NewFd(conn) :
          /\ fd' = [fd EXCEPT ![o] = f]
          /\ conn' = At(conn, f, "fresh")
          /\ nonblock' = At(nonblock, f, FALSE)
    /\ UNCHANGED <<connecting, connected, blocking, call, shared>>

SetBlocking(o, block) ==
    /\ Idle
    /\ blocking' = [blocking EXCEPT ![o] = block]
    /\ nonblock' = At(nonblock, IF IsOpen(o) THEN fd[o] ELSE -1, ~block)
    /\ UNCHANGED <<conn, fd, connecting, connected, call, shared>>

IsReallyConnected(o) ==
    /\ Idle
    /\ connected' = [connected EXCEPT
          ![o] = IsOpen(o) /\ conn[fd[o]] \in {"up", "accepted"}]
    /\ UNCHANGED <<kernVars, fd, connecting, blocking, call, shared>>

\* The caller's word, when select called the socket writable.
SetConnected(o) ==
    /\ Idle /\ IsOpen(o)
    /\ conn[fd[o]] \in {"up", "failed", "accepted"}
    /\ connecting' = [connecting EXCEPT ![o] = FALSE]
    /\ connected' = [connected EXCEPT ![o] = TRUE]
    /\ UNCHANGED <<kernVars, fd, blocking, call, shared>>

\* Both objects have the descriptor now; the one that o had is forgotten.
Assign(o, p) ==
    /\ Idle /\ o # p
    /\ fd' = [fd EXCEPT ![o] = fd[p]]
    /\ connecting' = [connecting EXCEPT ![o] = connecting[p]]
    /\ connected' = [connected EXCEPT ![o] = connected[p]]
    /\ blocking' = [blocking EXCEPT ![o] = blocking[p]]
    /\ shared' = (shared \/ IsOpen(o) \/ IsOpen(p))
    /\ UNCHANGED <<kernVars, call>>

-----------------------------------------------------------------------------
(* Connecting.                                                             *)

\* Like send: -1 in progress, 0 an error.  A connect that is repeated while
\* the first one waits is an error (EALREADY) and changes nothing.
TryConnect(o) ==
    LET f == fd[o]
        nb == ~blocking[o]
    IN
    /\ Idle /\ IsOpen(o)
    /\ nonblock' = At(nonblock, f, nb)
    /\ \E c \in CASE conn[f] \in {"fresh", "failed"} -> Attempts(nb)
                  [] conn[f] \in Pending -> IF nb THEN {"left"} ELSE {"up", "failed"}
                  [] OTHER -> {conn[f]} :
          /\ conn' = At(conn, f, c)
          /\ connecting' = [connecting EXCEPT ![o] = c = "waiting"]
    /\ UNCHANGED <<fd, connected, blocking, call, shared>>

\* A bug to find: ~bio_unblock sets the member only.
Unrestored(f, block) == At(nonblock, f, f > 0)

\* The mode of descriptor f after a bio_unblock came and went.
Restored(f, block) == At(nonblock, f, f > 0 /\ ~block)

\* connect on the new socket f is over, or goes on without its caller.
Returns(o, f, c, isConnecting) ==
    /\ fd' = [fd EXCEPT ![o] = f]
    /\ conn' = c
    /\ nonblock' = Restored(f, blocking[o])
    /\ connecting' = [connecting EXCEPT ![o] = isConnecting]
    /\ UNCHANGED <<blocking, call>>

\* A bug to find: the connect that may wait has no bio_unblock.
Untouched(f) == nonblock

\* bio_unblock on descriptor f.
Unblocked(f) == At(nonblock, f, TRUE)

\* connect goes on, and its caller waits for it.
Waits(o, f, c, fn, ends) ==
    /\ fd' = [fd EXCEPT ![o] = f]
    /\ conn' = c
    /\ nonblock' = Unblocked(f)
    /\ blocking' = [blocking EXCEPT ![o] = FALSE]
    /\ connecting' = [connecting EXCEPT ![o] = fn # "raw"]
    /\ call' = [o |-> o, fn |-> fn, ends |-> ends,
                saved |-> blocking[o], waited |-> 0, tried |-> FALSE]

\* An error leaves the socket open; raw_connect without a tout does as this.
RawConnectSin(o) ==
    /\ Idle
    /\ ~IsOpen(o)
    /\ \E f \in NewFd(conn) : \E c \in Attempts(f > 0) :
          Returns(o, f, At(conn, f, c), f >= 0 /\ c = "waiting")
    /\ UNCHANGED <<connected, shared>>

RawConnect(o) ==
    \/ RawConnectSin(o)
    \/ /\ Idle
       /\ ~IsOpen(o)
       /\ \E f \in NewFd(conn) :
             f > 0 /\ Waits(o, f, At(conn, f, "waiting"), "raw", "clock")
       /\ UNCHANGED <<connected, shared>>

\* socket() and connect() of i4connect and s4connect, for an object that was
\* destroyed if it was open; before is _connecting until then.
Reconnect(o, fn, before) ==
    /\ Idle
    /\ connected' = [connected EXCEPT ![o] = @ /\ ~IsOpen(o)]
    /\ \E f \in NewFd(Released(o)) :
          \/ f = -1 /\ Returns(o, -1, Released(o), before /\ ~IsOpen(o))
          \/ f >= 0 /\ Returns(o, f, At(Released(o), f, "up"), FALSE)
          \/ f > 0 /\ Returns(o, -1, Released(o), FALSE)
          \/ f = 0 /\ Returns(o, 0, At(Released(o), 0, "failed"), FALSE)
          \/ f > 0 /\ \E ends \in {"clock", "user"} :
                Waits(o, f, At(Released(o), f, "waiting"), fn, ends)
    /\ UNCHANGED shared

I4Connect(o) == Reconnect(o, "i4", connecting[o])

\* With -1 for pUser it does not wait.
S4ConnectFrom(o, before) ==
    \/ Reconnect(o, "s4", before)
    \/ /\ Idle
       /\ connected' = [connected EXCEPT ![o] = @ /\ ~IsOpen(o)]
       /\ \E f \in NewFd(Released(o)) :
             f > 0 /\ Returns(o, f, At(Released(o), f, "waiting"), TRUE)
       /\ UNCHANGED shared

S4Connect(o) == S4ConnectFrom(o, connecting[o])

\* The host is found, or nothing is done, to a socket that waits neither.
Connect(o) ==
    \/ S4ConnectFrom(o, TRUE)
    \/ /\ Idle
       /\ connecting' = [connecting EXCEPT ![o] = FALSE]
       /\ conn' = IF IsOpen(o) THEN Deserted(fd[o]) ELSE conn
       /\ UNCHANGED <<nonblock, fd, connected, blocking, call, shared>>

-----------------------------------------------------------------------------
(* The loop in which a connect waits.                                      *)

\* The call ends: ~bio_unblock, after a destroy if fd becomes -1.
Leaves(f, c, isConnecting) ==
    /\ fd' = [fd EXCEPT ![call.o] = f]
    /\ conn' = c
    /\ nonblock' = Restored(f, call.saved)
    /\ blocking' = [blocking EXCEPT ![call.o] = call.saved]
    /\ connecting' = [connecting EXCEPT ![call.o] = isConnecting]
    /\ call' = NoCall
    /\ UNCHANGED shared

\* select: the connection is there, or was refused.
LoopConnected ==
    /\ ~Idle
    /\ Writable(fd[call.o])
    /\ Leaves(fd[call.o], conn, FALSE)
    /\ UNCHANGED connected

\* A bug to find: tdiff is taken before the loop only.
Standing(t) == t

\* The clock at the next turn.
Elapsed(t) == t + 1

MayGoOn == call.ends = "user" \/ call.waited < TOUT

\* A turn of the loop, in which a second passes.
LoopWaits ==
    /\ ~Idle
    /\ MayGoOn /\ ~Writable(fd[call.o])
    /\ call' = [call EXCEPT !.tried = TRUE,
                            !.waited = IF @ = TOUT THEN @ ELSE Elapsed(@)]
    /\ UNCHANGED <<kernVars, objVars, shared>>

MayStop == call.ends = "user" \/ call.waited = TOUT

\* A bug to find: raw_connect forgets that the attempt goes on.
Forgotten == FALSE

\* _connecting when raw_connect has waited in vain.
StillConnecting == TRUE

\* The time is over, or the callback of the caller says so.  When select was
\* called err is 0 and the socket is returned as if it were connected; when it
\* was not, or was interrupted, err is -1.
LoopStops ==
    /\ ~Idle
    /\ MayStop
    /\ LET o == call.o IN
       \/ /\ call.fn = "raw"
          /\ Leaves(fd[o], conn, StillConnecting)
          /\ UNCHANGED connected
       \/ /\ call.fn # "raw" /\ call.tried
          /\ Leaves(fd[o], Deserted(fd[o]), FALSE)
          /\ UNCHANGED connected
       \/ /\ call.fn # "raw"
          /\ Leaves(ClosedFd(o), Released(o), FALSE)
          /\ connected' = [connected EXCEPT ![o] = FALSE]

-----------------------------------------------------------------------------
(* The server's side.                                                      *)

\* Descriptor 0 is an error that stays in _thesock; a bind that fails closes.
SrvCreate ==
    /\ Idle
    /\ ~IsOpen(SrvSock)
    /\ \E f \in NewFd(conn) :
          \/ /\ fd' = [fd EXCEPT ![SrvSock] = f]
             /\ conn' = At(conn, f, "fresh")
             /\ nonblock' = At(nonblock, f, FALSE)
          \/ /\ f > 0
             /\ fd' = [fd EXCEPT ![SrvSock] = -1]
             /\ UNCHANGED kernVars
    /\ UNCHANGED <<connecting, connected, blocking, call, shared>>

Listen ==
    /\ Idle
    /\ IsOpen(SrvSock)
    /\ conn' = At(conn, fd[SrvSock], "listening")
    /\ UNCHANGED <<nonblock, objVars, call, shared>>

\* What the object had before is not looked at.
Accept(o) ==
    /\ Idle
    /\ IsOpen(SrvSock) /\ conn[fd[SrvSock]] = "listening"
    /\ \E f \in NewFd(conn) :
          /\ fd' = [fd EXCEPT ![o] = f]
          /\ conn' = At(conn, f, "accepted")
          /\ nonblock' = At(nonblock, f, FALSE)
    /\ shared' = (shared \/ IsOpen(o))
    /\ UNCHANGED <<connecting, connected, blocking, call>>

SrvDestroy ==
    /\ Idle
    /\ conn' = Released(SrvSock)
    /\ fd' = [fd EXCEPT ![SrvSock] = ClosedFd(SrvSock)]
    /\ UNCHANGED <<nonblock, connecting, connected, blocking, call, shared>>

NetAnswers ==
    /\ \E f \in Fd : Answers(f)
    /\ UNCHANGED <<objVars, call, shared>>

TcpNext ==
    \/ \E o \in Tcps :
          \/ Create(o) \/ TcpDestroy(o) \/ SendAllFails(o)
          \/ \E block \in BOOLEAN : SetBlocking(o, block)
          \/ IsReallyConnected(o) \/ SetConnected(o)
          \/ \E p \in Tcps : Assign(o, p)
          \/ TryConnect(o) \/ RawConnectSin(o) \/ RawConnect(o)
          \/ I4Connect(o) \/ S4Connect(o) \/ Connect(o)
          \/ Accept(o)
    \/ LoopConnected \/ LoopWaits \/ LoopStops
    \/ SrvCreate \/ Listen \/ SrvDestroy
    \/ NetAnswers

-----------------------------------------------------------------------------

\* The types; while a call waits its object has a descriptor that does not
\* block, and says so.
TcpTypeOK ==
    /\ conn \in [Fd -> Conns] /\ nonblock \in [Fd -> BOOLEAN]
    /\ fd \in [Socks -> Fd \cup {-1}]
    /\ connecting \in [Tcps -> BOOLEAN] /\ connected \in [Tcps -> BOOLEAN]
    /\ blocking \in [Tcps -> BOOLEAN]
    /\ call \in Calls \cup {NoCall}
    /\ shared \in BOOLEAN
    /\ call # NoCall => IsOpen(call.o) /\ nonblock[fd[call.o]] /\ ~blocking[call.o]

\* Whatever fails and whatever is called next, every socket of the process
\* above 0 is the socket of one object, and no object has a descriptor that
\* was closed: nothing leaks, and no object closes what is another's - as long
\* as no object is copied and none is accepted into that was open
\* (sock.cpp:490, sock.cpp:966, sock.cpp:718, against sock.cpp:547, 755).
HeldOnce ==
    ~shared => \A f \in Fd \ {0} :
        LET holders == {o \in Socks : fd[o] = f}
        IN  IF conn[f] = "closed" THEN holders = {} ELSE \E o \in Socks : holders = {o}

\* After any connect, however it ended, the descriptor blocks exactly when the
\* object says that it does, though each connect switches the mode and guards
\* nest (sock.cpp:34, sock.cpp:203, sock.cpp:988).
ModeKnown ==
    ~shared => \A o \in Tcps :
        Idle /\ IsOpen(o) /\ conn[fd[o]] \in {"waiting", "up", "failed"}
            => nonblock[fd[o]] = ~blocking[o]

\* While a connection is not there yet isconnecting says so, and an object
\* that is not open never says that it is connected.  The connections called
\* "left" are those of which the code says otherwise: i4connect or s4connect
\* gave up waiting (sock.cpp:1024, sock.cpp:1103), or a connect was repeated
\* (sock.cpp:835, sock.cpp:1121).
StatusKnown ==
    ~shared => \A o \in Tcps :
        /\ connected[o] => IsOpen(o)
        /\ Idle /\ IsOpen(o) /\ conn[fd[o]] = "waiting" => connecting[o]

\* A connect that goes by the clock returns, even when nobody answers
\* (sock.cpp:893, sock.cpp:999, sock.cpp:1078).
CallsEnd == (~Idle /\ call.ends = "clock") ~> Idle
=============================================================================
