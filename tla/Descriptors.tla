----------------------------- MODULE Descriptors -----------------------------
(***************************************************************************)
(* The descriptors of one process and the TCP connections behind them.     *)
(* This is the kernel, modelled from how src/sock.cpp uses it: socket()    *)
(* gives the lowest free descriptor, which may be 0; a connect on a socket *)
(* that does not block goes on by itself; select calls a socket writable   *)
(* when its connection is there and when it was refused.                   *)
(***************************************************************************)
EXTENDS Integers

CONSTANT
    MaxFd       \* the highest descriptor

ASSUME FdAssumption == MaxFd \in Nat

Fd == 0 .. MaxFd

VARIABLES
    conn,       \* conn[f]: what is behind descriptor f
    nonblock    \* nonblock[f]: O_NONBLOCK

kernVars == <<conn, nonblock>>

\* "other" is a file; "accepted" a connection that a listening socket gave;
\* "left" one that is waited for though a call has told that it is over.
Conns == {"closed", "other", "fresh", "listening", "waiting", "left", "up",
          "failed", "accepted"}

Pending == {"waiting", "left"}

\* Descriptor 0 is open, or the process was started without it.
KernInit ==
    /\ \E zero \in {"closed", "other"} :
          conn = [f \in Fd |-> IF f = 0 THEN zero ELSE "closed"]
    /\ nonblock = [f \in Fd |-> FALSE]

\* What socket() and accept() may return when the descriptors are c.
NewFd(c) ==
    {-1} \cup {f \in Fd : c[f] = "closed" /\ \A g \in 0 .. f - 1 : c[g] # "closed"}

\* c with v at f; an f below 0 is no descriptor.
At(c, f, v) == [g \in Fd |-> IF g = f THEN v ELSE c[g]]

\* What connect() makes of a socket that does not wait yet.
Attempts(nb) == {"up", "failed"} \cup (IF nb THEN {"waiting"} ELSE {})

Writable(f) == conn[f] \in {"up", "failed"}

\* conn when a call tells of f that it is over.
Deserted(f) == IF conn[f] = "waiting" THEN At(conn, f, "left") ELSE conn

\* The other side answers, refuses or breaks a connection.
Answers(f) ==
    /\ \/ conn[f] \in Pending /\ conn' = At(conn, f, "up")
       \/ conn[f] \in Pending \cup {"up"} /\ conn' = At(conn, f, "failed")
    /\ UNCHANGED nonblock
=============================================================================
