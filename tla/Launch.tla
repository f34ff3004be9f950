-------------------------------- MODULE Launch --------------------------------
(***************************************************************************)
(* The processes of one host: what main() does with its arguments, the     *)
(* search of a client for a port (a_peer::main), the start of a server     *)
(* (Sqlyte::Sqlyte, u_server::main), and the two things that all of them   *)
(* share, the ports of the host and the database file.                     *)
(*                                                                         *)
(* A try of one port (create, bind and, when it failed, destroy) is one    *)
(* step: other processes see nothing of it but the bind.  The directory of *)
(* the database is there; without it main ends before it does anything.    *)
(***************************************************************************)
EXTENDS Integers

CONSTANTS
    Procs,      \* the processes
    None,       \* no process
    SRV_PORT,   \* the server's port
    PortLimit,  \* 2^16: a port number is cut to its width
    Bases,      \* the values of __perport that clients are started with
    ScanLen,    \* how many ports a client tries
    Occupied    \* the ports that other programs hold

Port == 0 .. PortLimit - 1

ASSUME LaunchAssumption ==
    /\ None \notin Procs
    /\ PortLimit \in Nat /\ ScanLen \in Nat /\ Bases \subseteq Nat
    /\ SRV_PORT \in Port \ {0}

VARIABLES
    pc,         \* pc[p]: where the process is
    base,       \* base[p]: __perport when the scan began
    at,         \* at[p]: the scan's i, and then __perport
    fd,         \* fd[p]: _thesock, where 1 stands for every positive one
    untried,    \* untried[p]: the process has not created a socket yet
    local,      \* local[p]: the port in _local_sin
    holder,     \* holder[n]: the process that is bound to port n
    tables,     \* the database file has its tables
    accounts,   \* the database file has the accounts of mid
    onFile,     \* the processes whose connection is to the file of this name
    remover,    \* the process that removed the file last
    alone       \* no other server was up when it did

scanVars == <<base, at, fd, untried, local, holder>>
dbVars == <<tables, accounts, onFile, remover, alone>>
vars == <<pc, scanVars, dbVars>>

ClientStarts == {"scan"}
ServerStarts == {"opening", "creating", "filling", "binding"}
Starting == ClientStarts \cup ServerStarts
ServerUp == ServerStarts \cup {"serving", "deaf"}

Init ==
    /\ pc = [p \in Procs |-> "off"]
    /\ base = [p \in Procs |-> 0]
    /\ at = [p \in Procs |-> 0]
    /\ fd = [p \in Procs |-> -1]
    /\ untried = [p \in Procs |-> TRUE]
    /\ local = [p \in Procs |-> 0]
    /\ holder = [n \in Port |-> None]
    /\ tables = FALSE
    /\ accounts = FALSE
    /\ onFile = {}
    /\ remover = None
    /\ alone = FALSE

Goto(p, place) == pc' = [pc EXCEPT ![p] = place]

\* The end of a process closes its socket and its connection; nothing else of
\* it stays.
Ends(p) ==
    /\ Goto(p, "off")
    /\ base' = [base EXCEPT ![p] = 0]
    /\ at' = [at EXCEPT ![p] = 0]
    /\ fd' = [fd EXCEPT ![p] = -1]
    /\ untried' = [untried EXCEPT ![p] = TRUE]
    /\ local' = [local EXCEPT ![p] = 0]
    /\ holder' = [n \in Port |-> IF holder[n] = p THEN None ELSE holder[n]]
    /\ onFile' = onFile \ {p}
    /\ UNCHANGED <<tables, accounts, remover, alone>>

Stop(p) == pc[p] # "off" /\ Ends(p)

-----------------------------------------------------------------------------
(* Sockets: udp_sock::create and udp_sock::bind.                           *)

\* socket() fails or gives the lowest free descriptor.  That is 0 when the
\* process was started with stdin closed, and only for its first socket:
\* sock::destroy leaves descriptor 0 open.
Created(p) == {-1, 1} \cup (IF untried[p] THEN {0} ELSE {})

\* htons: where a bind to i goes.
PortOf(i) == i % PortLimit

\* _local_sin after a create for i: when socket() fails it keeps the port of
\* the try before, and 0 if there was none.
LocalPort(p, s, i) == IF s = -1 THEN local[p] ELSE PortOf(i)

Create(p, s, i) ==
    /\ untried' = [untried EXCEPT ![p] = @ /\ s = -1]
    /\ local' = [local EXCEPT ![p] = LocalPort(p, s, i)]

\* The result of bind: the socket, or -1.
BindResult(s, n) ==
    IF s = -1 \/ n \in Occupied \/ holder[n] # None THEN -1 ELSE s

\* A bug to find: the result of bind is tested as that of create is.
BoundTruthy(s, n) == s # 0 /\ BindResult(s, n) # 0

\* s.create(i) && s.bind() != -1.  A socket that could not be created is -1,
\* which is true as well; descriptor 0 is false.
Bound(s, n) == s # 0 /\ BindResult(s, n) # -1

Bind(p, s, n) ==
    /\ fd' = [fd EXCEPT ![p] = s]
    /\ holder' = [holder EXCEPT ![n] = p]

-----------------------------------------------------------------------------
(* A client.                                                               *)

StartClient(p, b) ==
    /\ pc[p] = "off"
    /\ Goto(p, "scan")
    /\ base' = [base EXCEPT ![p] = b]
    /\ at' = [at EXCEPT ![p] = b]
    /\ UNCHANGED <<fd, untried, local, holder, dbVars>>

\* A bug to find: one port more.
ScanningOneMore(p) == pc[p] = "scan" /\ at[p] <= base[p] + ScanLen

Scanning(p) == pc[p] = "scan" /\ at[p] < base[p] + ScanLen

\* The assertion in bind: there is no port in _local_sin, because i was 0 or
\* because no socket could be created so far.
TryAborts(p) ==
    /\ Scanning(p)
    /\ \E s \in Created(p) : s # 0 /\ LocalPort(p, s, at[p]) = 0
    /\ Ends(p)

TryBinds(p) ==
    /\ Scanning(p)
    /\ \E s \in Created(p) :
          LET n == LocalPort(p, s, at[p]) IN
          /\ n # 0
          /\ Bound(s, n)
          /\ s > 0
          /\ Create(p, s, at[p])
          /\ Bind(p, s, n)
    /\ Goto(p, "loop")
    /\ UNCHANGED <<base, at, dbVars>>

TryFails(p) ==
    /\ Scanning(p)
    /\ \E s \in Created(p) :
          LET n == LocalPort(p, s, at[p]) IN
          /\ s # 0 => n # 0
          /\ ~Bound(s, n)
          /\ Create(p, s, at[p])
    /\ at' = [at EXCEPT ![p] = @ + 1]
    /\ UNCHANGED <<pc, base, fd, holder, dbVars>>

\* A bug to find: a client that found no port looks again.
ScanAgain(p) ==
    /\ pc[p] = "scan"
    /\ at[p] >= base[p] + ScanLen
    /\ at' = [at EXCEPT ![p] = base[p]]
    /\ UNCHANGED <<pc, base, fd, untried, local, holder, dbVars>>

\* No port was found: main returns.
ScanFails(p) ==
    /\ pc[p] = "scan"
    /\ at[p] >= base[p] + ScanLen
    /\ Ends(p)

-----------------------------------------------------------------------------
(* A server, and any other start with one argument.                        *)

\* Is another server up?
Rival(p) == \E q \in Procs \ {p} : pc[q] \in ServerUp

\* main removes the file, whatever the argument says.
RemoveFile(p) ==
    /\ tables' = FALSE
    /\ accounts' = FALSE
    /\ onFile' = {}
    /\ remover' = p
    /\ alone' = ~Rival(p)

\* An argument that does not start with an s: that was all.
StartOther(p) ==
    /\ pc[p] = "off"
    /\ RemoveFile(None)
    /\ UNCHANGED <<pc, scanVars>>

StartServer(p) ==
    /\ pc[p] = "off"
    /\ RemoveFile(p)
    /\ Goto(p, "opening")
    /\ UNCHANGED scanVars

\* A bug to find: the database is opened before main removes it.
OpenedBefore(p) == onFile

\* Whose connection is to the file, once p opened it by its name.
Opened(p) == onFile \cup {p}

OpenFile(p) ==
    /\ pc[p] = "opening"
    /\ Goto(p, "creating")
    /\ onFile' = Opened(p)
    /\ UNCHANGED <<scanVars, tables, accounts, remover, alone>>

\* Without a file of its name a connection can create nothing.
CreateTables(p) ==
    /\ pc[p] = "creating"
    /\ Goto(p, "filling")
    /\ tables' = (tables \/ p \in onFile)
    /\ UNCHANGED <<scanVars, accounts, onFile, remover, alone>>

\* Opening or creating fails: exit(1).
StartFails(p) == pc[p] \in {"opening", "creating"} /\ Ends(p)

\* _test opens the file by its name once more, without a timeout for a busy
\* database, and goes on when its statements fail.
AddAccounts(p) ==
    /\ pc[p] = "filling"
    /\ Goto(p, "binding")
    /\ \E busy \in IF Rival(p) THEN BOOLEAN ELSE {FALSE} :
          accounts' = (accounts \/ (tables /\ ~busy))
    /\ UNCHANGED <<scanVars, tables, onFile, remover, alone>>

\* The result of bind is not looked at: a server that did not get the port
\* goes on without it.
ServerBinds(p) ==
    /\ pc[p] = "binding"
    /\ \E s \in Created(p) :
          LET n == LocalPort(p, s, SRV_PORT) IN
          /\ s # 0
          /\ n # 0
          /\ Create(p, s, SRV_PORT)
          /\ IF BindResult(s, n) # -1
             THEN Goto(p, "serving") /\ Bind(p, s, n)
             ELSE /\ Goto(p, "deaf")
                  /\ fd' = [fd EXCEPT ![p] = s]
                  /\ UNCHANGED holder
    /\ UNCHANGED <<base, at, dbVars>>

\* main returns when the socket is descriptor 0; and the assertion in bind
\* ends a server that got none.
ServerEnds(p) ==
    /\ pc[p] = "binding"
    /\ \E s \in Created(p) : s = 0 \/ LocalPort(p, s, SRV_PORT) = 0
    /\ Ends(p)

-----------------------------------------------------------------------------

ClientStep(p) == TryAborts(p) \/ TryBinds(p) \/ TryFails(p) \/ ScanFails(p)

ServerStep(p) ==
    \/ OpenFile(p)
    \/ CreateTables(p)
    \/ StartFails(p)
    \/ AddAccounts(p)
    \/ ServerBinds(p)
    \/ ServerEnds(p)

Step(p) == ClientStep(p) \/ ServerStep(p)

Start(p) ==
    \/ \E b \in Bases : StartClient(p, b)
    \/ StartServer(p)
    \/ StartOther(p)

Next == \E p \in Procs : Start(p) \/ Step(p) \/ Stop(p)

Spec == Init /\ [][Next]_vars

\* A process that is starting waits for nobody.
StartStep(p) == pc[p] \in Starting /\ Step(p)

FairSpec == Spec /\ \A p \in Procs : WF_vars(StartStep(p))

-----------------------------------------------------------------------------

\* The types; a scan stays within its ports.
LaunchTypeOK ==
    /\ pc \in [Procs -> {"off", "loop"} \cup Starting \cup ServerUp]
    /\ base \in [Procs -> Nat]
    /\ at \in [Procs -> Nat]
    /\ \A p \in Procs : pc[p] = "scan" => at[p] \in base[p] .. base[p] + ScanLen
    /\ fd \in [Procs -> {-1, 0, 1}]
    /\ untried \in [Procs -> BOOLEAN]
    /\ local \in [Procs -> Port]
    /\ holder \in [Port -> Procs \cup {None}]
    /\ tables \in BOOLEAN /\ accounts \in BOOLEAN /\ alone \in BOOLEAN
    /\ onFile \subseteq Procs
    /\ remover \in Procs \cup {None}

\* The port that a process holds, when it is in its loop.
PortHeld(p) == PortOf(IF pc[p] = "serving" THEN SRV_PORT ELSE at[p])

\* A client that left its scan for its loop, and a server that hears, hold
\* their port with an open socket, and nobody is left with a port of a try:
\* whatever the scans of a host did to each other, each program's address is
\* its own and is what it says it is (a_peer.cpp:68-81, u_server.cpp:50-53).
PortsHeld ==
    /\ \A p \in Procs : pc[p] \in {"loop", "serving"} =>
          fd[p] > 0 /\ holder[PortHeld(p)] = p
    /\ \A n \in Port, p \in Procs : holder[n] = p =>
          pc[p] \in {"loop", "serving"} /\ n = PortHeld(p)

\* A server that is through with its start finds its tables, however many
\* servers were started along with it, unless the file was removed after it
\* removed it; and the accounts too, if it was the only one then
\* (main.cpp:39-46, sqliter.cpp:5-54).
TablesFollowServer ==
    \A p \in Procs :
        remover = p /\ pc[p] \in {"serving", "deaf"} => tables /\ (alone => accounts)

\* Every start comes to an end: in a loop or with the process
\* (a_peer.cpp:68-79).
StartsEnd == \A p \in Procs : pc[p] \in Starting ~> pc[p] \notin Starting
=============================================================================
