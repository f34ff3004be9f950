----------------------------- MODULE LaunchProof -----------------------------
(***************************************************************************)
(* The processes of one host hold the ports they believe to hold, and a    *)
(* server that is through with its start has its tables, for any number of *)
(* processes, any ports and any number of tries.                           *)
(***************************************************************************)
EXTENDS Launch, TLAPS

\* The ports need the types: a port number is cut to its width.
PInv == LaunchTypeOK /\ PortsHeld

-----------------------------------------------------------------------------
(* Ports.                                                                  *)

\* A number that is cut to its width is a port.
LEMMA PortOfType == 0 \in Port /\ \A i \in Nat : PortOf(i) \in Port
  <1>1. PortLimit \in Nat \ {0}
    BY LaunchAssumption, SMT DEF Port
  <1> QED
    BY <1>1, SMT DEF PortOf, Port

\* The end of a process frees its port and no other.
LEMMA EndsInv ==
    ASSUME PInv, NEW p \in Procs, Ends(p)
    PROVE  PInv'
  <1> USE DEF Ends, Goto
  <1>1. LaunchTypeOK'
    BY LaunchAssumption, PortOfType
    DEF PInv, LaunchTypeOK, Starting, ClientStarts, ServerStarts, ServerUp
  <1>2. pc'[p] = "off"
    BY DEF PInv, LaunchTypeOK
  <1>3. ASSUME NEW q \in Procs, q # p
        PROVE  pc'[q] = pc[q] /\ fd'[q] = fd[q] /\ PortHeld(q)' = PortHeld(q)
    BY <1>3 DEF PInv, LaunchTypeOK, PortHeld
  <1>4. \A n \in Port, q \in Procs : holder'[n] = q <=> holder[n] = q /\ q # p
    BY LaunchAssumption DEF PInv, LaunchTypeOK
  <1>5. \A q \in Procs : PortHeld(q) \in Port
    <2>1. SRV_PORT \in Nat
      BY LaunchAssumption DEF Port
    <2> QED
      BY <2>1, PortOfType DEF PInv, LaunchTypeOK, PortHeld
  <1>6. PortsHeld'
    BY <1>2, <1>3, <1>4, <1>5 DEF PInv, PortsHeld
  <1> QED
    BY <1>1, <1>6 DEF PInv

\* A bind succeeds on a free port only, and its socket is open.
LEMMA BindIsNew ==
    ASSUME NEW p \in Procs, NEW s \in Created(p), NEW n \in Port,
           s # 0, BindResult(s, n) # -1
    PROVE  s = 1 /\ holder[n] = None
  BY DEF BindResult, Created

\* A process that starts its loop or its service takes the port it bound.
LEMMA BindsInv ==
    ASSUME PInv, NEW p \in Procs, NEW n \in Port, NEW place \in {"loop", "serving"},
           holder[n] = None, pc[p] \in Starting,
           n = PortOf(IF place = "serving" THEN SRV_PORT ELSE at[p]),
           Bind(p, 1, n), Goto(p, place), UNCHANGED <<base, at, dbVars>>,
           \E i \in Nat : Create(p, 1, i)
    PROVE  PInv'
  <1> USE DEF PInv, Goto, Bind
  <1>1. LaunchTypeOK'
    BY PortOfType
    DEF LaunchTypeOK, Create, LocalPort, dbVars, Starting, ServerUp, ClientStarts,
        ServerStarts
  <1>2. pc' = [pc EXCEPT ![p] = place] /\ fd' = [fd EXCEPT ![p] = 1]
        /\ holder' = [holder EXCEPT ![n] = p] /\ at' = at
    OBVIOUS
  <1>3. PortHeld(p)' = n
    BY <1>2 DEF LaunchTypeOK, PortHeld
  <1>4. \A q \in Procs \ {p} : PortHeld(q)' = PortHeld(q) /\ pc'[q] = pc[q] /\ fd'[q] = fd[q]
    BY <1>2 DEF LaunchTypeOK, PortHeld
  <1>5. ASSUME NEW q \in Procs, pc'[q] \in {"loop", "serving"}
        PROVE  fd'[q] > 0 /\ holder'[PortHeld(q)'] = q
    <2>1. CASE q = p
      <3>1. fd'[p] = 1 /\ holder'[n] = p
        BY <1>2 DEF LaunchTypeOK
      <3>2. fd'[p] > 0 /\ holder'[PortHeld(p)'] = p
        BY <1>3, <3>1
      <3> QED
        BY <2>1, <3>2, Zenon
    <2>2. CASE q # p
      <3>1. fd[q] > 0 /\ holder[PortHeld(q)] = q
        BY <1>4, <1>5, <2>2 DEF PortsHeld
      <3>2. PortHeld(q) # n
        BY <3>1, LaunchAssumption
      <3> QED
        BY <1>2, <1>4, <2>2, <3>1, <3>2 DEF LaunchTypeOK
    <2> QED
      BY <2>1, <2>2
  <1>6. ASSUME NEW m \in Port, NEW q \in Procs, holder'[m] = q
        PROVE  pc'[q] \in {"loop", "serving"} /\ m = PortHeld(q)'
    <2>1. CASE m = n
      <3>1. q = p
        BY <1>2, <1>6, <2>1 DEF LaunchTypeOK
      <3> QED
        BY <1>2, <1>3, <2>1, <3>1 DEF LaunchTypeOK
    <2>2. CASE m # n
      <3>1. holder[m] = q
        BY <1>2, <1>6, <2>2 DEF LaunchTypeOK
      <3>2. pc[q] \in {"loop", "serving"} /\ m = PortHeld(q)
        BY <3>1 DEF PortsHeld
      <3>3. q # p
        BY <3>2 DEF Starting, ClientStarts, ServerStarts
      <3> QED
        BY <1>4, <3>2, <3>3
    <2> QED
      BY <2>1, <2>2
  <1>7. PortsHeld'
    BY <1>5, <1>6 DEF PortsHeld
  <1> QED
    BY <1>1, <1>7

\* A process that is in no loop, before and after, can change where it is and
\* what it tries.
LEMMA PortFreeInv ==
    ASSUME PInv, LaunchTypeOK', NEW p \in Procs,
           UNCHANGED holder,
           pc[p] \notin {"loop", "serving"}, pc'[p] \notin {"loop", "serving"},
           \A q \in Procs \ {p} : pc'[q] = pc[q] /\ at'[q] = at[q] /\ fd'[q] = fd[q]
    PROVE  PInv'
  <1>1. \A q \in Procs \ {p} : PortHeld(q)' = PortHeld(q)
    BY DEF PortHeld
  <1> QED
    BY <1>1 DEF PInv, LaunchTypeOK, PortsHeld

\* The steps of a client.
LEMMA ClientInv ==
    ASSUME PInv, NEW p \in Procs,
           (\E b \in Bases : StartClient(p, b)) \/ ClientStep(p)
    PROVE  PInv'
  <1>1. ASSUME NEW b \in Bases, StartClient(p, b)
        PROVE  PInv'
    <2> USE <1>1 DEF StartClient, Goto
    <2>1. LaunchTypeOK'
      BY LaunchAssumption
      DEF PInv, LaunchTypeOK, dbVars, Starting, ServerUp, ClientStarts, ServerStarts
    <2> QED
      BY <2>1, PortFreeInv DEF PInv, LaunchTypeOK
  <1>2. CASE TryAborts(p)
    BY <1>2, EndsInv DEF TryAborts
  <1>3. CASE TryBinds(p)
    <2>1. PICK s \in Created(p) :
            LET n == LocalPort(p, s, at[p]) IN
            /\ Bound(s, n)
            /\ Create(p, s, at[p])
            /\ Bind(p, s, n)
      BY <1>3 DEF TryBinds
    <2>2. at[p] \in Nat /\ LocalPort(p, s, at[p]) \in Port
      BY PortOfType DEF PInv, LaunchTypeOK, LocalPort
    <2>3. s = 1 /\ holder[LocalPort(p, s, at[p])] = None
      BY <2>1, <2>2, BindIsNew DEF Bound
    <2>4. LocalPort(p, s, at[p]) = PortOf(at[p])
      BY <2>3 DEF LocalPort
    <2> QED
      BY <1>3, <2>1, <2>2, <2>3, <2>4, BindsInv
      DEF TryBinds, Scanning, Starting, ClientStarts
  <1>4. CASE TryFails(p)
    <2>1. PICK s \in Created(p) : Create(p, s, at[p])
      BY <1>4 DEF TryFails
    <2>2. LocalPort(p, s, at[p]) \in Port
      BY PortOfType DEF PInv, LaunchTypeOK, LocalPort
    <2>3. LaunchTypeOK'
      BY <1>4, <2>1, <2>2, LaunchAssumption
      DEF TryFails, Scanning, Create, PInv, LaunchTypeOK, dbVars
    <2> QED
      BY <1>4, <2>3, PortFreeInv DEF TryFails, Scanning, PInv, LaunchTypeOK
  <1>5. CASE ScanFails(p)
    BY <1>5, EndsInv DEF ScanFails
  <1> QED
    BY <1>1, <1>2, <1>3, <1>4, <1>5 DEF ClientStep

\* The steps of a server.
LEMMA ServerInv ==
    ASSUME PInv, NEW p \in Procs, StartServer(p) \/ StartOther(p) \/ ServerStep(p)
    PROVE  PInv'
  <1> USE DEF Goto, RemoveFile
  <1>1. CASE StartServer(p) \/ OpenFile(p) \/ CreateTables(p) \/ AddAccounts(p)
    <2> USE <1>1 DEF StartServer, OpenFile, CreateTables, AddAccounts, Opened
    <2>1. LaunchTypeOK'
      BY DEF PInv, LaunchTypeOK, scanVars, Starting, ServerUp, ClientStarts,
             ServerStarts, Rival
    <2>2. /\ pc[p] \notin {"loop", "serving"} /\ pc'[p] \notin {"loop", "serving"}
          /\ UNCHANGED holder
          /\ \A q \in Procs \ {p} : pc'[q] = pc[q] /\ at'[q] = at[q] /\ fd'[q] = fd[q]
      BY DEF PInv, LaunchTypeOK, scanVars
    <2> QED
      BY <2>1, <2>2, PortFreeInv
  <1>2. CASE StartOther(p)
    BY <1>2 DEF PInv, LaunchTypeOK, PortsHeld, PortHeld, StartOther, scanVars, Rival
  <1>3. CASE StartFails(p) \/ ServerEnds(p)
    BY <1>3, EndsInv DEF StartFails, ServerEnds
  <1>4. CASE ServerBinds(p)
    <2>1. PICK s \in Created(p) :
            LET n == LocalPort(p, s, SRV_PORT) IN
            /\ s # 0
            /\ Create(p, s, SRV_PORT)
            /\ IF BindResult(s, n) # -1
               THEN Goto(p, "serving") /\ Bind(p, s, n)
               ELSE /\ Goto(p, "deaf")
                    /\ fd' = [fd EXCEPT ![p] = s]
                    /\ UNCHANGED holder
      BY <1>4 DEF ServerBinds
    <2>2. SRV_PORT \in Nat /\ LocalPort(p, s, SRV_PORT) \in Port
      <3>1. SRV_PORT \in Nat
        BY LaunchAssumption DEF Port
      <3> QED
        BY <3>1, PortOfType DEF PInv, LaunchTypeOK, LocalPort
    <2>3. CASE BindResult(s, LocalPort(p, s, SRV_PORT)) # -1
      <3>1. s = 1 /\ holder[LocalPort(p, s, SRV_PORT)] = None
        BY <2>1, <2>2, <2>3, BindIsNew
      <3>2. LocalPort(p, s, SRV_PORT) = PortOf(SRV_PORT)
        BY <2>2, <3>1 DEF LocalPort
      <3> QED
        BY <1>4, <2>1, <2>2, <2>3, <3>1, <3>2, BindsInv
        DEF ServerBinds, Starting, ServerStarts
    <2>4. CASE BindResult(s, LocalPort(p, s, SRV_PORT)) = -1
      <3>1. s \in {-1, 0, 1}
        BY DEF Created
      <3>2. LaunchTypeOK'
        BY <1>4, <2>1, <2>2, <2>4, <3>1
        DEF ServerBinds, Create, PInv, LaunchTypeOK, dbVars, Starting, ServerUp,
            ClientStarts, ServerStarts
      <3> QED
        BY <1>4, <2>1, <2>4, <3>2, PortFreeInv DEF ServerBinds, PInv, LaunchTypeOK
    <2> QED
      BY <2>3, <2>4
  <1> QED
    BY <1>1, <1>2, <1>3, <1>4 DEF ServerStep

\* Every step keeps the invariant.
LEMMA PNextInv == ASSUME PInv, [Next]_vars PROVE PInv'
  <1>1. CASE Next
    <2>1. PICK p \in Procs : Start(p) \/ Step(p) \/ Stop(p)
      BY <1>1 DEF Next
    <2> QED
      BY <2>1, ClientInv, ServerInv, EndsInv DEF Start, Step, Stop
  <1>2. CASE UNCHANGED vars
    BY <1>2 DEF PInv, LaunchTypeOK, PortsHeld, PortHeld, vars, scanVars, dbVars
  <1> QED
    BY <1>1, <1>2

\* No process runs and no port is held at the start.
LEMMA PInitInv == Init => PInv
  <1> SUFFICES ASSUME Init PROVE PInv
    OBVIOUS
  <1>1. LaunchTypeOK
    BY PortOfType DEF Init, LaunchTypeOK
  <1>2. PortsHeld
    BY LaunchAssumption DEF Init, PortsHeld
  <1> QED
    BY <1>1, <1>2 DEF PInv

\* The invariant holds in every reachable state.
LEMMA PInvariant == Spec => []PInv
  <1>1. Init => PInv
    BY PInitInv
  <1>2. PInv /\ [Next]_vars => PInv'
    BY PNextInv
  <1> QED
    BY <1>1, <1>2, PTL DEF Spec

\* Whatever ports the scan goes over, they are cut to their width, and the
\* scan stops where its tries end (a_peer.cpp:68-81).
THEOREM LaunchTypeCorrect == Spec => []LaunchTypeOK
  <1>1. PInv => LaunchTypeOK
    BY DEF PInv
  <1> QED
    BY <1>1, PInvariant, PTL

\* Every client in its loop and every server that hears hold the port they
\* take for theirs, with an open socket (a_peer.cpp:68-81, u_server.cpp:50-53).
THEOREM PortsAreHeld == Spec => []PortsHeld
  <1>1. PInv => PortsHeld
    BY DEF PInv
  <1> QED
    BY <1>1, PInvariant, PTL

-----------------------------------------------------------------------------
(* The database file.                                                      *)

\* What the last server to remove the file has reached when it is at each
\* place of its start, whatever the others do meanwhile: only a later removal
\* undoes it, and that makes another one the last.
Reached(p) ==
    /\ pc[p] = "creating" => p \in onFile
    /\ pc[p] \in {"filling", "binding", "serving", "deaf"} => tables
    /\ alone /\ pc[p] \in ServerUp => ~Rival(p)
    /\ alone /\ pc[p] \in {"binding", "serving", "deaf"} => accounts

PlaceOK == pc \in [Procs -> {"off", "loop"} \cup Starting \cup ServerUp]

TInv ==
    /\ PlaceOK
    /\ \A p \in Procs : remover = p => Reached(p)

\* A step of a process that leaves the database alone, that starts no server
\* and gets none further than it was allowed to.
LEMMA AwayFromFile ==
    ASSUME TInv, PlaceOK', NEW p \in Procs,
           \A q \in Procs \ {p} : pc'[q] = pc[q],
           \/ pc'[p] \notin ServerUp
           \/ pc[p] = "binding" /\ pc'[p] \in {"serving", "deaf"},
           onFile \ {p} \subseteq onFile', UNCHANGED <<tables, accounts, remover, alone>>
    PROVE  TInv'
  <1> SUFFICES ASSUME NEW r \in Procs, remover' = r PROVE Reached(r)'
    BY DEF TInv, PlaceOK
  <1>1. Reached(r)
    BY DEF TInv, PlaceOK
  <1>2. Rival(r)' => Rival(r)
    BY DEF Rival, ServerUp, ServerStarts
  <1> QED
    BY <1>1, <1>2 DEF Reached, ServerUp, ServerStarts

\* A removal makes its process the last one, which has reached nothing yet.
LEMMA RemovalInv ==
    ASSUME TInv, NEW p \in Procs, StartServer(p) \/ StartOther(p)
    PROVE  TInv'
  <1> USE DEF StartServer, StartOther, RemoveFile, Goto
  <1>1. PlaceOK'
    BY DEF TInv, PlaceOK, Starting, ServerUp, ServerStarts
  <1>2. ASSUME NEW r \in Procs, remover' = r
        PROVE  Reached(r)'
    <2>1. r = p /\ pc'[p] = "opening" /\ alone' = ~Rival(p)
      BY <1>2, LaunchAssumption DEF TInv, PlaceOK
    <2>2. Rival(p)' = Rival(p)
      BY <2>1 DEF Rival, TInv, PlaceOK
    <2> QED
      BY <2>1, <2>2 DEF Reached
  <1> QED
    BY <1>1, <1>2 DEF TInv, PlaceOK

\* The three steps of a start that change the file or what is in it.
LEMMA FileInv ==
    ASSUME TInv, NEW p \in Procs, OpenFile(p) \/ CreateTables(p) \/ AddAccounts(p)
    PROVE  TInv'
  <1> USE DEF OpenFile, CreateTables, AddAccounts, Opened, Goto
  <1>1. PlaceOK'
    BY DEF TInv, PlaceOK, Starting, ServerUp, ServerStarts
  <1>2. /\ \A q \in Procs \ {p} : pc'[q] = pc[q]
        /\ pc[p] \in ServerUp /\ pc'[p] \in ServerUp
        /\ onFile \subseteq onFile'
        /\ UNCHANGED <<remover, alone>>
    BY DEF TInv, PlaceOK, ServerUp, ServerStarts
  <1>3. \A r \in Procs : Rival(r)' <=> Rival(r)
    BY <1>2 DEF Rival
  <1>4. (tables => tables') /\ (accounts => accounts')
    <2>1. CASE OpenFile(p)
      BY <2>1, Zenon
    <2>2. CASE CreateTables(p)
      BY <2>2, Zenon
    <2>3. CASE AddAccounts(p)
      BY <2>3, Zenon
    <2> QED
      BY <2>1, <2>2, <2>3
  <1>5. ASSUME NEW r \in Procs, remover' = r
        PROVE  Reached(r)'
    <2>1. Reached(r)
      BY <1>2, <1>5 DEF TInv, PlaceOK
    <2>2. CASE r # p
      BY <1>2, <1>3, <1>4, <2>1, <2>2 DEF Reached
    <2>3. CASE r = p /\ OpenFile(p)
      BY <1>2, <1>3, <2>1, <2>3 DEF Reached, TInv, PlaceOK
    <2>4. CASE r = p /\ CreateTables(p)
      <3>1. pc[p] = "creating" /\ pc'[p] = "filling"
        BY <2>4 DEF TInv, PlaceOK
      <3>2. tables'
        BY <2>1, <2>4, <3>1, Zenon DEF Reached
      <3> QED
        BY <1>2, <1>3, <2>1, <2>4, <3>1, <3>2 DEF Reached
    <2>5. CASE r = p /\ AddAccounts(p)
      <3>1. pc[p] = "filling" /\ pc'[p] = "binding" /\ tables' = tables /\ tables
        BY <2>1, <2>5 DEF Reached, TInv, PlaceOK
      <3>2. alone => accounts'
        BY <1>2, <2>1, <2>5, <3>1 DEF Reached
      <3> QED
        BY <1>2, <1>3, <2>1, <2>5, <3>1, <3>2 DEF Reached
    <2> QED
      BY <2>2, <2>3, <2>4, <2>5
  <1> QED
    BY <1>1, <1>5 DEF TInv, PlaceOK

\* Every step keeps the invariant.
LEMMA TNextInv == ASSUME TInv, [Next]_vars PROVE TInv'
  <1>1. ASSUME NEW p \in Procs, Ends(p)
        PROVE  TInv'
    <2>1. PlaceOK' /\ pc'[p] = "off" /\ \A q \in Procs \ {p} : pc'[q] = pc[q]
      BY <1>1 DEF Ends, Goto, TInv, PlaceOK
    <2> QED
      BY <1>1, <2>1, AwayFromFile DEF Ends, ServerUp, ServerStarts
  <1>2. ASSUME NEW p \in Procs,
               (\E b \in Bases : StartClient(p, b)) \/ TryBinds(p) \/ TryFails(p)
        PROVE  TInv'
    <2>1. /\ PlaceOK'
          /\ pc'[p] \in {"scan", "loop"}
          /\ \A q \in Procs \ {p} : pc'[q] = pc[q]
      BY <1>2 DEF StartClient, TryBinds, TryFails, Scanning, Goto, TInv, PlaceOK, Starting,
                  ClientStarts
    <2> QED
      BY <1>2, <2>1, AwayFromFile
      DEF StartClient, TryBinds, TryFails, dbVars, ServerUp, ServerStarts
  <1>3. ASSUME NEW p \in Procs, ServerBinds(p)
        PROVE  TInv'
    <2>1. PICK place \in {"serving", "deaf"} : Goto(p, place)
      BY <1>3 DEF ServerBinds
    <2>2. /\ PlaceOK'
          /\ pc[p] = "binding" /\ pc'[p] \in {"serving", "deaf"}
          /\ \A q \in Procs \ {p} : pc'[q] = pc[q]
      BY <1>3, <2>1 DEF ServerBinds, Goto, TInv, PlaceOK, ServerUp
    <2> QED
      BY <1>3, <2>2, AwayFromFile DEF ServerBinds, dbVars
  <1>4. CASE UNCHANGED vars
    BY <1>4 DEF vars, dbVars, TInv, PlaceOK, Reached, Rival
  <1>5. CASE Next
    <2>1. PICK p \in Procs : Start(p) \/ Step(p) \/ Stop(p)
      BY <1>5 DEF Next
    <2> QED
      BY <2>1, <1>1, <1>2, <1>3, RemovalInv, FileInv
      DEF Start, Step, Stop, ClientStep, ServerStep, TryAborts, ScanFails,
          StartFails, ServerEnds
  <1> QED
    BY <1>4, <1>5

\* A server that is through with its start finds its tables unless the file
\* was removed after it removed it, and the accounts as well if no other
\* server was up then, however the starts of servers interleave
\* (main.cpp:39-46, sqliter.cpp:5-54).
THEOREM TablesAreThere == Spec => []TablesFollowServer
  <1>1. Init => TInv
    BY LaunchAssumption DEF Init, TInv, PlaceOK, Reached
  <1>2. TInv /\ [Next]_vars => TInv'
    BY TNextInv
  <1>3. TInv => TablesFollowServer
    BY DEF TInv, PlaceOK, Reached, TablesFollowServer
  <1> QED
    BY <1>1, <1>2, <1>3, PTL DEF Spec
=============================================================================
