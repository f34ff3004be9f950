# perlink in TLA+

perlink links programs on different hosts that sit behind NATs. A relay server
on a public address keeps a table of the clients that registered with it and
introduces providers and consumers to each other; the clients then ping each
other's public addresses until both NATs let the datagrams through, and talk
without the server. This directory models the server, the client, the network
between them and the promise they make together, checks the models with TLC and
proves theorems about them with TLAPS.

Sources are named as in the repository (`src/u_server.cpp`, ...); numbers after
a colon are lines.

## 1. Inventory

| Part | State it keeps | Operations | Talks to | Module |
|---|---|---|---|---|
| Relay server, `u_server.cpp` | `_prev`, `_dirty`, `pingpers` | `_process` (register, keepalive, unregister, other), sweep (`_ping_pers`, `_delete_olies`), select timeout | clients by UDP, the table by calls | RelayServer |
| Peer table, `sqliter.cpp` | table `pers` (one row per address, id, keys), `mid`, `rej` | `store_peer`, `remove_peer`, `update_peer`, `get_pers`, `del_oldies`, `authorize`, `deny` | SQLite, and through it every process that opens the file | RelayServer, PeerTable |
| Connection guard, `sqliter.h` | `Sqlyte::_db`, one handle per guard | open, close the handle before | SQLite | SqlConn |
| Client, `a_peer.cpp` | `_status`, `_pers`, `_regtime` | register, one datagram per turn, typed lines | server and clients by UDP | APeer |
| Watch on the server, `a_peer.cpp:101` | `iah`, `_pingtime` | every `IAM_HERE_TO` seconds | - | ServerWatch, ClientAlone |
| Datagrams and addresses, `per_id.h`, `sock.h` | - | verbs, `SrvCap`, comparison of `SADDR_46` | all | PerId |
| UDP wrappers, `sock.cpp:1135`, `udp_xdea.cpp` | socket, `_remote_sin`, `_connected`, `_bind` | create, bind, connect, `set_rsin`, send, receive, destroy | kernel | Network (send, receive), Launch (create, bind, destroy), UdpSock (all of them, in any order) |
| TCP classes, `sock.cpp:181-1131` | `_thesock`, `_blocking`, `_connecting`, `_connected` | create, connect (five ways), accept, copy, destroy | kernel | Descriptors, TcpSock (as a library: no program creates one) |
| Cipher, `per_id.cpp`, `per_id.h` | - | `xtea_*`, `ed`, `_tokeys` | - | Codec |
| Processes of a host, `main.cpp`, `a_peer.cpp:68`, `u_server.cpp:50`, `sqliter.cpp:5` | ports, descriptors, the database file | start a client, a server or neither; search for a port; make the database | each other, by ports and the file | Launch |
| Keyboard, `a_peer.cpp:114` | the line so far | append, send | terminal | APeer (finished lines) |
| Registry of pairs, `peers.cpp` | `_pairs` | add, remove, `del_oldies` | - | Pairs (as a library: never instantiated) |
| Threads, `osthread.h` | `_bstop`, `_stopped`, `_joined`, `_hthread` | start, signal, stop, join, destruct | pthreads | OsThread (as a library: never included) |
| Pipes, `pipefiles.cpp` | - | - | - | not modelled: switched off by the preprocessor |

How they interact. A client sends `SRV_REGISTER` every `REG_TICK` seconds while
it is not linked. The server stores the row, acknowledges, and at the end of the
same turn of its loop sweeps: a `SRV_PING` to every row and, for each pair of
rows of different type, a `SRV_SET_PEER` to both. A client answers a
`SRV_SET_PEER` with a `PER_PING` to the address in it, a `PER_PING` with a
`PER_PONG`, and on a `PER_PONG` it takes the sender as a member and is linked.
Lines typed at a linked client go to all members.

What is hard: datagrams come in any order, more than once or not at all; NATs
drop the first pings; client, server and network fail independently and the
server's table does not survive it; the server suppresses repeated payloads with
one remembered datagram that all clients share; SQLite statements may fail one
by one, and wait without an end for another process's lock; the age of a row is
found by comparing a date and time with a bare date; acknowledgements test for a status that is never set, so that linking
rests on retries. `PROJECT.json` lists these hazards at their lines.

What makes each part correct: the table holds whom the server acknowledged and
loses only old rows, after a last ping; no client is shut out by another's
payload; members of a client are announced clients of the other role; status,
members and what is shown agree; clients of opposite roles do become linked. A
socket object holds its descriptor alone and knows its mode, its status and
its peer; an object that was joined has no thread when it goes; nobody is paired
with himself. Where the code does not keep one of these, a run shows it violated
or section 3 names it.

## 2. Modules

| Module | Models | Composition |
|---|---|---|
| PerId | peers, addresses as they compare, datagrams | - |
| Network | datagrams in flight, NATs (external) | EXTENDS PerId |
| RelayServer | server loop and table | EXTENDS Network |
| APeer | every client's loop | EXTENDS Network |
| Perlink | the running system, faults, fairness, properties | EXTENDS APeer, RelayServer; INSTANCE Rendezvous and ServerAlone, both of which it refines |
| Rendezvous | abstract promise: announce, link, hear, forget | - |
| ServerAlone | the server against clients that send anything | EXTENDS RelayServer |
| ServerWatch | the watch on the server | EXTENDS APeer |
| ClientAlone | a client against hosts that send anything | EXTENDS ServerWatch |
| Launch | the processes of one host | - |
| PeerTable | the server with the times of its rows, statement by statement, and another process's locks | EXTENDS Network; INSTANCE ServerAlone, which it refines |
| SqlConn | the server's SQLite connections | - |
| Codec | XTEA and `ed`, one turn of their loops at a time, buffer after buffer | - |
| Descriptors | descriptors and TCP connections (external) | - |
| TcpSock | the TCP classes | EXTENDS Descriptors |
| UdpSock | one `udp_sock` | - |
| OsThread | one thread object, its caller and its threads | - |
| Pairs | the registry of pairs | - |
| Library | a process that uses one of these four, or the cipher | EXTENDS TcpSock, UdpSock, OsThread, Pairs, Codec |
| PerlinkProof | theorems about Perlink and its two refinements | EXTENDS Perlink, TLAPS |
| ServerAloneProof, ClientAloneProof, PeerTableProof, SqlConnProof, LaunchProof, LibraryProof, CodecProof | theorems about the module of that name | EXTEND it and TLAPS; LibraryProof also CodecProof |
| MCLinks, MCPerlink, MCServerAlone, MCClientAlone, MCPeerTable, MCLibrary | small systems for TLC | EXTEND the above |

### State and actions, and the code

*RelayServer.* `rows` is the table `pers`; a row is the address, type and group
that its unique key hashes (`u_server.cpp:120`). `stale` is the set of rows the
next `del_oldies` deletes. The delete compares a date and time with a bare date
(`sqliter.cpp:65`), so a row is deleted when a day has turned since it was last
written, and `DayTurns` makes any rows stale; it may pick any subset because a
row may just have been refreshed. `prev`, `dirty` and `sweepAge` are `_prev`,
`_dirty` and `now - pingpers`. One turn of the loop is one datagram (`SrvStore`,
`SrvRepeated`, `SrvUpdateTime`, `SrvUnregister`, `SrvDrop`) or a timeout, and
then, in the same turn, the sweep: `spc` separates the two because other
programs' steps fall between them. `DbFaults` lets each SQLite statement fail
for itself; `StoreOutcomes` lists what SELECT, INSERT and UPDATE of `store_peer`
can do together. `remove_peer` deletes nothing (`sqliter.cpp:112` appends the
key as one character) and only its result is a choice.

*ServerAlone.* The requests are every verb that the server acts on or drops, from
every client, so that it is tried with more than today's client sends it.
`InTurn` says how the clients do it: one request at a time, which is what the
server's thread sees of any of them, or as many at once as they like, each read
or lost when they like. The second is what Perlink refines.

*PeerTable.* The same server closer to its code. `age` is the table: for each
row the seconds since its `D`; `clock` is the second of the day, and `Limit` what
`D <= date('now','-30 seconds')` comes to when both are compared as text. `pc` is
the statement the server waits for: a prepared SELECT is stepped over and over
while another process holds the database (`lock` is "exclusive"), since the loops
of `get_pers`, `authorize` and `store_peer` end on an error and at the last row
only. Statements that do not wait are one step, in which each may find another
lock. `late` is how far `now`, which is read at line 57 of `u_server.cpp` only, is
behind. `Srv` instantiates ServerAlone with `stale` as the rows that the next
delete takes, so that the choices of `DayTurns` and of the failing statements
become consequences of the clock and the lock. A client may come back at its
address with the other role, for which the table has a second row.

*APeer.* `status`, `pers` and `regAge` are `_status`, `_pers` and
`now - _regtime`. `status` has two values in every behaviour, since an
acknowledgement tests for `SRV_UNREGISTER`, which is a verb and no status
(`a_peer.cpp:210`). `shown` and `announced` are history: what this process put
on the screen, and who ever registered. One action per verb of `_srv_process`
and `_per_process`. Datagrams of 112 bytes and more are deciphered whoever sent
them; if they were never enciphered (verb `CLEAR`) they decipher to anything,
and `Reads` lets every handler take them.

*PerId.* `SameAddr` compares ports only: the receive that the programs call
clears the whole of `_remote_sin` with its mask (`sock.cpp:1335`), and
`SADDR_46::operator==` and `<` mask the address bits with it (`sock.h:185`).
`FromServer` and `Insert` are built on it.

*Network.* Not this repository's code. A set of datagrams in flight, each
delivered any number of times (`KeepChoices` holds TRUE) or once, in any order,
or never. A NAT lets in what comes from an address its host has sent to.

*SqlConn.* `db` is `Sqlyte::_db`, `older` the `_db` of the guard that is alive;
`open` and `pending` are SQLite's: the connections that are open, and those with
a statement that is not finalized, which `sqlite3_close` refuses to close. The
stages of a call are actions of their own, so that opening can fail in each.
`Calls` is the order in which `u_server` calls. Handles have values that are
used again after a close, so a dangling one may be somebody else's.

*ServerWatch.* `iahAge` and `pingAge` are `now - iah` and `now - _pingtime`.
`WatchedAge` is what line 106 of `a_peer.cpp` compares, after line 105 has set
`_pingtime` to now. ClientAlone adds its steps to those of the client, and the
end of a process by the assertion behind the loop of `_received` (`Aborts`).

*Launch.* Each process is somewhere between its start and its end (`pc`), with
`_thesock` (`fd`), the port in `_local_sin` (`local`) and `i` or `__perport`
(`at`). A try of a port is one step, since others see nothing of it but the bind.
`socket()` may fail or give descriptor 0, and both come out as the code tests
them: -1 is true and 0 is false. Ports are cut to their width, and the assertion
in `bind` ends a process that comes to 0. `onFile` holds the processes whose
connection is to the file that has the name now: `main` removes the name, and
what an older connection writes is lost. `remover` and `alone` are history.

*Codec.* `buf` is the buffer, `at` the block that the loop of `ed` is at, `v` the
block and the sum under the cipher and `turn` its `i`. `CallBlock` and `CallTail`
are the calls of `ed` on a block and on the tail, `Round` is one turn of the
cipher's loop, `Return` its end and `Pass` the end of `ed`, after which the other
program runs it over the same buffer; `Another` brings the next buffer. The word that is in the local block when a
tail is put into it is a choice, since the code does not set it.

*TcpSock.* Objects of `tcp_cli_sock` and one `tcp_srv_sock`. `conn` says what is
behind each descriptor, `nonblock` its mode in the kernel; the members are named
as in the code. A connect that waits in its loop is `call`: other objects are not
called meanwhile, since the process has one thread, but the network goes on.
`Waits` and `Leaves` are what `bio_unblock` does on both ends of the call. A
descriptor may be 0, which the code takes for none. A connection of which a call
said that it is over while it goes on is "left". `shared` is history: an open
object was copied or accepted into, after which two objects have one descriptor
and nothing is promised.

*UdpSock.* `kernPeer` is where the kernel has the socket connected to, `remote`
and `uconnected` what the object believes. `masked` is `_mask` of `_remote_sin`:
after a receive has cleared it addresses compare by their ports. `sent` is the
last step, if it sent: where the caller or the object asked for, and where the
datagram went. `unsure` is history.

*OsThread.* `place` is where each thread is in `SFoo`; `caller` what the thread
that owns the object waits in. `_stopped` starts as a choice, since the
constructor does not set it. An object ends in two stages: `Unmake` destroys the
part of its subclass, and `Destruct` is the body of `~OsThread`, which runs after
that and only then stops the thread. Between the two a thread that is in
`thread_main` goes on in a destroyed subclass, and one that is about to call it
(`place` "set", line 169) finds a pure virtual function (`CallsPure`), which ends
the process. In the memory of an object that is gone it may find either.
`restarted` and `unseen` are history.

*Pairs.* An address is stored by `ipp::operator=`, which leaves `_t` at zero, and
compared with arguments that have one.

*Perlink.* Clients start at any time and may end (`stop`), the server may crash
and starts with an empty table (`main.cpp:39`), midnight may pass, datagrams may
be lost. `Budget` says how often each may happen, `spent` counts.

## 3. Runs

| Run | Instance | Shows |
|---|---|---|
| links | a provider and two consumers on one port, every datagram may repeat; among the provider and one consumer any two of a process end, a server crash and a midnight | TypeOK, Introduced, LinkedIffMember, HeardOnMemberPorts, ImplementsRendezvous (refinement of the abstract promise) |
| live | 2 clients of two groups, both on port 5002 behind NATs, one lost datagram, fairness | EventuallyLinked |
| server | 3 clients that send anything, in turn | SrvTypeOK, SelectClean, AckedIsStored, LastPing, StaleSwept |
| peer_table | one host in either role, a day of 3 seconds, another process that locks the database at any point, fairness | TableTypeOK, FreshKept, SweptWithinADay, ImplementsServer (refinement of ServerAlone), SuppressionEnds, SweepsRecur |
| client_alone | 1 client, 3 hosts, two of them on one port and one on the server's, any silence of the server | PeerTypeOK, LinksLast |
| sql_handles | 5 connections | SqlTypeOK, HandlesInUseAreOpen, ExitsInTheEnd |
| launch | 3 processes, ports cut to 0 to 6, 2 tries from 4 or 6, the server's port is 5, fairness of starts | LaunchTypeOK, PortsHeld, TablesFollowServer, StartsEnd |
| library | two TCP objects and a listening one over 3 descriptors; a `udp_sock` and 2 hosts with 2 ports; an object that is started twice; 2 names and 5 programs; buffers of up to 5 words of 3 bits, 8 rounds, 2 keys | LibTypeOK; HeldOnce, ModeKnown, StatusKnown, CallsEnd; SentWhereAsked; NoneOutlives, StopReturns; PairsApart; WholeBlocksReturn |
| long_line_shown | 2 clients, long lines | **violated** HeardOnlyLinked |
| short_line_shown | 3 clients on port 5002, short lines | **violated** HeardOnlyLinked |
| one_port | 3 clients on port 5002 | **violated** EventuallyLinked |
| server_restart | 2 clients, a client stop and a server crash | **violated** EventuallyLinked |

Each property of a passing run has a mutant in `PROJECT.json`: an operator,
marked "a bug to find" in its module, that stands for a plausible mistake in the
code and makes TLC find the property violated.

### The violated properties

- *long_line_shown.* A long typed line is sent as it is and deciphered by the
  receiver; when it reads as `PER_DATA` it is shown, member or not
  (`a_peer.cpp:249`), against the comment at `a_peer.cpp:291`.
- *short_line_shown.* A short datagram is shown when `_pers` finds its source
  (`a_peer.cpp:146`), and `_pers` compares ports. A provider and two consumers use
  5002; the provider links one consumer and shows what the other types, which is
  no member of it, against the same comment and without any fault.
- *one_port.* The README's command lines give client, port and server address;
  `main.cpp:23` then ignores the port and all clients use 5002. `_pers` compares
  ports, so a provider keeps one consumer.
- *server_restart.* Client and server are restarted, the other client stays
  linked, never registers again because `_pingtime` is overwritten right before
  it is compared (`a_peer.cpp:105`), and nobody introduces the two.

Further disagreements are in the models but have no run:

- The README starts providers and consumers "in group abc", and every group is
  paired with every other (`sqliter.cpp:236`, `u_server.cpp:150`): the two clients
  of *live* are of two groups and end up linked.
- A registration whose INSERT fails is acknowledged all the same
  (`sqliter.cpp:170`, the choice `selected` of `StoreOutcomes`).
- Unregistering deletes nothing though the server logs "dropping". The row stays
  for up to a day and is introduced meanwhile (SweptWithinADay).
- The watch on the server never fires: `_pingtime` is set to now in the line
  before it is compared (`a_peer.cpp:105`), so that a client whose server is gone
  keeps its members and does not register again. *server_restart* shows what
  follows; no property promises the silence is survived.
- A host on the server's port is taken for the server, and of several hosts on one
  port one becomes a member. Both are in the models (`FromServer`, `Insert`).
- `try_connect` that is called again while the first attempt is on its way says 0,
  "closed -cannot", and the connection comes up later (`sock.cpp:804`, 827);
  `i4connect` and `s4connect` return the socket of a connect that ran out of time
  as if it were connected (`sock.cpp:1024`, 1103). StatusKnown names both "left".
- `accept` and `operator=` write over the descriptor of an object that is open
  (`sock.cpp:761`, 547). HeldOnce holds until then.
- `sendall` is said to return 0 for success and returns a count (`sock.cpp:405`).
- A thread object that is restarted is not joined again, and one that is
  destroyed within a moment of its start may take an unset `_stopped` for the end
  of its thread (`osthread.h:148`, 95). NoneOutlives names both.
- `~OsThread` stops the thread when the part of the subclass is destroyed already:
  `thread_main` then runs in what is left of the object, and a thread that has
  just begun calls a pure virtual function (`osthread.h:95`, 169). NoneOutlives
  promises of such an object only that the thread is out of it at the end of
  `~OsThread`, if the process gets there; an object that was joined before has no
  thread from the first moment of its destruction.
- A party with a type is paired with itself in the registry (`peers.cpp:33`).

*sql_handles* passes and shows a fault that no text of the repository denies: a
working server runs out of files and exits, because each turn of its loop leaves
a connection that cannot be closed.

### Bounds, and why they suffice

- *Clients.* Two show a pair; three show two consumers with the same payload and
  on the same port, of which a provider links one. Nothing in the code counts clients.
- *Ages.* `TTLIVE` and `REG_TICK` are 0 in the system runs and 1 in the runs of
  one component: ages are compared with one limit only and saturate just past
  it, so that "not yet", "now" and "overdue" all occur. The watch has
  `IAM_HERE_TO` 0 and `SERVER_DOWN_TO` 1, in the order of the real 15 and 30.
- *Ports.* The scan from 4 goes over the server's port, the one from 6 over a
  port that another program holds and then past the width to 0. Two tries show a
  success after a failure and the end of a scan.
- *Network.* A set of datagrams is finite without a bound, since datagrams carry
  no counters. In *live*, *one_port* and *server_restart* the verbs in `Unheard`
  are lost when sent: `SRV_PING` and `SRV_REGISTERRED` change no state that
  linking depends on (`Registerred` is the identity), and losing them all is
  harder on the system than delivering them. The safety runs deliver everything.
- *Repetition.* The safety runs let every datagram repeat for ever. *live*
  delivers once, which is harder for liveness.
- *Faults.* One of each. *links* lets any two of a stop, a crash and a midnight
  happen at any points while the provider and one consumer take part, and has
  both consumers while none happens (`BoundedStep`): the second consumer shows
  what members do to each other, a fault what is left over of a past link. The
  two consumers differ in their names only, and TLC takes one for the other; all
  properties of the run are safety. SQLite fails in *peer_table*. *live* has no
  midnight: a client that is linked does not refresh its row, so that a midnight
  between two introductions would keep the slower one from ever being linked.
- *Days.* `DAY` 3, `GRACE` 1 and `TTLIVE` 0 give a moment before, at and after
  midnight, one inside and one past the grace, and sweeps in each. Ages saturate
  where every delete takes the row. FreshKept and SweptWithinADay are proved for
  any lengths.
- *Library.* Three descriptors are one for each object; 0 is among them. `TOUT` 2
  shows a connect that is answered in time, at the last moment and too late.
  States in which an open object was written over are not continued (`Unshared`).
  Two threads show a restart. The five programs of *library* are two hosts with
  the same private address, a party with a type, one on the loopback and one that
  has no port.
- *Connections.* Five: two of a running call, the third of `store_peer`, and two
  that are left over. The theorem is for any number.
- *Cipher.* Every family of *library* has the others at rest in one state; the
  buffers follow each other. Eight rounds at a width of three bits go through every value the sum
  can have; every block is tried alone, and some with a second block and a tail.
  CipherReturns is for any width.
- *Isolated components.* One datagram in flight at a time: the component is one
  thread, and what it reads next does not depend on what else is in flight. The
  theorems about ServerAlone are for both values of `InTurn`.

### Fairness

`Perlink!FairSpec`. The loops never block longer than 100 ms in select, so the
server's turn and its sweep happen (WF), and a killed process is started again
(WF of Start and ServerStart: an assumption about the operator, needed only in
runs with stops). A second always passes. Of the datagrams, `SRV_SET_PEER`,
`PER_PING` and `PER_PONG` that stay deliverable are delivered (WF), except for
`Budget["loss"]` many. A registration is received in the end although the
server is sometimes sweeping (SF): it stays in the socket's buffer, and every
turn of the loop reads before it sweeps. `SqlConn!FairSpec` asks that the
server's loop goes on (a sweep is due every `TTLIVE` seconds) and that SQLite
does not refuse every select from some time on. `Launch!FairSpec` asks that a
process that is starting goes on (WF of each start): no step of a start waits
for another process. `PeerTable!Fairness` asks that the loop and the clock go on (WF), that the other
process gives its lock back each time (WF of `Unlock`), and that a step that is
tried over and over, or a select that times out between datagrams, meets its
moment (SF): the server steps without a pause, and each turn of its loop selects.
`Library!Fairness` asks that a connect that waits and its clock go on, that the
threads of an object go on and that `thread_main` returns once `_bstop` is set,
which is what the class is for; what a callback of the caller says is not known.
No fairness is assumed of acknowledgements, server pings,
lines, faults or midnight, nor of the end of a process.

## 4. Proofs

Every invariant, every action property and every refinement of the passing runs
is proved, and one refinement that no run checks. The theorems are for any values
of the constants that satisfy the assumptions the modules declare: roles are
Booleans, no client uses the server's port, limits are naturals, a grace is
shorter than a day, a word is less than the number of words, and the like.

### The system

`PerlinkProof` proves, for any clients, groups, limits, NATs and budgets, with or
without failures of SQLite where nothing else is said:

| Theorem | States | Assumes |
|---|---|---|
| TypeCorrect | `Spec => []TypeOK` | - |
| AllIntroduced | `Spec => []Introduced` | - |
| SelectIsClean | `Spec => []SelectClean` | - |
| SystemAcknowledges | `Spec => [][AckStored]_vars` | SQLite works |
| SystemPingsFirst | `Spec => [][PingedBefore]_vars` | SQLite works, pings are not in `Unheard` |
| SystemServesAlone | `Spec => ImplementsServerAlone` | - |
| KeyboardFollowsMembers | `Spec => []LinkedIffMember` | short lines (`ShortLines`) |
| DataOnMemberPorts | `Spec => []HeardOnMemberPorts` | short lines |
| SystemImplementsPromise | `Spec => ImplementsRendezvous` | short lines, no two clients share an address (`DistinctAddrs`) |

*The invariant.* TypeOK alone is not inductive in its interesting half: that a
member is a client's address depends on the pong it came from, that on a ping,
that on an introduction and that on two rows. `IInv` therefore says that the
network holds only datagrams that the clients *announced so far* can have caused
(`WireAmong(announced)`), that the rows are theirs, and that members and whoever
was shown are paired with them by opposite roles. `WireAmong` only grows when a
client is announced (`WireGrows`), so that every step has to justify only what it
sends: `PutSound` and `ExchangeSound` do this once for all steps, and one lemma
per kind of step (`RegisterInv`, `PeerGetsInv`, `ServerSweepsInv`, ...) supplies
the rest. `SelectIsClean` is inductive by
itself: a datagram that changes the table or is remembered sends the loop to the
sweep.

*The server in the system.* `SystemServesAlone` maps the datagrams from and to
the server, and the holes that let its datagrams in, to the traffic of
ServerAlone. A datagram either has the server at one end or at none:
`PutWithServer` and `ExchangeWithServer` carry the first kind over, and the
second kind leaves that traffic alone or takes a datagram from it (`HoleAside`,
`ExchangeAside`), which ServerAlone's clients may do at any time. That a client's
ping or line never goes to the server, though its address comes out of a
datagram, is what `IInv` is needed for. So a system with its protocol is one of
the environments that ServerAlone tries the server in. TLAPS cannot cite a
theorem of an instanced module; the two action properties of the server are
therefore proved of the system by themselves (`SystemAcknowledges`,
`SystemPingsFirst`), from who sends what. TLC found no violation of
`ImplementsServerAlone` with two clients behind NATs, every datagram delivered and
one loss (694 492 states); it is not among the runs, since the theorem covers it.

*The promise.* The last three theorems assume `ShortLines`: no typed line has the
112 bytes of a SrvCap. *long_line_shown* violates HeardOnlyLinked without it.
`NoClear` - nothing in flight deciphers to garbage - is then inductive, because
only typed lines are sent unsealed and the one server reply that is answers a
verb that no client sends; so every datagram is what its verb says. `NextChange`
says what a step does to members, status, shown sources and announced clients: it
`Forgets`, `Announces`, `Admits` or `Shows`, or none of them. Each keeps the
keyboard in step with the members whatever ports the clients have
(`ChangeKeepsKeyboard`). The client looks for the source of a line in its members
by the port, so what is shown comes from a member's port (`ChangeKeepsHeard`) and
no more can be said: *short_line_shown* violates HeardOnlyLinked, and all clients
that are started by the README's command lines are on one port. The abstract
promise therefore hears an announced client of the other role on a port that a
linked client uses. `IInv` says that who is admitted or shown is such a client,
and each change is the step of its kind of Rendezvous (`ChangeIsPromised`).
`DistinctAddrs` is needed to name the client that an address belongs to: two
invocations on one host and port, one after the other, are one client to everybody
else, and the mapping from addresses to clients could not tell which was meant.

### The components

| Module | Theorem | States | Assumes |
|---|---|---|---|
| ServerAloneProof | ServerTypeCorrect | `Spec => []SrvTypeOK` | - |
| | AcknowledgedIsStored | `Spec => AckedIsStored` | SQLite works |
| | LastPingFirst | `Spec => LastPing` | SQLite works, pings are not in `Unheard` |
| | SelectIsCleanAlone | `Spec => []SelectClean` | - |
| PeerTableProof | TableTypeCorrect | `Spec => []TableTypeOK` | - |
| | TableImplementsServer | `Spec => ImplementsServer` | - |
| | FreshRowsKept | `Spec => FreshKept` | - |
| | OldRowsSwept | `Spec => SweptWithinADay` | - |
| ClientAloneProof | ClientTypeCorrect | `Spec => []PeerTypeOK` | - |
| | MembersStay | `Spec => LinksLast` | - |
| SqlConnProof | SqlTypeCorrect | `Spec => []SqlTypeOK` | - |
| | NoUseAfterClose | `Spec => []HandlesInUseAreOpen` | - |
| LaunchProof | LaunchTypeCorrect | `Spec => []LaunchTypeOK` | - |
| | PortsAreHeld | `Spec => []PortsHeld` | - |
| | TablesAreThere | `Spec => []TablesFollowServer` | - |
| LibraryProof | LibTypeCorrect | `Spec => []LibTypeOK` | - |
| | DescriptorsHeldOnce, ModesAreKnown, StatusIsKnown | `Spec => []P`, P one of HeldOnce, ModeKnown, StatusKnown | - |
| | SendsAreRight | `Spec => []SentWhereAsked` | - |
| | NoThreadOutlives | `Spec => []NoneOutlives` | - |
| | PairsAreApart | `Spec => []PairsApart` | - |
| | BlocksReturn | `Spec => []WholeBlocksReturn` | - |
| CodecProof | CipherReturns | `CodecSpec => []WholeBlocksReturn` | - |

*ServerAlone.* The types are inductive: datagrams that the server acts on have a
verb that only clients send, and so a client's address and payload. What a step
acknowledges or deletes is read off the step: of all steps only a store sends an
acknowledgement, and only a sweep, a stop or a start takes a row away. These two
assume that SQLite works; SelectClean is inductive by itself. None needs that the
clients take turns.

*PeerTable.* Each step keeps `TableInv` and is a step of the server or a stutter
(`Served`). `TableInv` says, with the types, that one request is in flight, that
the server which waits for a statement has it in hand, and that one whose
`store_peer` got as far as its SELECT is a registration that is not repeated: so
the statement that ends the handling maps to the handler of ServerAlone, and all
before it to stutters. A sweep maps to a sweep whose read and whose delete each
succeed or not; what becomes stale becomes so in `Tick` (`DayTurns`). By this
theorem what is proved of ServerAlone with `DbFaults` TRUE is true of the table
with its locks. The two action properties need of `Limit` only where it lies: at
least `GRACE`, and less than a day and `GRACE` (`LimitRange`).

*ClientAlone.* The invariant is the types and that what is in flight comes from
the server, a stranger or the client. `Change` lists what a step can do to
members, status and what is shown, and `StepChange` proves it once; the theorems
follow from it and from what `Insert` does.

*SqlConn.* For any limit of open files. The invariant is the property with the
types: what a guard opens was closed, so the handle it remembers is another one
and is open, and closing that one leaves `_db` open.

*Launch.* For any number of processes, any ports and any number of tries. For
PortsHeld the invariant is the property with the types, which say that a port
number is cut to its width. TablesFollowServer speaks of the end of a start only;
`Reached` says what the process that removed the file last has at each place of
its start, and only a later removal, which makes another process the last,
takes it away.

*Library.* For the TCP classes the invariant (`TcpInv`) is the types and, while
no open object was written over, `Sound`: a descriptor that is not closed is held
by an open object, no two open objects hold the same one, and mode and status of
each object are right where it is not in a call. A step is about one object, and
what it does to the descriptor of this one leaves the others sound
(`AboutOnlyKeeps`), because they hold other descriptors; one lemma for each kind
of call (`ReturnsNew`, `WaitsSound`, `ReconnectSound`, `LoopSound`, ...) then
looks at one object only. For the `udp_sock` the invariant adds `Agreed`: an
object that says it is connected has the kernel's peer for its own, or is one of
the cases that the property names. For the thread `OneThread` says that an object
that was started once has no thread but that in its handle, whose `_stopped` and
`_joined` are true only outside `thread_main` (`UnmakeKeeps`, `DestructKeeps` and
`CallerKeeps` follow the object through its two stages). For the pairs the property is
inductive with the types.

*Codec.* For any number of words, shifts, delta, keys and rounds and any ^ that
gives words. What the rounds compute is not said by a recursion, which the prover
could not unfold: `Path(h, n, e, w, k)` says that the function `h` is what `n`
rounds go through. The invariant (`CodecInv`) says that a block the first program
is through with is the end of a path from the block of the text (`Coded`), that
one under way is somewhere on such a path (`Coding`), and that the second program
walks the same path back to its start (`Decoding`, `Plain`). That rests on a round
being taken back by the round of the other direction, sum included
(`RoundTakenBack`, for which ^ is no more than a function), and on each direction
starting with the sum that the other one ends with (`SumMeets`), which is what
`delta*num_rounds` is for. A tail is not promised anything, and touches no block.

Only model-checked: everything temporal under fairness (EventuallyLinked,
StaleSwept, SuppressionEnds, SweepsRecur, ExitsInTheEnd, StartsEnd, CallsEnd,
StopReturns), which the prover does not reach.

## 5. Not modelled

The bytes: layout of `SrvCap` and `ipp`, `_tokeys`, wording of the log, the
characters of a line that is being typed (a line is sent when it is finished).
The counts of `deny` (nothing follows from them: `_ufw_reject` is empty) and the
table `mid`, which nothing reads. Statements of a server's start that fail for
another reason than a database that another process uses. The parsing of `argv`:
which of the three programs starts is a choice. The port that the kernel gives to
a server whose `bind` failed when it first sends.

Of the socket classes: what a TCP connection sends and receives, name lookup,
`attach` and `detach`, `select_receive`, and the overloads of `udp_xdea` that no
program calls. Of `osthread.h`: the wrappers of a mutex and a condition, which
add nothing to those of pthreads, `CntPtr`, and the Windows part. The destructor
of a thread object detaches a thread that it has joined, which pthreads leaves
undefined; what that does to other threads of the process is not modelled.
`pipefiles.cpp` has no code that is compiled.

Two clients at one address with different roles are in *peer_table*; they are
outside the runs of the whole system and outside the theorems that assume
`DistinctAddrs`.

## 6. What could follow

- A model of TCP data over TcpSock, if a program comes to use these classes.
- The retries of `authorize` over several accounts, each with its own lock.
