----------------------------- MODULE ServerWatch -----------------------------
(***************************************************************************)
(* A client's watch on its server (lines 101 to 113 of a_peer::main): when *)
(* the server was silent for SERVER_DOWN_TO seconds the client is to drop  *)
(* its members and register again.                                         *)
(*                                                                         *)
(* Ages count seconds and saturate just past the limit they are compared   *)
(* with.                                                                   *)
(***************************************************************************)
EXTENDS APeer

CONSTANTS
    IAM_HERE_TO,    \* seconds between two turns of the watch
    SERVER_DOWN_TO  \* seconds of silence after which the server is down

ASSUME WatchAssumption == IAM_HERE_TO \in Nat /\ SERVER_DOWN_TO \in Nat

VARIABLES
    iahAge,     \* iahAge[p]: now - iah
    pingAge     \* pingAge[p]: now - _pingtime

watchVars == <<iahAge, pingAge>>

WatchInit ==
    /\ iahAge = [p \in Peers |-> IAM_HERE_TO + 1]
    /\ pingAge = [p \in Peers |-> 0]

\* A process starts, or ends: iah is 0 and _pingtime is now.
WatchReset(p) ==
    /\ iahAge' = [iahAge EXCEPT ![p] = IAM_HERE_TO + 1]
    /\ pingAge' = [pingAge EXCEPT ![p] = 0]

\* The end of _srv_process: whatever the verb, the server was heard.  Short
\* datagrams do not get there.
Hear(p, d) ==
    /\ pingAge' = IF FromServer(d.src) /\ d.verb # "LINE"
                  THEN [pingAge EXCEPT ![p] = 0] ELSE pingAge
    /\ UNCHANGED iahAge

\* _i_am_here returns at once, and then _pingtime is set to now: this is the
\* age that the watch compares, and leaves.
WatchedAge(p) == 0

Watch(p) ==
    /\ up[p]
    /\ iahAge[p] > IAM_HERE_TO
    /\ iahAge' = [iahAge EXCEPT ![p] = 0]
    /\ IF WatchedAge(p) > SERVER_DOWN_TO
       THEN /\ pers' = [pers EXCEPT ![p] = {}]
            /\ status' = [status EXCEPT ![p] = "SRV_UNREGISTERED"]
            /\ pingAge' = [pingAge EXCEPT ![p] = 0]
       ELSE /\ pingAge' = [pingAge EXCEPT ![p] = WatchedAge(p)]
            /\ UNCHANGED <<pers, status>>
    /\ UNCHANGED <<netVars, up, regAge, shown, announced>>

Older(age, limit) == IF age > limit THEN age ELSE age + 1

WatchTick ==
    /\ iahAge' = [p \in Peers |-> Older(iahAge[p], IAM_HERE_TO)]
    /\ pingAge' = [p \in Peers |-> Older(pingAge[p], SERVER_DOWN_TO)]
=============================================================================
