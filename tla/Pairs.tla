-------------------------------- MODULE Pairs --------------------------------
(***************************************************************************)
(* The registry of pairs of src/peers.cpp: under each name the public and  *)
(* private address of one party (_a) and, later, of another (_b).          *)
(*                                                                         *)
(* ipp::operator= does not copy _t and the pairs of a map start as zeros,  *)
(* so that the _t of a stored address is 0 whatever was added, and equals  *)
(* that of an argument only if this one is 0.                              *)
(***************************************************************************)
EXTENDS Naturals

CONSTANTS
    Names,
    Hosts,      \* values of ipp::_a
    Loopback,   \* 127.0.0.1
    NoHost,     \* ipp::_a of an address that was not set
    Ends,       \* what is added: public and private address, each with a type
    TTLIVE,     \* seconds
    NoPair

Ipp == [host : Hosts, port : 0 .. 1, typ : 0 .. 1]

ASSUME PairsAssumption ==
    /\ Loopback \in Hosts /\ NoHost \notin Hosts
    /\ Ends \subseteq Ipp \X Ipp
    /\ TTLIVE \in Nat

Stored == [host : Hosts \cup {NoHost}, port : 0 .. 1]

PerPair == [a : Stored \X Stored, b : Stored \X Stored, age : 0 .. TTLIVE + 1,
            typed : BOOLEAN]

ASSUME NoPairAssumption == NoPair \notin PerPair

VARIABLE
    pairs   \* _pairs; age is now - born, typed the history of a second party
            \* whose addresses have a type

PairsInit == pairs = [n \in Names |-> NoPair]

Store(x) == [host |-> x.host, port |-> x.port]

Unset == [host |-> NoHost, port |-> 0]

\* ipp::operator== of a stored address and an argument.
Equal(s, x) == s.host = x.host /\ s.port = x.port /\ x.typ = 0

\* A bug to find: only the public addresses are compared.
SamePublic(e, p, q) == Equal(e.a[1], p)

\* The first party again, as far as add can tell.
SameOne(e, p, q) ==
    \/ Equal(e.a[1], p) \/ Equal(e.a[1], q)
    \/ /\ Equal(e.a[2], p) \/ Equal(e.a[2], q)
       /\ p.host # Loopback /\ q.host # Loopback

New(p, q) == [a |-> <<Store(p), Store(q)>>, b |-> <<Unset, Unset>>, age |-> 0,
              typed |-> FALSE]

Typed(p, q) == p.typ # 0 \/ q.typ # 0

\* What add makes of the pair e that the name has.
Joined(e, p, q) ==
    IF e.a[1].port = 0 THEN [e EXCEPT !.a = <<Store(p), Store(q)>>]
    ELSE IF e.b[1].port # 0 \/ SameOne(e, p, q) THEN e
    ELSE [e EXCEPT !.b = <<Store(p), Store(q)>>, !.typed = Typed(p, q)]

Add(n, p, q) ==
    pairs' = [pairs EXCEPT ![n] = IF @ = NoPair THEN New(p, q) ELSE Joined(@, p, q)]

Remove(n) == pairs' = [pairs EXCEPT ![n] = NoPair]

DelOldies ==
    pairs' = [n \in Names |->
        IF pairs[n] # NoPair /\ pairs[n].age > TTLIVE THEN NoPair ELSE pairs[n]]

\* A second passes.
Aged(e) == [e EXCEPT !.age = IF @ > TTLIVE THEN @ ELSE @ + 1]

PairsTick ==
    pairs' = [n \in Names |-> IF pairs[n] = NoPair THEN NoPair ELSE Aged(pairs[n])]

PairsNext ==
    \/ \E n \in Names : Remove(n) \/ \E x \in Ends : Add(n, x[1], x[2])
    \/ DelOldies
    \/ PairsTick

-----------------------------------------------------------------------------

\* The types; there is a second party only where there is a first.
PairsTypeOK ==
    /\ pairs \in [Names -> PerPair \cup {NoPair}]
    /\ \A n \in Names : pairs[n] # NoPair /\ pairs[n].b[1] # Unset =>
                            pairs[n].a[1].port # 0

Complete(e) == e # NoPair /\ e.a[1].port # 0 /\ e.b[1].port # 0

\* Nobody is paired with himself: no address of the first party is one of the
\* second, but for private addresses of programs of one host - and for parties
\* with a type, which add does not know again (peers.cpp:33, per_id.h:35-36).
PairsApart ==
    \A n \in Names :
        LET e == pairs[n] IN
        Complete(e) /\ ~e.typed =>
            /\ e.a[1] \notin {e.b[1], e.b[2]}
            /\ e.a[2] \in {e.b[1], e.b[2]} =>
                  Loopback \in {e.b[1].host, e.b[2].host}
=============================================================================
