------------------------------ MODULE MCLibrary ------------------------------
(***************************************************************************)
(* Two client objects and a server's, three descriptors; two hosts with    *)
(* two ports each; an object that is started twice; two names and five     *)
(* programs that look for a partner; the cipher with words of three bits,  *)
(* on every block alone and on some with another block and a tail.         *)
(***************************************************************************)
EXTENDS Library

LOCAL INSTANCE Bitwise

CONSTANTS x, y

Objects == {x, y}

\* Nothing is asked of objects after one was written over.
Unshared == ~shared

At1(host, typ) == [host |-> host, port |-> 1, typ |-> typ]

\* Two hosts with the same private address, the first one again with a type,
\* a program on the loopback, and one that does not know its port.
Programs ==
    {<<At1("h1", 0), At1("lan", 0)>>, <<At1("h2", 0), At1("lan", 0)>>,
     <<At1("h1", 1), At1("lan", 1)>>, <<At1("lo", 0), At1("lan", 0)>>,
     <<[At1("h2", 0) EXCEPT !.port = 0], At1("h2", 0)>>}

XorOf(a, b) == a ^^ b

TwoKeys == {<<1, 2, 5, 7>>, <<6, 0, 3, 3>>}

Buffers == [1 .. 2 -> Words] \cup [1 .. 1 -> {0, 7}]
             \cup {<<0, 1, 2, 3>>, <<7, 6, 5, 4, 3>>, <<5, 5, 5>>, <<>>}
=============================================================================
