---------------------------- MODULE MCPortMapper ----------------------------
(* The instances of PortMapper that TLC checks.                             *)
EXTENDS PortMapper

CONSTANTS ipA, ipB

Found(a, b, c) == [ip1 |-> a, ip2 |-> b, ppp1 |-> c]

\* One router or the other, also with a client that does not answer; two
\* routers of one kind, told apart by the second or the third client, behind a
\* kind with a single client; a first client that does not answer, one whose
\* answer does not parse, and nothing.
Outcomes ==
    {Found(<<>>, <<r, r>>, <<>>) : r \in {ipA, ipB}} \cup
    {Found(<<ipA, noAnswer>>, <<ipB, ipB>>, <<>>),
     Found(<<ipA>>, <<ipA, ipB>>, <<>>), Found(<<>>, <<>>, <<ipA, noAnswer, ipB>>),
     Found(<<noAnswer, ipA>>, <<>>, <<>>), Found(<<noAddress, noAddress>>, <<>>, <<>>),
     Found(<<>>, <<>>, <<>>)}
=============================================================================
