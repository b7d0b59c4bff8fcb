---------------------------- MODULE MCVpnSession ----------------------------
(* The instance of VpnSession that TLC checks.                              *)
EXTENDS VpnSession, SequencesExt

\* The counters of the two directions share nothing but the timer.
OneDirection == {"recd"}

\* One host resolves, and one does not.
OneAddress == [host \in {"node"} |-> "address"]

V4 == [host |-> "node", port |-> 51820, ipv6 |-> FALSE]
V6 == [host |-> "node", port |-> 51820, ipv6 |-> TRUE]
Unknown == [host |-> "gone", port |-> 51820, ipv6 |-> FALSE]

\* Networks written with an address other than their first, of half of the
\* addresses and of all.
HalfOf3 == [ip |-> 3, bits |-> 1]
AllOf3 == [ip |-> 3, bits |-> 0]

Answer(dns, endpoint, subnets) ==
    [privateKey |-> "private", Address |-> "client", DNS |-> dns, PeerEndpoint |-> endpoint,
     PeerPublicKey |-> "public", AllowedSubnets |-> subnets, KeepAlivePing |-> 25]

\* With and without DNS server and subnets, with an IPv6 address, and with a host
\* that does not resolve.
SomeAnswers ==
    {Answer("dns", V4, <<DefaultRoute>>), Answer(nil, V4, <<AllOf3>>),
     Answer("dns", V4, <<HalfOf3, DefaultRoute>>), Answer(nil, V6, <<DefaultRoute>>),
     Answer("dns", V4, <<>>), Answer(nil, Unknown, <<HalfOf3>>)}

Lines ==
    {Section("Interface"), Section("Peer"), Section("Note"),
     Attrib("PrivateKey", <<"k">>), Attrib("PublicKey", <<"k">>), Attrib("PublicKey", <<Garbled>>),
     Attrib("AllowedIPs", <<HalfOf3, AllOf3>>), Attrib("AllowedIPs", <<DefaultRoute>>),
     EndpointLine(V4), EndpointLine(V6), EndpointLine(Unknown)}

ShortTexts == BoundedSeq(Lines, 4)
=============================================================================
