--------------------------- MODULE WireguardConfig ---------------------------
(***************************************************************************)
(* The text of a WireGuard configuration: how it is made from what a node  *)
(* answers (vpn/wireguard_config_data.go), and how it is parsed            *)
(* (vpn/wireguard_config.go).                                              *)
(*                                                                         *)
(* A line has a key with a value, what stands between brackets on it, or   *)
(* neither.  The value is the list of its parts between commas, and what   *)
(* is kept of it <<>> when it was not given.  Garbled is a part that is no *)
(* key, network, address or number.  A network is written with an address  *)
(* in it, a number, and how many bits of the address are the network's.    *)
(***************************************************************************)
EXTENDS LineScanner, FiniteSetsExt, Functions

CONSTANTS
    Garbled,
    AddressBits,    \* 32
    Addresses       \* the IP address of each host that resolves

nil == "nil"

DefaultRoute == [ip |-> 0, bits |-> 0]

Section(name) == [bracket |-> name, key |-> "", value |-> <<>>]
Attrib(key, value) == [bracket |-> nil, key |-> key, value |-> value]

\* A text is a list of lines, and a value of its parts.
IsText(text) ==
    /\ Len(text) \in Nat /\ DOMAIN text = 1 .. Len(text)
    /\ \A i \in DOMAIN text : text[i].value \in Seq(Range(text[i].value))

\* Host and port.  An IPv6 address is written in brackets.
Endpoint(endpoint) == [host |-> endpoint.host, port |-> endpoint.port]
EndpointLine(endpoint) ==
    [bracket |-> IF endpoint.ipv6 THEN "address" ELSE nil, key |-> "Endpoint",
     value |-> <<Endpoint(endpoint)>>]

-----------------------------------------------------------------------------
(* wireguardConfigData.Data.                                               *)

Optional(line, given) == IF given THEN <<line>> ELSE <<>>

\* The network of an address alone.
Network(address) == [ip |-> address, bits |-> AddressBits]

\* Faulty variant of Data: only the first subnet is written.
DataFirstSubnet(c) ==
    <<Section("Interface"), Attrib("PrivateKey", <<c.privateKey>>),
      Attrib("Address", <<Network(c.Address)>>)>>
    \o Optional(Attrib("DNS", <<c.DNS>>), c.DNS # nil)
    \o <<Section("Peer"), Attrib("PublicKey", <<c.PeerPublicKey>>),
         EndpointLine(c.PeerEndpoint), Attrib("PersistentKeepalive", <<c.KeepAlivePing>>)>>
    \o Optional(Attrib("AllowedIPs", <<c.AllowedSubnets[1]>>), c.AllowedSubnets # <<>>)

Data(c) ==
    <<Section("Interface"), Attrib("PrivateKey", <<c.privateKey>>),
      Attrib("Address", <<Network(c.Address)>>)>>
    \o Optional(Attrib("DNS", <<c.DNS>>), c.DNS # nil)
    \o <<Section("Peer"), Attrib("PublicKey", <<c.PeerPublicKey>>),
         EndpointLine(c.PeerEndpoint), Attrib("PersistentKeepalive", <<c.KeepAlivePing>>)>>
    \o Optional(Attrib("AllowedIPs", c.AllowedSubnets), c.AllowedSubnets # <<>>)

-----------------------------------------------------------------------------
(* newWireguardConfigFromTarget.                                           *)

PeerConfig ==
    [PublicKey |-> <<>>, AllowedIPs |-> <<>>, Endpoint |-> <<>>,
     PersistentKeepaliveInterval |-> <<>>]

\* topic is Interface or Peer as isInterface or isPeer is set, and nil.
NewConfig ==
    [PrivateKey |-> <<>>, tunAddress |-> <<>>, tunDNS |-> <<>>, peerAddresses |-> <<>>,
     isDefaultRoute |-> FALSE, Peers |-> <<>>, peerConfig |-> PeerConfig,
     topic |-> nil, err |-> FALSE]

\* Faulty variant of WithPeer: the next peer begins as a copy of this one.
WithPeerKept(c) ==
    IF c.topic = "Peer" THEN [c EXCEPT !.Peers = Append(@, c.peerConfig)] ELSE c

\* The peer of the section that ends is added.
WithPeer(c) ==
    IF c.topic = "Peer"
    THEN [c EXCEPT !.Peers = Append(@, c.peerConfig), !.peerConfig = PeerConfig]
    ELSE c

SectionLine(c, name) ==
    [WithPeer(c) EXCEPT !.topic = IF name \in {"Interface", "Peer"} THEN name ELSE nil]

InterfaceAttrib(c, key, value) ==
    CASE key = "PrivateKey" /\ value[1] # Garbled -> [c EXCEPT !.PrivateKey = value]
      [] key = "Address" -> [c EXCEPT !.tunAddress = value]
      [] key = "DNS" -> [c EXCEPT !.tunDNS = value]
      [] OTHER -> [c EXCEPT !.err = TRUE]

\* net.ParseCIDR: the bits that are not the network's are cleared.
ParseCIDR(net) == [net EXCEPT !.ip = @ - (@ % 2^(AddressBits - net.bits))]

\* net.ResolveUDPAddr: the IP address that the host has in Addresses.
ResolveUDPAddr(endpoint) == [ip |-> Addresses[endpoint.host], port |-> endpoint.port]

\* The number as it is, whatever the unit it was written in.
Duration(number) == [nanoseconds |-> number]

\* What a part of a value is converted to, if it can be.
Converts(key, part) ==
    part # Garbled /\ (key = "Endpoint" => part.host \in DOMAIN Addresses)
Converted(key, part) ==
    CASE key = "AllowedIPs" -> ParseCIDR(part)
      [] key = "Endpoint" -> ResolveUDPAddr(part)
      [] key = "PersistentKeepalive" -> Duration(part)
      [] OTHER -> part

Parses(key, value) == \A i \in DOMAIN value : Converts(key, value[i])
Parse(key, value) == [i \in DOMAIN value |-> Converted(key, value[i])]

\* isDefaultRoute is set by what is written, before the conversion.
PeerAttrib(c, key, value) ==
    LET parsed == Parse(key, value)
    IN  IF ~Parses(key, value) THEN [c EXCEPT !.err = TRUE]
        ELSE CASE key = "PublicKey" -> [c EXCEPT !.peerConfig.PublicKey = parsed]
               [] key = "AllowedIPs" ->
                      [c EXCEPT !.peerConfig.AllowedIPs = @ \o parsed,
                                !.isDefaultRoute = @ \/ DefaultRoute \in Range(value)]
               [] key = "Endpoint" ->
                      [c EXCEPT !.peerConfig.Endpoint = parsed,
                                !.peerAddresses = Append(@, parsed[1].ip)]
               [] key = "PersistentKeepalive" ->
                      [c EXCEPT !.peerConfig.PersistentKeepaliveInterval = parsed]
               [] OTHER -> [c EXCEPT !.err = TRUE]

\* A line of which a part is in brackets is a section, whatever its key; after
\* an error the text is not parsed on, and outside both topics keys are ignored.
ConfigLine(c, line) ==
    CASE c.err -> c
      [] ~c.err /\ line.bracket # nil -> SectionLine(c, line.bracket)
      [] ~c.err /\ line.bracket = nil /\ line.key # "" /\ c.topic = "Interface" ->
             InterfaceAttrib(c, line.key, line.value)
      [] ~c.err /\ line.bracket = nil /\ line.key # "" /\ c.topic = "Peer" ->
             PeerAttrib(c, line.key, line.value)
      [] OTHER -> c

newWireguardConfigFromTarget(text) == WithPeer(Scanned(ConfigLine, NewConfig, text))

-----------------------------------------------------------------------------
(* What the parser should make of a text, without a loop.                  *)

\* The line of the section that line i of the text is in, 0 when there is none.
SectionOf(text, i) ==
    Max({0} \cup {j \in 1 .. i : text[j].bracket # nil})

\* The lines of the section that begins at line s that have the key.
LinesOf(text, s, key) ==
    {i \in DOMAIN text : text[i].bracket = nil /\ text[i].key = key /\ SectionOf(text, i) = s}

\* The lines that begin the section of a peer, in their order.
PeerSections(text) ==
    Joined([i \in DOMAIN text |-> <<i>>], {i \in DOMAIN text : text[i].bracket = "Peer"})

\* Of a key that has one value the last one given counts, of AllowedIPs all do.
ValueAt(text, i) == Parse(text[i].key, text[i].value)
LastValue(text, lines) == IF lines = {} THEN <<>> ELSE ValueAt(text, Max(lines))
AllValues(text, lines) == Joined([i \in DOMAIN text |-> ValueAt(text, i)], lines)

\* The peer that the section at line s describes.
DescribedPeer(text, s) ==
    [PublicKey |-> LastValue(text, LinesOf(text, s, "PublicKey")),
     AllowedIPs |-> AllValues(text, LinesOf(text, s, "AllowedIPs")),
     Endpoint |-> LastValue(text, LinesOf(text, s, "Endpoint")),
     PersistentKeepaliveInterval |-> LastValue(text, LinesOf(text, s, "PersistentKeepalive"))]

\* A key that its topic does not have, or a value that does not parse.
Unsupported(text, i) ==
    /\ text[i].bracket = nil /\ text[i].key # "" /\ SectionOf(text, i) # 0
    /\ LET topic == text[SectionOf(text, i)].bracket
       IN  \/ topic = "Interface" /\ text[i].key \notin {"PrivateKey", "Address", "DNS"}
           \/ topic = "Interface" /\ text[i].key = "PrivateKey" /\ text[i].value[1] = Garbled
           \/ topic = "Peer" /\ text[i].key \notin {"PublicKey", "AllowedIPs", "Endpoint",
                                                    "PersistentKeepalive"}
           \/ topic = "Peer" /\ ~Parses(text[i].key, text[i].value)

\* A line of a peer that has the default route among its networks, as it is written.
WritesDefaultRoute(text, i) ==
    /\ text[i].bracket = nil /\ text[i].key = "AllowedIPs" /\ SectionOf(text, i) # 0
    /\ text[SectionOf(text, i)].bracket = "Peer"
    /\ DefaultRoute \in Range(text[i].value)
=============================================================================
