----------------------------- MODULE DeviceParser -----------------------------
(***************************************************************************)
(* The parser of a WireGuard device's status                               *)
(* (tailscale/wireguard_device.go), a fold over the lines that the device  *)
(* writes.                                                                 *)
(*                                                                         *)
(* Keys, numbers and networks are natural numbers, 0 the zero value of     *)
(* each type; Garbled is a value that does not parse.  Times are pairs of  *)
(* seconds and nanoseconds, intervals are in seconds.  A line is a pair of *)
(* key and value, or one of the two kinds of lines that end the parsing:   *)
(* an empty one, and one that is no pair or too long for the scanner, both *)
(* of which make parseDevice return an error and leave the rest unread.    *)
(***************************************************************************)
EXTENDS LineScanner

CONSTANT Garbled

ASSUME GarbledAssumption == Garbled \notin Nat

Line(key, value) == [key |-> key, value |-> value]
EmptyLine == Line("", 0)
InvalidLine == Line("not one =", 0)

NewPeer(key) ==
    [PublicKey |-> key, PresharedKey |-> 0, ProtocolVersion |-> 0,
     LastHandshakeTime |-> <<0, 0>>, TransmitBytes |-> 0, ReceiveBytes |-> 0,
     PersistentKeepaliveInterval |-> 0, AllowedIPs |-> <<>>]

\* done is whether parseDevice has left its loop.
NewParser ==
    [d |-> [PrivateKey |-> 0, ListenPort |-> 0, FirewallMark |-> 0, Peers |-> <<>>],
     err |-> FALSE, hsSec |-> 0, hsNano |-> 0, done |-> FALSE]

\* Faulty variant of Fails: a later value that parses clears the error.
FailsAlone(dp, value) == value = Garbled

\* parseKey, parseInt, parseInt64 and parseCIDR: the first error sticks, and
\* what is parsed after it is the zero value.
Fails(dp, value) == dp.err \/ value = Garbled
Parsed(dp, value) == IF Fails(dp, value) THEN 0 ELSE value

DeviceField ==
    [private_key |-> "PrivateKey", listen_port |-> "ListenPort", fwmark |-> "FirewallMark"]

PeerField ==
    [preshared_key |-> "PresharedKey", protocol_version |-> "ProtocolVersion",
     tx_bytes |-> "TransmitBytes", rx_bytes |-> "ReceiveBytes",
     persistent_keepalive_interval |-> "PersistentKeepaliveInterval"]

peerParse(dp, key, value) ==
    LET n == Len(dp.d.Peers)
        v == Parsed(dp, value)
    IN  CASE key \in DOMAIN PeerField ->
                 [dp EXCEPT !.d.Peers[n][PeerField[key]] = v, !.err = Fails(dp, value)]
          [] key = "last_handshake_time_sec" ->
                 [dp EXCEPT !.hsSec = v, !.err = Fails(dp, value)]
          [] key = "last_handshake_time_nsec" ->
                 [dp EXCEPT !.hsNano = v, !.err = Fails(dp, value),
                            !.d.Peers[n].LastHandshakeTime =
                                IF dp.hsSec > 0 /\ v > 0 THEN <<dp.hsSec, v>> ELSE @]
          [] key = "allowed_ip" ->
                 [dp EXCEPT !.err = Fails(dp, value),
                            !.d.Peers[n].AllowedIPs = IF Fails(dp, value) THEN @
                                                      ELSE Append(@, v)]
          [] OTHER -> dp

\* A public key begins a peer, and from the first one on all is of peers.
Parse(dp, key, value) ==
    CASE key = "errno" -> [dp EXCEPT !.err = @ \/ value # 0]
      [] key = "public_key" ->
             [dp EXCEPT !.d.Peers = Append(@, NewPeer(Parsed(dp, value))),
                        !.err = Fails(dp, value)]
      [] key \notin {"errno", "public_key"} /\ dp.d.Peers # <<>> -> peerParse(dp, key, value)
      [] key \in DOMAIN DeviceField /\ dp.d.Peers = <<>> ->
             [dp EXCEPT !.d[DeviceField[key]] = Parsed(dp, value), !.err = Fails(dp, value)]
      [] OTHER -> dp

\* The body of parseDevice's loop.
ParseLine(dp, line) ==
    IF dp.done THEN dp
    ELSE CASE line = EmptyLine -> [dp EXCEPT !.done = TRUE]
           [] line = InvalidLine -> [dp EXCEPT !.done = TRUE, !.err = TRUE]
           [] OTHER -> Parse(dp, line.key, line.value)

ParseLines(dp, lines) == Scanned(ParseLine, dp, lines)

-----------------------------------------------------------------------------
(* What a device writes, and what a reader of it should get.               *)

PeerType ==
    [PublicKey : Nat, PresharedKey : Nat, ProtocolVersion : Nat,
     LastHandshakeTime : Nat \X Nat, TransmitBytes : Nat, ReceiveBytes : Nat,
     PersistentKeepaliveInterval : Nat, AllowedIPs : Seq(Nat)]

DeviceType ==
    [PrivateKey : Nat, ListenPort : Nat, FirewallMark : Nat, Peers : Seq(PeerType)]

LinesOfPeer(p) ==
    <<Line("public_key", p.PublicKey), Line("preshared_key", p.PresharedKey),
      Line("protocol_version", p.ProtocolVersion), Line("endpoint", 1),
      Line("last_handshake_time_sec", p.LastHandshakeTime[1]),
      Line("last_handshake_time_nsec", p.LastHandshakeTime[2]),
      Line("tx_bytes", p.TransmitBytes), Line("rx_bytes", p.ReceiveBytes),
      Line("persistent_keepalive_interval", p.PersistentKeepaliveInterval)>>
    \o [i \in DOMAIN p.AllowedIPs |-> Line("allowed_ip", p.AllowedIPs[i])]

\* IpcGetOperation of the device.
IpcGet(d) ==
    <<Line("private_key", d.PrivateKey), Line("listen_port", d.ListenPort)>>
    \o (IF d.FirewallMark = 0 THEN <<>> ELSE <<Line("fwmark", d.FirewallMark)>>)
    \o Joined([i \in DOMAIN d.Peers |-> LinesOfPeer(d.Peers[i])], DOMAIN d.Peers)

\* A handshake of which one part is 0, the nanoseconds as a rule.
OnFullSecond(hs) == hs # <<0, 0>> /\ 0 \in {hs[1], hs[2]}

\* Whether q shows the peer p.  The zero time is for a peer with both parts 0,
\* which never had a handshake, says peerParse; one that had its last handshake
\* on a full second gets it too.
ShowsPeer(q, p) ==
    \/ q = p
    \/ OnFullSecond(p.LastHandshakeTime) /\ q = [p EXCEPT !.LastHandshakeTime = <<0, 0>>]

\* Whether the device e shows d, peer by peer.
Shows(e, d) ==
    /\ e = [d EXCEPT !.Peers = e.Peers]
    /\ DOMAIN e.Peers = DOMAIN d.Peers
    /\ \A i \in DOMAIN d.Peers : ShowsPeer(e.Peers[i], d.Peers[i])
=============================================================================
