-------------------------- MODULE MCTailscaleDaemon --------------------------
(* The instance of TailscaleDaemon that TLC checks.                         *)
EXTENDS TailscaleDaemon

\* A tun device, and the fallback to userspace networking.
TwoNames == <<"tun", "userspace">>

PeerWith(n, sec, nano, ips) ==
    [PublicKey |-> n, PresharedKey |-> n + 1, ProtocolVersion |-> 1,
     LastHandshakeTime |-> <<sec, nano>>, TransmitBytes |-> sec, ReceiveBytes |-> nano,
     PersistentKeepaliveInterval |-> 25, AllowedIPs |-> ips]

DeviceWith(mark, peers) ==
    [PrivateKey |-> 3, ListenPort |-> 4, FirewallMark |-> mark, Peers |-> peers]

\* A peer with a handshake, and one whose handshake was on a full second.
OneDevice ==
    {DeviceWith(1, <<PeerWith(5, 7, 9, <<11, 12>>), PeerWith(6, 8, 0, <<13>>)>>)}
=============================================================================
