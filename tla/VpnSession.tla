------------------------------ MODULE VpnSession ------------------------------
(***************************************************************************)
(* A VPN session, from the configuration to the byte counts: vpn/service.go *)
(* with its two kinds of configuration data, the configuration and its     *)
(* parser (WireguardConfig), the Windows client                            *)
(* (vpn/wireguard_client_windows.go), which leaves the tunnel to a service *)
(* that wireguard.exe installs, and the metrics of either client           *)
(* (vpn/wireguard_client.go), kept in cumulative counters (Counter) that   *)
(* the monitor service collects meanwhile.                                 *)
(*                                                                         *)
(* One caller calls the operations of the session; the timers, the monitor *)
(* service and the tunnel are concurrent.  The node, wireguard.exe and     *)
(* utils.ExecTimer are not part of the repository: their calls may fail.   *)
(***************************************************************************)
EXTENDS WireguardConfig, Counter

CONSTANTS
    Answers,        \* configurations with which a node may answer
    Texts,          \* texts that a bastion may have for download
    Directions,     \* recd and sent
    MaxBytes,       \* Bound: bytes that go through a tunnel in a direction
    MaxTunnels      \* Bound: tunnels that are installed

ASSUME TextsAssumption == \A text \in Texts : IsText(text)

\* A node answers with keys and networks that parse.
ASSUME AnswersAssumption ==
    \A a \in Answers :
        /\ a.PeerEndpoint.ipv6 \in BOOLEAN
        /\ a.AllowedSubnets \in Seq(Range(a.AllowedSubnets))
        /\ Garbled \notin {a.privateKey, a.PeerPublicKey, a.KeepAlivePing, Endpoint(a.PeerEndpoint)}
        /\ Garbled \notin Range(a.AllowedSubnets)

ASSUME TunnelsAssumption == MaxTunnels \in Nat /\ MaxBytes \in Nat

VARIABLES
    session,        \* whether the node has the user connected
    data,           \* the ConfigData
    config,         \* <<>>, or <<what NewConfigFromTarget made of it>>
    client,         \* whether there is a client
    pc,             \* where Connect or Disconnect is
    deferred,       \* whether Disconnect was called by Connect
    returned,       \* what the last of them returned
    file,           \* whether the configuration file exists
    tunnel,         \* whether the tunnel service is installed
    tunnels,        \* how many were
    wgctrlClient,   \* whether it is set
    metricsTimer,   \* the timer it is, 0 when there is none
    running,        \* the timers that run
    reading,        \* what the callback of each timer has read
    metricsError,
    counter,        \* w.recd and w.sent
    bytes,          \* what went through the tunnel
    seen,           \* history: the last count that a counter was set to, and its tunnel
    kept,           \* history: why a tunnel may be left is not Connect
    replaced,       \* history: Connect replaced a timer that was running
    panicked

configVars == <<session, data, config, client>>
callVars == <<pc, deferred, returned, kept>>
tunnelVars == <<file, tunnel, tunnels, bytes>>
timerVars == <<metricsTimer, running, replaced>>
metricVars == <<reading, metricsError, counter, seen>>
vars == <<configVars, callVars, tunnelVars, wgctrlClient, timerVars, metricVars, panicked>>

Timers == 1 .. MaxTunnels

\* A ConfigData: static or dynamic, made from an answer, its type and its text.
ConfigData(kind, answer, VPNType, text) ==
    [kind |-> kind, answer |-> answer, VPNType |-> VPNType, text |-> text]
NoData == ConfigData("none", <<>>, nil, <<>>)

Init ==
    /\ session = FALSE /\ data = NoData /\ config = <<>> /\ client = FALSE
    /\ pc = "idle" /\ deferred = FALSE /\ returned = "none" /\ kept = FALSE
    /\ file = FALSE /\ tunnel = FALSE /\ tunnels = 0
    /\ bytes = [d \in Directions |-> 0]
    /\ wgctrlClient = FALSE
    /\ metricsTimer = 0 /\ running = {} /\ replaced = FALSE
    /\ reading = [t \in Timers |-> <<>>] /\ metricsError = FALSE
    /\ counter = [d \in Directions |-> NewCounter(TRUE, TRUE)]
    /\ seen = [d \in Directions |-> [tunnel |-> 0, count |-> 0]]
    /\ panicked = FALSE

Idle == ~panicked /\ pc = "idle"

-----------------------------------------------------------------------------
(* The configuration.                                                       *)

\* The text is downloaded from the bastion instance, if there is one, it runs, and
\* the outputs of its target have a name and a type.
newStaticConfigData ==
    \/ \E text \in Texts : data' = ConfigData("static", <<>>, "wireguard", text)
    \/ data' = ConfigData("static", <<>>, "openvpn", <<>>)
    \/ UNCHANGED data

\* The user is connected at the node first.  Without a configuration in the
\* answer there may be a static one; one that is unknown or does not parse fails.
\* What fails after service.Connect leaves the user connected.  (Bound: one
\* configuration for a client.)
NewVPNConfigData ==
    /\ Idle
    /\ data = NoData /\ config = <<>> /\ ~client
    /\ session' = TRUE
    /\ \/ \E a \in Answers : data' = ConfigData("dynamic", <<a>>, "wireguard", Data(a))
       \/ newStaticConfigData
       \/ UNCHANGED data
    /\ UNCHANGED <<config, client, callVars, tunnelVars, wgctrlClient, timerVars,
                   metricVars, panicked>>

\* OpenVPN is not supported.
NewConfigFromTarget ==
    /\ Idle
    /\ data # NoData /\ config = <<>> /\ ~client
    /\ config' = IF data.VPNType = "wireguard"
                 THEN <<newWireguardConfigFromTarget(data.text)>>
                 ELSE <<[NewConfig EXCEPT !.err = TRUE]>>
    /\ UNCHANGED <<session, data, client, callVars, tunnelVars, wgctrlClient, timerVars,
                   metricVars, panicked>>

\* Delete of a static configuration does nothing, and that of a dynamic one may
\* fail to disconnect the user.  (Then it is let go.)
Delete ==
    /\ Idle
    /\ data # NoData
    /\ \/ data.kind = "dynamic" /\ session' = FALSE
       \/ UNCHANGED session
    /\ data' = NoData
    /\ config' = <<>>
    /\ UNCHANGED <<client, callVars, tunnelVars, wgctrlClient, timerVars, metricVars,
                   panicked>>

\* (The configuration is now the client's, and its contents are let go.)
NewClient ==
    /\ Idle
    /\ config # <<>> /\ ~config[1].err
    /\ client' = TRUE
    /\ counter' = [d \in Directions |-> NewCounter(TRUE, TRUE)]
    /\ data' = ConfigData(data.kind, <<>>, data.VPNType, <<>>)
    /\ config' = <<>>
    /\ UNCHANGED <<session, callVars, tunnelVars, wgctrlClient, timerVars, reading,
                   metricsError, seen, panicked>>

-----------------------------------------------------------------------------
(* Connect.                                                                 *)

Returns(result) == pc' = "idle" /\ returned' = result /\ deferred' = FALSE

\* Writes the configuration file.
Connect ==
    /\ Idle
    /\ client
    /\ kept' = tunnel
    /\ \/ /\ Returns("failed")
          /\ UNCHANGED file
       \/ /\ pc' = "install"
          /\ file' = TRUE
          /\ UNCHANGED <<deferred, returned>>
    /\ UNCHANGED <<configVars, tunnel, tunnels, bytes, wgctrlClient, timerVars, metricVars,
                   panicked>>

\* wireguard.exe installs no second service for a tunnel.
Install ==
    /\ ~panicked
    /\ pc = "install"
    /\ \/ /\ Returns("failed")
          /\ UNCHANGED <<tunnel, tunnels, bytes>>
       \/ /\ ~tunnel /\ tunnels < MaxTunnels
          /\ tunnel' = TRUE
          /\ tunnels' = tunnels + 1
          /\ bytes' = [d \in Directions |-> 0]
          /\ pc' = "ctrl"
          /\ UNCHANGED <<deferred, returned>>
    /\ UNCHANGED <<kept, configVars, file, wgctrlClient, timerVars, metricVars, panicked>>

\* The deferred function of Connect calls Disconnect.  What Connect returns is
\* decided by then.
Deferred(result) == pc' = "stopTimer" /\ deferred' = TRUE /\ returned' = result

\* Faulty variant of NewCtrlClient: the deferred function is not there yet.
NewCtrlClientFirst ==
    /\ ~panicked
    /\ pc = "ctrl"
    /\ \/ wgctrlClient' = TRUE /\ pc' = "startTimer" /\ UNCHANGED <<deferred, returned>>
       \/ wgctrlClient' = FALSE /\ Returns("failed")
    /\ UNCHANGED <<kept, configVars, tunnelVars, timerVars, metricVars, panicked>>

NewCtrlClient ==
    /\ ~panicked
    /\ pc = "ctrl"
    /\ \/ wgctrlClient' = TRUE /\ pc' = "startTimer" /\ UNCHANGED <<deferred, returned>>
       \/ wgctrlClient' = FALSE /\ Deferred("failed")
    /\ UNCHANGED <<kept, configVars, tunnelVars, timerVars, metricVars, panicked>>

\* The error of Start is logged, and stays in err: Connect returns nil, and
\* the deferred function disconnects.
StartTimer ==
    /\ ~panicked
    /\ pc = "startTimer"
    /\ metricsTimer' = tunnels
    /\ replaced' = (replaced \/ metricsTimer \in running)
    /\ \/ running' = running \cup {tunnels} /\ Returns("connected")
       \/ UNCHANGED running /\ Deferred("connected")
    /\ UNCHANGED <<kept, configVars, tunnelVars, wgctrlClient, metricVars, panicked>>

-----------------------------------------------------------------------------
(* Disconnect.                                                              *)

Disconnect ==
    /\ Idle
    /\ client
    /\ pc' = "stopTimer"
    /\ UNCHANGED <<deferred, returned, kept, configVars, tunnelVars, wgctrlClient,
                   timerVars, metricVars, panicked>>

\* The callback of the timer may be in progress.
StopTimer ==
    /\ ~panicked
    /\ pc = "stopTimer"
    /\ running' = running \ {metricsTimer}
    /\ pc' = "uninstall"
    /\ UNCHANGED <<deferred, returned, kept, configVars, tunnelVars, wgctrlClient,
                   metricsTimer, replaced, metricVars, panicked>>

\* Faulty variant of Uninstall: the file is removed in any case.
UninstallAnyhow ==
    /\ ~panicked
    /\ pc = "uninstall"
    /\ tunnel' \in {tunnel, FALSE}
    /\ file' = FALSE
    /\ Returns(IF deferred THEN returned ELSE "disconnected")
    /\ UNCHANGED <<kept, configVars, tunnels, bytes, wgctrlClient, timerVars, metricVars,
                   panicked>>

\* When wireguard.exe fails, as it does when there is no such service, the file
\* stays.
Uninstall ==
    /\ ~panicked
    /\ pc = "uninstall"
    /\ \/ /\ tunnel
          /\ tunnel' = FALSE
          /\ file' = FALSE
          /\ Returns(IF deferred THEN returned ELSE "disconnected")
          /\ UNCHANGED kept
       \/ /\ Returns(IF deferred THEN returned ELSE "notDisconnected")
          /\ kept' = TRUE
          /\ UNCHANGED <<tunnel, file>>
    /\ UNCHANGED <<configVars, tunnels, bytes, wgctrlClient, timerVars, metricVars, panicked>>

-----------------------------------------------------------------------------
(* The metrics.                                                             *)

unchangedByMetrics == UNCHANGED <<configVars, callVars, tunnelVars, wgctrlClient>>

\* Faulty variant of ReadFails: the timer is not scheduled again.
ReadFailsForGood(t) ==
    /\ ~panicked
    /\ t \in running /\ reading[t] = <<>>
    /\ wgctrlClient
    /\ metricsError' = TRUE
    /\ running' = running \ {t}
    /\ UNCHANGED <<metricsTimer, replaced, reading, counter, seen, panicked>>
    /\ unchangedByMetrics

\* recordNetworkMetrics gets an error, and is called again in 500ms.
ReadFails(t) ==
    /\ ~panicked
    /\ t \in running /\ reading[t] = <<>>
    /\ wgctrlClient
    /\ metricsError' = TRUE
    /\ UNCHANGED <<timerVars, reading, counter, seen, panicked>>
    /\ unchangedByMetrics

\* The counts of all peers, added up.
BytesTransmitted == [tunnel |-> tunnels, count |-> bytes]

Read(t) ==
    /\ ~panicked
    /\ t \in running /\ reading[t] = <<>>
    /\ wgctrlClient
    /\ tunnel
    /\ reading' = [reading EXCEPT ![t] = <<BytesTransmitted>>]
    /\ UNCHANGED <<timerVars, metricsError, counter, seen, panicked>>
    /\ unchangedByMetrics

\* A timer that Connect replaced calls BytesTransmitted of the nil that a later
\* Connect got instead of a control client.
ReadOfNil(t) ==
    /\ ~panicked
    /\ t \in running /\ reading[t] = <<>>
    /\ ~wgctrlClient
    /\ panicked' = TRUE
    /\ UNCHANGED <<timerVars, metricVars>>
    /\ unchangedByMetrics

\* A count of 0 is not recorded.  (The lock of each counter is its own, but the
\* two are of different directions: one step.)
Record(t) ==
    /\ ~panicked
    /\ reading[t] # <<>>
    /\ LET read == reading[t][1]
           recorded(d) == read.count[d] > 0
       IN  /\ counter' = [d \in Directions |-> IF recorded(d) THEN Set(counter[d], read.count[d])
                                               ELSE counter[d]]
           /\ seen' = [d \in Directions |->
                          IF recorded(d) THEN [tunnel |-> read.tunnel, count |-> read.count[d]]
                          ELSE seen[d]]
    /\ reading' = [reading EXCEPT ![t] = <<>>]
    /\ UNCHANGED <<timerVars, metricsError, panicked>>
    /\ unchangedByMetrics

\* The monitor service collects a counter.
Collect(d) ==
    /\ ~panicked
    /\ client
    /\ HasSnapshot(counter[d])
    /\ counter' = [counter EXCEPT ![d] = AfterCollect(@)]
    /\ UNCHANGED <<timerVars, reading, metricsError, seen, panicked>>
    /\ unchangedByMetrics

-----------------------------------------------------------------------------
(* The tunnel.                                                              *)

Traffic(d) ==
    /\ ~panicked
    /\ tunnel
    /\ bytes[d] < MaxBytes
    /\ bytes' = [bytes EXCEPT ![d] = @ + 1]
    /\ UNCHANGED <<configVars, callVars, file, tunnel, tunnels, wgctrlClient, timerVars,
                   metricVars, panicked>>

\* The service is removed by hand.
TunnelGone ==
    /\ ~panicked
    /\ tunnel
    /\ tunnel' = FALSE
    /\ UNCHANGED <<configVars, callVars, file, tunnels, bytes, wgctrlClient, timerVars,
                   metricVars, panicked>>

-----------------------------------------------------------------------------
Next ==
    \/ NewVPNConfigData \/ NewConfigFromTarget \/ Delete \/ NewClient
    \/ Connect \/ Install \/ NewCtrlClient \/ StartTimer
    \/ Disconnect \/ StopTimer \/ Uninstall
    \/ \E t \in Timers : ReadFails(t)
    \/ \E t \in Timers : Read(t)
    \/ \E t \in Timers : ReadOfNil(t)
    \/ \E t \in Timers : Record(t)
    \/ \E d \in Directions : Collect(d)
    \/ \E d \in Directions : Traffic(d)
    \/ TunnelGone

Spec == Init /\ [][Next]_vars

\* Timers go on, and do not fail for ever.
FairSpec ==
    /\ Spec
    /\ \A t \in Timers : SF_vars(Read(t)) /\ WF_vars(Record(t))

-----------------------------------------------------------------------------
(* Properties.                                                              *)

\* Type invariant, with what the state of the tunnel says of the rest: the
\* service has its file as long as it is installed, and a timer belongs to a
\* tunnel that was installed.
TypeOK ==
    /\ session \in BOOLEAN /\ client \in BOOLEAN
    /\ data # NoData => session
    /\ config # <<>> => data # NoData /\ ~client
    /\ pc \in {"idle", "install", "ctrl", "startTimer", "stopTimer", "uninstall"}
    /\ returned \in {"none", "connected", "failed", "disconnected", "notDisconnected"}
    /\ tunnel => file /\ client
    /\ running \subseteq 1 .. tunnels /\ metricsTimer \in 0 .. tunnels
    /\ \A d \in Directions : counter[d] \in CounterType /\ bytes[d] \in 0 .. MaxBytes

\* A WireGuard configuration fails to parse when some line of it is not supported
\* where it stands, its endpoint not resolving included, and only then.
\* Otherwise the peers are those that the [Peer] sections describe, in their
\* order, each with its own attributes and no other's, networks without host
\* bits and endpoints resolved; and the default route is taken when one of the
\* sections has it as 0.0.0.0/0.  (Another address with 0 bits, which the peer
\* gets as the same network, does not count.)
ConfigIsTheText ==
    config # <<>> /\ data.VPNType = "wireguard" =>
        LET c == config[1]
            text == data.text
            sections == PeerSections(text)
        IN  /\ c.err <=> \E i \in DOMAIN text : Unsupported(text, i)
            /\ ~c.err => /\ c.Peers = [k \in DOMAIN sections |->
                                          DescribedPeer(text, sections[k])]
                         /\ c.isDefaultRoute <=> \E i \in DOMAIN text :
                                WritesDefaultRoute(text, i)

\* What a node answers survives being written as a text and parsed again, unless
\* the host of its endpoint does not resolve, which is an error: keys, address
\* and DNS server as they are, each subnet as the network it is of, and the
\* endpoint with the address of its host, which also becomes the one to route
\* around the tunnel.  (Two exceptions.  An endpoint in brackets is read as a
\* section: the peer is left without endpoint, subnets and keep alive.  And the
\* keep alive, seconds where a node says it, becomes as many nanoseconds.)
ConfigIsTheAnswer ==
    config # <<>> /\ data.answer # <<>> =>
        LET c == config[1]
            a == data.answer[1]
            host == a.PeerEndpoint.host
            subnets == a.AllowedSubnets
        IN  ~a.PeerEndpoint.ipv6 =>
                /\ c.err <=> host \notin DOMAIN Addresses
                /\ ~c.err =>
                      /\ c.PrivateKey = <<a.privateKey>> /\ c.tunAddress = <<Network(a.Address)>>
                      /\ c.tunDNS = IF a.DNS = nil THEN <<>> ELSE <<a.DNS>>
                      /\ c.peerAddresses = <<Addresses[host]>>
                      /\ c.isDefaultRoute <=> DefaultRoute \in Range(subnets)
                      /\ c.Peers = <<[PublicKey |-> <<a.PeerPublicKey>>,
                                      AllowedIPs |-> [i \in DOMAIN subnets |-> ParseCIDR(subnets[i])],
                                      Endpoint |-> <<[ip |-> Addresses[host],
                                                      port |-> a.PeerEndpoint.port]>>,
                                      PersistentKeepaliveInterval |->
                                          <<[nanoseconds |-> a.KeepAlivePing]>>]>>

\* A Connect that returns an error leaves no tunnel, but one that was there
\* before it or that wireguard.exe failed to remove; and after Disconnect no
\* timer of the client runs, unless Connect was called for a client that had one
\* running and forgot it.
NothingLeftBehind ==
    /\ pc = "idle" /\ returned = "failed" /\ tunnel => kept
    /\ pc = "idle" /\ returned \in {"disconnected", "notDisconnected"} => running = {} \/ replaced

\* BytesTransmitted of the client shows the last count that was recorded, over
\* any number of collections and tunnels and with more than one timer, and of
\* the tunnel at hand never more than went through it.  (So the reports that the
\* monitor service gets add up to that of one tunnel: when the next one begins,
\* what was reported of the last is taken back.)
ShowsWhatWasRead ==
    \A d \in Directions :
        /\ Get(counter[d]) = seen[d].count
        /\ seen[d].tunnel = tunnels => seen[d].count <= bytes[d]

\* While a tunnel that Connect returned as connected stays so, what goes through
\* it is shown in the end, also after errors: the metrics go on.
CountsShown ==
    \A d \in Directions : \A n \in 1 .. MaxBytes :
        <>[](pc = "idle" /\ returned = "connected" /\ tunnel /\ ~kept /\ bytes[d] = n)
            => <>[](Get(counter[d]) = n \/ panicked)
=============================================================================
