--------------------------- MODULE WireguardClient ---------------------------
(***************************************************************************)
(* The WireGuard VPN client on Linux and macOS                             *)
(* (vpn/wireguard_client_unix.go) with its UAPI control service            *)
(* (vpn/wireguard_ctrl.go, wireguard_ctrl_unix.go).                        *)
(*                                                                         *)
(* Connect() opens a tunnel, a device and a UAPI listener and starts a     *)
(* goroutine that shuts them down when Disconnect() signals on the channel *)
(* close, or when the device goes away.  Both channels are unbuffered and  *)
(* belong to the client, as do the fields tunnel, device and wgctrlService *)
(* which that goroutine reads only when it shuts down.                     *)
(*                                                                         *)
(* One caller calls Connect and Disconnect in any order; call k of Connect *)
(* makes tunnel k, device k, UAPI listener k, termination goroutine k and  *)
(* metrics timer k.                                                        *)
(***************************************************************************)
EXTENDS Naturals

CONSTANT MaxConnects    \* bound: calls of Connect

ASSUME MaxConnectsAssumption == MaxConnects \in Nat

VARIABLES
    pc,         \* where the caller is
    attempt,    \* number of Connect calls so far, and the one under way
    w,          \* fields tunnel, device, wgctrlService, metricsTimer; 0 is nil
    tunnel,     \* each tunnel: "none", "open", "closed"
    device,     \* each device
    accept,     \* each UAPI listener's goroutine: at Accept(), at err<-, gone
    term,       \* each termination goroutine
    waitsOn,    \* what each goroutine blocks on: a device, then a control service
    netConfig,  \* routes, DNS or IPv6 settings are changed
    timers,     \* metrics timers that run
    panicked,   \* a goroutine dereferenced a nil tunnel
    result,     \* history: what each Connect returned
    deferred,   \* history: Connect calls whose deferred function closed
    died,       \* history: devices that went away by themselves
    rushed      \* history: Connect calls made with an older goroutine alive

vars == <<pc, attempt, w, tunnel, device, accept, term, waitsOn, netConfig,
          timers, panicked, result, deferred, died, rushed>>

Conns == 1..MaxConnects
CallerSteps == {"idle", "up", "ctrl", "client", "configure", "network", "metrics",
                "closing", "await"}
TermSteps == {"none", "start", "select", "stop", "stopWait", "tunnel", "clear",
              "device", "signal", "done"}

Init ==
    /\ pc = "idle"
    /\ attempt = 0
    /\ w = [tunnel |-> 0, device |-> 0, wgctrlService |-> 0, metricsTimer |-> 0]
    /\ tunnel = [k \in Conns |-> "none"]
    /\ device = [k \in Conns |-> "none"]
    /\ accept = [k \in Conns |-> "none"]
    /\ term = [k \in Conns |-> "none"]
    /\ waitsOn = [k \in Conns |-> 0]
    /\ netConfig = FALSE
    /\ timers = {}
    /\ panicked = FALSE
    /\ result = [k \in Conns |-> "none"]
    /\ deferred = {}
    /\ died = {}
    /\ rushed = {}

-----------------------------------------------------------------------------
(***************************************************************************)
(* Connect().                                                              *)
(***************************************************************************)
Running(k) == term[k] \notin {"none", "done"}

\* GetNextAvailabeInterface, CreateTUN, which leaves a nil tunnel behind when it
\* fails, and NewDevice.
CreateTunnel ==
    /\ ~panicked
    /\ pc = "idle" /\ attempt < MaxConnects
    /\ attempt' = attempt + 1
    /\ rushed' = IF \E k \in Conns : Running(k) THEN rushed \cup {attempt'} ELSE rushed
    /\ \/ /\ w' = [w EXCEPT !.tunnel = attempt', !.device = attempt']
          /\ tunnel' = [tunnel EXCEPT ![attempt'] = "open"]
          /\ device' = [device EXCEPT ![attempt'] = "open"]
          /\ pc' = "up"
          /\ UNCHANGED result
       \/ /\ w' \in {w, [w EXCEPT !.tunnel = 0]}
          /\ result' = [result EXCEPT ![attempt'] = "error"]
          /\ UNCHANGED <<pc, tunnel, device>>
    /\ UNCHANGED <<accept, term, waitsOn, netConfig, timers, panicked, deferred, died>>

\* Faulty variant of CloseDeferred: the device is left open.
CloseTunnelOnly ==
    /\ tunnel' = [tunnel EXCEPT ![w.tunnel] = "closed"]
    /\ deferred' = deferred \cup {attempt}
    /\ UNCHANGED device

\* The deferred function.  It looks at the variable err, not at the result.
CloseDeferred ==
    /\ tunnel' = [tunnel EXCEPT ![w.tunnel] = "closed"]
    /\ device' = [device EXCEPT ![w.device] = "closed"]
    /\ deferred' = deferred \cup {attempt}

Return(value) ==
    /\ pc' = "idle"
    /\ result' = [result EXCEPT ![attempt] = value]

\* One of the steps up to Configure() or of the network set up fails.
ConnectFails ==
    /\ ~panicked
    /\ pc \in {"up", "ctrl", "client", "configure", "network"}
    /\ CloseDeferred
    /\ Return("error")
    /\ netConfig' \in IF pc = "network" THEN {netConfig, TRUE} ELSE {netConfig}
    /\ UNCHANGED <<attempt, w, accept, term, waitsOn, timers, panicked, died, rushed>>

\* The device is up, and the control service is made.
DeviceUp ==
    /\ ~panicked
    /\ pc = "up"
    /\ w' = [w EXCEPT !.wgctrlService = attempt]
    /\ pc' = "ctrl"
    /\ UNCHANGED <<attempt, tunnel, device, accept, term, waitsOn, netConfig, timers,
                   panicked, result, deferred, died, rushed>>

\* Faulty variant of StartCtrlService: the listener is not started.
StartCtrlServiceIdle ==
    /\ ~panicked
    /\ pc = "ctrl"
    /\ pc' = "client"
    /\ UNCHANGED <<attempt, w, tunnel, device, accept, term, waitsOn, netConfig, timers,
                   panicked, result, deferred, died, rushed>>

\* The control service is started: its goroutine accepts.
StartCtrlService ==
    /\ ~panicked
    /\ pc = "ctrl"
    /\ accept' = [accept EXCEPT ![attempt] = "accepting"]
    /\ pc' = "client"
    /\ UNCHANGED <<attempt, w, tunnel, device, term, waitsOn, netConfig, timers,
                   panicked, result, deferred, died, rushed>>

\* The control client is made, and the termination goroutine started.
StartTermination ==
    /\ ~panicked
    /\ pc = "client"
    /\ term' = [term EXCEPT ![attempt] = "start"]
    /\ pc' = "configure"
    /\ UNCHANGED <<attempt, w, tunnel, device, accept, waitsOn, netConfig, timers,
                   panicked, result, deferred, died, rushed>>

ConfigureDevice ==
    /\ ~panicked
    /\ pc = "configure"
    /\ pc' = "network"
    /\ UNCHANGED <<attempt, w, tunnel, device, accept, term, waitsOn, netConfig, timers,
                   panicked, result, deferred, died, rushed>>

\* IPv6 off, routes, DNS.
ConfigureNetwork ==
    /\ ~panicked
    /\ pc = "network"
    /\ netConfig' = TRUE
    /\ pc' = "metrics"
    /\ UNCHANGED <<attempt, w, tunnel, device, accept, term, waitsOn, timers,
                   panicked, result, deferred, died, rushed>>

\* Connect returns nil whether or not the timer starts; if it does not, err is
\* still set when the deferred function runs.
StartMetrics ==
    /\ ~panicked
    /\ pc = "metrics"
    /\ w' = [w EXCEPT !.metricsTimer = attempt]
    /\ \/ timers' = timers \cup {attempt} /\ UNCHANGED <<tunnel, device, deferred>>
       \/ CloseDeferred /\ UNCHANGED timers
    /\ Return("ok")
    /\ UNCHANGED <<attempt, accept, term, waitsOn, netConfig, panicked, died, rushed>>

-----------------------------------------------------------------------------
(***************************************************************************)
(* Disconnect(): stop the metrics timer, send on close, then wait for      *)
(* disconnected or for 500ms.  The send is a rendezvous with a termination *)
(* goroutine that is in its select.                                        *)
(***************************************************************************)
Disconnect ==
    /\ ~panicked
    /\ pc = "idle"
    /\ timers' = timers \ {w.metricsTimer}
    /\ pc' = "closing"
    /\ UNCHANGED <<attempt, w, tunnel, device, accept, term, waitsOn, netConfig,
                   panicked, result, deferred, died, rushed>>

SendClose(k) ==
    /\ ~panicked
    /\ pc = "closing" /\ term[k] = "select"
    /\ pc' = "await"
    /\ term' = [term EXCEPT ![k] = "stop"]
    /\ UNCHANGED <<attempt, w, tunnel, device, accept, waitsOn, netConfig, timers,
                   panicked, result, deferred, died, rushed>>

ReceiveDisconnected(k) ==
    /\ ~panicked
    /\ pc = "await" /\ term[k] = "signal"
    /\ pc' = "idle"
    /\ term' = [term EXCEPT ![k] = "done"]
    /\ UNCHANGED <<attempt, w, tunnel, device, accept, waitsOn, netConfig, timers,
                   panicked, result, deferred, died, rushed>>

DisconnectTimeout ==
    /\ ~panicked
    /\ pc = "await"
    /\ netConfig' = FALSE
    /\ pc' = "idle"
    /\ UNCHANGED <<attempt, w, tunnel, device, accept, term, waitsOn, timers,
                   panicked, result, deferred, died, rushed>>

-----------------------------------------------------------------------------
(***************************************************************************)
(* Termination goroutine k.  Every step uses the client's fields as they   *)
(* are at that moment.                                                     *)
(***************************************************************************)
\* The body of one step: from, to, and what is left alone besides.
Step(k, from, to) ==
    /\ ~panicked
    /\ term[k] = from
    /\ term' = [term EXCEPT ![k] = to]
    /\ UNCHANGED <<pc, attempt, w, timers, result, deferred, died, rushed>>

EnterSelect(k) ==
    /\ Step(k, "start", "select")
    /\ waitsOn' = [waitsOn EXCEPT ![k] = w.device]
    /\ UNCHANGED <<tunnel, device, accept, netConfig, panicked>>

DeviceGone(k) ==
    /\ term[k] = "select" /\ device[waitsOn[k]] = "closed"
    /\ Step(k, "select", "stop")
    /\ UNCHANGED <<tunnel, device, accept, waitsOn, netConfig, panicked>>

\* Faulty variant of StopCtrlService: waits without closing the listener.
StopCtrlServiceOpen(k) ==
    /\ Step(k, "stop", "stopWait")
    /\ waitsOn' = [waitsOn EXCEPT ![k] = w.wgctrlService]
    /\ UNCHANGED <<tunnel, device, accept, netConfig, panicked>>

\* wgctrlService.Stop(): close the listener, which makes Accept fail, and wait
\* for the goroutine's error; nothing to do if the listener never was made.
StopCtrlService(k) ==
    LET c == w.wgctrlService IN
    /\ term[k] = "stop"
    /\ IF accept[c] = "none"
       THEN Step(k, "stop", "tunnel") /\ UNCHANGED accept
       ELSE /\ Step(k, "stop", "stopWait")
            /\ accept' = [accept EXCEPT ![c] = IF @ = "accepting" THEN "failed" ELSE @]
    /\ waitsOn' = [waitsOn EXCEPT ![k] = c]
    /\ UNCHANGED <<tunnel, device, netConfig, panicked>>

CtrlServiceStopped(k) ==
    /\ term[k] = "stopWait" /\ accept[waitsOn[k]] = "failed"
    /\ accept' = [accept EXCEPT ![waitsOn[k]] = "done"]
    /\ Step(k, "stopWait", "tunnel")
    /\ UNCHANGED <<tunnel, device, waitsOn, netConfig, panicked>>

\* Faulty variant of CloseTunnel: the tunnel is left open.
CloseTunnelSkipped(k) ==
    /\ Step(k, "tunnel", "clear")
    /\ UNCHANGED <<tunnel, device, accept, waitsOn, netConfig, panicked>>

CloseTunnel(k) ==
    /\ Step(k, "tunnel", "clear")
    /\ IF w.tunnel = 0
       THEN panicked' = TRUE /\ UNCHANGED tunnel
       ELSE tunnel' = [tunnel EXCEPT ![w.tunnel] = "closed"] /\ UNCHANGED panicked
    /\ UNCHANGED <<device, accept, waitsOn, netConfig>>

ClearNetwork(k) ==
    /\ Step(k, "clear", "device")
    /\ netConfig' = FALSE
    /\ UNCHANGED <<tunnel, device, accept, waitsOn, panicked>>

CloseDevice(k) ==
    /\ Step(k, "device", "signal")
    /\ device' = [device EXCEPT ![w.device] = "closed"]
    /\ UNCHANGED <<tunnel, accept, waitsOn, netConfig, panicked>>

-----------------------------------------------------------------------------
(***************************************************************************)
(* The environment: a device goes away (its interface is removed), or a    *)
(* listener fails on its own.                                              *)
(***************************************************************************)
DeviceDies(k) ==
    /\ ~panicked
    /\ device[k] = "open"
    /\ device' = [device EXCEPT ![k] = "closed"]
    /\ died' = died \cup {k}
    /\ UNCHANGED <<pc, attempt, w, tunnel, accept, term, waitsOn, netConfig, timers,
                   panicked, result, deferred, rushed>>

AcceptFails(k) ==
    /\ ~panicked
    /\ accept[k] = "accepting"
    /\ accept' = [accept EXCEPT ![k] = "failed"]
    /\ UNCHANGED <<pc, attempt, w, tunnel, device, term, waitsOn, netConfig, timers,
                   panicked, result, deferred, died, rushed>>

-----------------------------------------------------------------------------
ConnectStep == \/ DeviceUp \/ StartCtrlService \/ StartTermination
               \/ ConfigureDevice \/ ConfigureNetwork \/ StartMetrics \/ ConnectFails

Terminate(k) == \/ EnterSelect(k) \/ DeviceGone(k) \/ StopCtrlService(k)
                \/ CtrlServiceStopped(k) \/ CloseTunnel(k) \/ ClearNetwork(k)
                \/ CloseDevice(k)

Next ==
    \/ CreateTunnel \/ ConnectStep
    \/ Disconnect \/ DisconnectTimeout
    \/ \E k \in Conns :
          \/ SendClose(k) \/ ReceiveDisconnected(k)
          \/ Terminate(k)
          \/ DeviceDies(k) \/ AcceptFails(k)

Spec == Init /\ [][Next]_vars

\* Running goroutines keep running and a rendezvous both sides wait for takes
\* place; nobody has to call Connect or Disconnect, and devices need not die.
FairSpec ==
    /\ Spec
    /\ WF_vars(ConnectStep)
    /\ WF_vars((\E k \in Conns : SendClose(k) \/ ReceiveDisconnected(k)) \/ DisconnectTimeout)
    /\ \A k \in Conns : WF_vars(Terminate(k))

-----------------------------------------------------------------------------
(***************************************************************************)
(* Properties.                                                             *)
(***************************************************************************)

\* Type invariant: the fields and the goroutines are where the code can be,
\* and a termination goroutine has a device and a listener to shut down.
TypeOK ==
    /\ pc \in CallerSteps
    /\ attempt \in 0..MaxConnects
    /\ w \in [{"tunnel", "device", "wgctrlService", "metricsTimer"} -> 0..MaxConnects]
    /\ tunnel \in [Conns -> {"none", "open", "closed"}]
    /\ device \in [Conns -> {"none", "open", "closed"}]
    /\ accept \in [Conns -> {"none", "accepting", "failed", "done"}]
    /\ term \in [Conns -> TermSteps]
    /\ waitsOn \in [Conns -> 0..MaxConnects]
    /\ netConfig \in BOOLEAN /\ panicked \in BOOLEAN
    /\ timers \subseteq Conns /\ deferred \subseteq Conns
    /\ died \subseteq Conns /\ rushed \subseteq Conns
    /\ result \in [Conns -> {"none", "ok", "error"}]
    /\ \A k \in Conns : term[k] # "none" => device[k] # "none" /\ accept[k] # "none"

\* "if an err is being returned then ensure tunnel and device is closed": a
\* Connect that returned an error left neither of them open, wherever it failed
\* and whatever older goroutines were doing.
FailedConnectCloses ==
    \A k \in Conns : result[k] = "error" => tunnel[k] # "open" /\ device[k] # "open"

\* A connection Connect returned as established stays up (tunnel, device and
\* UAPI listener) until its device dies or Disconnect is called, provided that
\* no goroutine of an earlier attempt was left when Connect was called, and
\* that the metrics timer started.
EstablishedStaysUp ==
    \A k \in Conns :
        /\ result[k] = "ok" /\ k = attempt
        /\ k \notin rushed \cup deferred \cup died
        /\ term[k] \in {"start", "select"}
        => tunnel[k] = "open" /\ device[k] = "open" /\ accept[k] \in {"accepting", "failed"}

\* When goroutine k offers its disconnected signal, everything connection k
\* opened is closed, provided Connect was not called again meanwhile, and
\* whatever goroutines of earlier attempts are left: so a Disconnect that is
\* signalled by the last connection leaves nothing of it open.
SignalMeansReleased ==
    \A k \in Conns :
        k = attempt /\ term[k] \in {"signal", "done"} =>
            tunnel[k] = "closed" /\ device[k] = "closed" /\ accept[k] = "done"

\* Shutting down completes: once the goroutine left its select (told to, or
\* because the device is gone) the listener's goroutine and it cannot wait for
\* each other, so connection k is released, provided that Connect was never
\* called with a goroutine of an earlier attempt left.  A device that goes away
\* under an established connection takes the listener and the tunnel with it,
\* with nobody calling Disconnect, under the same proviso.
TerminationCompletes ==
    \A k \in Conns :
        /\ term[k] = "stop"
           ~> (rushed # {} \/ (term[k] \in {"signal", "done"} /\ tunnel[k] = "closed"))
        /\ (k \in died /\ term[k] # "none")
           ~> (rushed # {} \/ (tunnel[k] = "closed" /\ accept[k] = "done"))

\* Disconnect's warning, "Timed out waiting for VPN disconnect signal. Most
\* likely connection was not established": without a connection Disconnect
\* returns after the timeout.
DisconnectReturns == pc = "closing" ~> pc = "idle"

\* The comment in the termination goroutine, "cleanup dns and routing": once
\* it has run and Connect is over, the network settings are cleared.
NetworkCleaned ==
    \A k \in Conns :
        pc = "idle" /\ k = attempt /\ term[k] = "signal" => ~netConfig
=============================================================================
