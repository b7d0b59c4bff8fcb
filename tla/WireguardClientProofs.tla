----------------------- MODULE WireguardClientProofs -----------------------
(***************************************************************************)
(* Proofs about WireguardClient, for any number of calls of Connect.       *)
(***************************************************************************)
EXTENDS WireguardClient, TLAPS

-----------------------------------------------------------------------------
(* Names for the types of the variables.                                    *)

Fields == [{"tunnel", "device", "wgctrlService", "metricsTimer"} -> 0..MaxConnects]
Opened == [Conns -> {"none", "open", "closed"}]
Accepts == [Conns -> {"none", "accepting", "failed", "done"}]

-----------------------------------------------------------------------------
(* The inductive invariant.                                                *)

\* From the tunnel's creation to its return Connect is at one of these steps.
Connecting == {"up", "ctrl", "client", "configure", "network", "metrics"}

\* What the fields point to.  Connections not yet attempted are untouched.
\* While Connect runs, and as long as the goroutine it started is the newest,
\* the fields are those of its own attempt: only CreateTUN and NewDevice
\* overwrite them.
FieldsInv ==
    /\ \A k \in Conns : k > attempt =>
          /\ tunnel[k] = "none" /\ device[k] = "none" /\ accept[k] = "none"
          /\ term[k] = "none" /\ result[k] = "none"
          /\ k \notin deferred /\ k \notin died /\ k \notin rushed
    /\ w.tunnel <= attempt /\ w.device <= attempt /\ w.wgctrlService <= attempt
    /\ pc \in Connecting =>
          /\ attempt \in Conns /\ w.tunnel = attempt /\ w.device = attempt
          /\ device[attempt] # "none"
    /\ pc \in Connecting \ {"up"} => w.wgctrlService = attempt
    /\ pc \in Connecting \ {"up", "ctrl"} => accept[attempt] # "none"
    /\ pc \in {"up", "ctrl", "client"} => term[attempt] = "none"
    /\ \A k \in Conns : k = attempt /\ term[k] # "none" =>
          w.tunnel = k /\ w.device = k /\ w.wgctrlService = k

\* If no goroutine was left when the last Connect was called, none but its own
\* runs: an older one cannot be started any more.
AloneInv ==
    attempt \notin rushed => \A k \in Conns : k # attempt => ~Running(k)

\* EstablishedStaysUp, from the moment the tunnel is created.
UpInv ==
    \A k \in Conns :
        /\ k = attempt /\ k \notin rushed /\ k \notin deferred /\ k \notin died
        /\ term[k] \in {"none", "start", "select"} /\ device[k] # "none"
        => tunnel[k] = "open" /\ device[k] = "open" /\ accept[k] # "done"

\* SignalMeansReleased, step by step of the goroutine.
ReleasedInv ==
    \A k \in Conns : k = attempt =>
        /\ term[k] = "stopWait" => waitsOn[k] = k
        /\ term[k] \in {"tunnel", "clear", "device", "signal", "done"} => accept[k] = "done"
        /\ term[k] \in {"clear", "device", "signal", "done"} => tunnel[k] = "closed"
        /\ term[k] \in {"signal", "done"} => device[k] = "closed"

IInv == TypeOK /\ FieldsInv /\ AloneInv /\ UpInv /\ FailedConnectCloses /\ ReleasedInv

-----------------------------------------------------------------------------
(* What the steps that touch several connections do, connection by          *)
(* connection.                                                              *)

\* CreateTUN and NewDevice touch only what belongs to the new attempt.
LEMMA CreateEffect ==
    ASSUME TypeOK, CreateTunnel
    PROVE  /\ pc = "idle" /\ attempt' = attempt + 1 /\ attempt' \in Conns
           /\ w' \in Fields /\ w'.wgctrlService = w.wgctrlService
           /\ tunnel' \in Opened /\ device' \in Opened
           /\ result' \in [Conns -> {"none", "ok", "error"}]
           /\ \A k \in Conns : k # attempt' =>
                 tunnel'[k] = tunnel[k] /\ device'[k] = device[k] /\ result'[k] = result[k]
           /\ \/ /\ pc' = "up" /\ w'.tunnel = attempt' /\ w'.device = attempt'
                 /\ tunnel'[attempt'] = "open" /\ device'[attempt'] = "open"
                 /\ result' = result
              \/ /\ pc' = "idle" /\ w'.tunnel \in {0, w.tunnel} /\ w'.device = w.device
                 /\ tunnel' = tunnel /\ device' = device
           /\ rushed' \subseteq Conns
           /\ \A k \in Conns : k # attempt' => (k \in rushed' <=> k \in rushed)
           /\ attempt' \notin rushed' => \A k \in Conns : ~Running(k)
<1>1. /\ attempt \in 0..MaxConnects /\ w \in Fields /\ tunnel \in Opened /\ device \in Opened
      /\ result \in [Conns -> {"none", "ok", "error"}] /\ rushed \subseteq Conns
    BY Zenon DEF TypeOK, Fields, Opened
<1>2. pc = "idle" /\ attempt < MaxConnects /\ attempt' = attempt + 1
    BY Zenon DEF CreateTunnel
<1>3. attempt' \in Conns
    BY <1>1, <1>2, MaxConnectsAssumption DEF Conns
<1>4. 0 \in 0..MaxConnects /\ attempt' \in 0..MaxConnects
    BY <1>3, MaxConnectsAssumption DEF Conns
<1>5. rushed' = IF \E k \in Conns : Running(k) THEN rushed \cup {attempt'} ELSE rushed
    BY Zenon DEF CreateTunnel
<1>6. /\ rushed' \subseteq Conns
      /\ \A k \in Conns : k # attempt' => (k \in rushed' <=> k \in rushed)
      /\ attempt' \notin rushed' => \A k \in Conns : ~Running(k)
    BY <1>1, <1>3, <1>5, Zenon
<1>7. CASE /\ w' = [w EXCEPT !.tunnel = attempt', !.device = attempt']
           /\ tunnel' = [tunnel EXCEPT ![attempt'] = "open"]
           /\ device' = [device EXCEPT ![attempt'] = "open"]
           /\ pc' = "up"
           /\ result' = result
  <2>1. /\ w' \in Fields /\ w'.wgctrlService = w.wgctrlService
        /\ w'.tunnel = attempt' /\ w'.device = attempt'
    BY <1>1, <1>4, <1>7, Zenon DEF Fields
  <2>2. /\ tunnel' \in Opened /\ device' \in Opened
        /\ tunnel'[attempt'] = "open" /\ device'[attempt'] = "open"
        /\ \A k \in Conns : k # attempt' => tunnel'[k] = tunnel[k] /\ device'[k] = device[k]
    BY <1>1, <1>3, <1>7 DEF Opened
  <2> QED BY <1>1, <1>2, <1>3, <1>6, <1>7, <2>1, <2>2, Zenon
<1>8. CASE /\ w' \in {w, [w EXCEPT !.tunnel = 0]}
           /\ result' = [result EXCEPT ![attempt'] = "error"]
           /\ UNCHANGED <<pc, tunnel, device>>
  <2>1. /\ w' \in Fields /\ w'.wgctrlService = w.wgctrlService
        /\ w'.tunnel \in {0, w.tunnel} /\ w'.device = w.device
    BY <1>1, <1>4, <1>8 DEF Fields
  <2>2. /\ result' \in [Conns -> {"none", "ok", "error"}]
        /\ \A k \in Conns : k # attempt' => result'[k] = result[k]
    BY <1>1, <1>3, <1>8
  <2>3. tunnel' = tunnel /\ device' = device /\ pc' = "idle"
    BY <1>2, <1>8
  <2> QED BY <1>1, <1>2, <1>3, <1>6, <2>1, <2>2, <2>3, Zenon
<1> QED BY <1>7, <1>8, Zenon DEF CreateTunnel

\* The deferred function closes the tunnel and the device of the attempt.
LEMMA CloseEffect ==
    ASSUME TypeOK, attempt \in Conns, w.tunnel = attempt, w.device = attempt, CloseDeferred
    PROVE  /\ tunnel' \in Opened /\ device' \in Opened
           /\ tunnel'[attempt] = "closed" /\ device'[attempt] = "closed"
           /\ \A k \in Conns : k # attempt => tunnel'[k] = tunnel[k] /\ device'[k] = device[k]
           /\ deferred' \subseteq Conns /\ attempt \in deferred'
           /\ \A k \in Conns : k # attempt => (k \in deferred' <=> k \in deferred)
<1>1. tunnel \in Opened /\ device \in Opened /\ deferred \subseteq Conns
    BY Zenon DEF TypeOK, Opened
<1>2. /\ tunnel' = [tunnel EXCEPT ![attempt] = "closed"]
      /\ device' = [device EXCEPT ![attempt] = "closed"]
      /\ deferred' = deferred \cup {attempt}
    BY Zenon DEF CloseDeferred
<1> QED BY <1>1, <1>2 DEF Opened

\* What Return assigns.
LEMMA ReturnEffect ==
    ASSUME TypeOK, attempt \in Conns, NEW value \in {"ok", "error"}, Return(value)
    PROVE  /\ pc' = "idle" /\ result' \in [Conns -> {"none", "ok", "error"}]
           /\ result'[attempt] = value
           /\ \A k \in Conns : k # attempt => result'[k] = result[k]
<1>1. result \in [Conns -> {"none", "ok", "error"}]
    BY Zenon DEF TypeOK
<1> QED BY <1>1 DEF Return

\* A step of termination goroutine k moves that goroutine only, and closes what
\* the fields name.
LEMMA TerminateEffect ==
    ASSUME TypeOK, NEW k \in Conns, Terminate(k)
    PROVE  /\ UNCHANGED <<pc, attempt, w, timers, result, deferred, died, rushed>>
           /\ Running(k) /\ term' \in [Conns -> TermSteps] /\ term'[k] # "none"
           /\ \A j \in Conns : j # k => term'[j] = term[j]
           /\ tunnel' \in Opened /\ device' \in Opened
           /\ accept' \in Accepts /\ waitsOn' \in [Conns -> 0..MaxConnects]
           /\ \A j \in Conns :
                 /\ tunnel'[j] = tunnel[j] \/ (j = w.tunnel /\ tunnel'[j] = "closed")
                 /\ device'[j] = device[j] \/ (j = w.device /\ device'[j] = "closed")
                 /\ accept'[j] = "none" <=> accept[j] = "none"
                 /\ accept[j] = "done" => accept'[j] = "done"
           /\ netConfig' \in BOOLEAN /\ panicked' \in BOOLEAN
<1>1. /\ w \in Fields /\ tunnel \in Opened /\ device \in Opened /\ accept \in Accepts
      /\ term \in [Conns -> TermSteps] /\ waitsOn \in [Conns -> 0..MaxConnects]
      /\ netConfig \in BOOLEAN /\ panicked \in BOOLEAN
    BY Zenon DEF TypeOK, Fields, Opened, Accepts
<1>2. w.device \in 0..MaxConnects /\ w.wgctrlService \in 0..MaxConnects
    BY <1>1 DEF Fields
<1>3. ASSUME NEW from \in TermSteps \ {"none", "done"}, NEW to \in TermSteps \ {"none"},
             Step(k, from, to)
      PROVE  /\ UNCHANGED <<pc, attempt, w, timers, result, deferred, died, rushed>>
             /\ Running(k) /\ term' \in [Conns -> TermSteps] /\ term'[k] # "none"
             /\ \A j \in Conns : j # k => term'[j] = term[j]
    BY <1>1, <1>3 DEF Step, Running
<1>4. CASE EnterSelect(k)
    BY <1>1, <1>2, <1>3, <1>4 DEF EnterSelect, TermSteps
<1>5. CASE DeviceGone(k)
    BY <1>1, <1>3, <1>5 DEF DeviceGone, TermSteps
<1>6. CASE StopCtrlService(k)
  <2>1. /\ waitsOn' \in [Conns -> 0..MaxConnects]
        /\ UNCHANGED <<tunnel, device, netConfig, panicked>>
    BY <1>1, <1>2, <1>6 DEF StopCtrlService
  <2>2. /\ accept' \in Accepts
        /\ \A j \in Conns : /\ accept'[j] = "none" <=> accept[j] = "none"
                            /\ accept[j] = "done" => accept'[j] = "done"
    BY <1>1, <1>6 DEF StopCtrlService, Accepts
  <2>3. Step(k, "stop", "tunnel") \/ Step(k, "stop", "stopWait")
    BY <1>6, Zenon DEF StopCtrlService
  <2>4. /\ UNCHANGED <<pc, attempt, w, timers, result, deferred, died, rushed>>
        /\ Running(k) /\ term' \in [Conns -> TermSteps] /\ term'[k] # "none"
        /\ \A j \in Conns : j # k => term'[j] = term[j]
    BY <1>3, <2>3 DEF TermSteps
  <2> QED BY <1>1, <2>1, <2>2, <2>4, Zenon
<1>7. CASE CtrlServiceStopped(k)
  <2>1. /\ accept' \in Accepts
        /\ \A j \in Conns : /\ accept'[j] = "none" <=> accept[j] = "none"
                            /\ accept[j] = "done" => accept'[j] = "done"
    BY <1>1, <1>7, Zenon DEF CtrlServiceStopped, Accepts
  <2> QED BY <1>1, <1>3, <1>7, <2>1 DEF CtrlServiceStopped, TermSteps
<1>8. CASE CloseTunnel(k)
  <2>1. /\ tunnel' \in Opened /\ panicked' \in BOOLEAN
        /\ \A j \in Conns : tunnel'[j] = tunnel[j] \/ (j = w.tunnel /\ tunnel'[j] = "closed")
    BY <1>1, <1>8, Zenon DEF CloseTunnel, Opened
  <2> QED BY <1>1, <1>3, <1>8, <2>1 DEF CloseTunnel, TermSteps
<1>9. CASE ClearNetwork(k)
    BY <1>1, <1>3, <1>9, Zenon DEF ClearNetwork, TermSteps
<1>10. CASE CloseDevice(k)
  <2>1. /\ device' \in Opened
        /\ \A j \in Conns : device'[j] = device[j] \/ (j = w.device /\ device'[j] = "closed")
    BY <1>1, <1>10, Zenon DEF CloseDevice, Opened
  <2> QED BY <1>1, <1>3, <1>10, <2>1 DEF CloseDevice, TermSteps
<1> QED BY <1>4, <1>5, <1>6, <1>7, <1>8, <1>9, <1>10, Zenon DEF Terminate

\* A goroutine only enters its select once, and then it has closed nothing; the
\* step moves what no other goroutine blocks on.
LEMMA TerminateOrder ==
    ASSUME TypeOK, NEW k \in Conns, Terminate(k)
    PROVE  /\ \A j \in Conns : j # k => waitsOn'[j] = waitsOn[j]
           /\ term'[k] \notin {"none", "start"}
           /\ term'[k] = "select" => UNCHANGED <<tunnel, device, accept>> /\ term[k] = "start"
<1>1. term \in [Conns -> TermSteps] /\ waitsOn \in [Conns -> 0..MaxConnects]
    BY Zenon DEF TypeOK
<1>2. CASE EnterSelect(k)
    BY <1>1, <1>2 DEF EnterSelect, Step
<1>3. CASE DeviceGone(k)
    BY <1>1, <1>3 DEF DeviceGone, Step
<1>4. CASE StopCtrlService(k)
    BY <1>1, <1>4 DEF StopCtrlService, Step
<1>5. CASE CtrlServiceStopped(k)
    BY <1>1, <1>5 DEF CtrlServiceStopped, Step
<1>6. CASE CloseTunnel(k)
    BY <1>1, <1>6 DEF CloseTunnel, Step
<1>7. CASE ClearNetwork(k)
    BY <1>1, <1>7 DEF ClearNetwork, Step
<1>8. CASE CloseDevice(k)
    BY <1>1, <1>8 DEF CloseDevice, Step
<1> QED BY <1>2, <1>3, <1>4, <1>5, <1>6, <1>7, <1>8, Zenon DEF Terminate

\* The caller's steps that touch no connection.
CallerOnly == ConfigureDevice \/ ConfigureNetwork \/ Disconnect \/ DisconnectTimeout

\* Those steps take Connect from one of its steps to the next, or are not in it.
LEMMA CallerEffect ==
    ASSUME TypeOK, CallerOnly
    PROVE  /\ UNCHANGED <<attempt, w, tunnel, device, accept, term, waitsOn, panicked, result,
                          deferred, died, rushed>>
           /\ pc' \in CallerSteps /\ timers' \subseteq Conns /\ netConfig' \in BOOLEAN
           /\ pc' \in Connecting => pc \in Connecting
           /\ pc' \in Connecting \ {"up"} => pc \in Connecting \ {"up"}
           /\ pc' \in Connecting \ {"up", "ctrl"} => pc \in Connecting \ {"up", "ctrl"}
           /\ pc' \in {"up", "ctrl", "client"} => pc \in {"up", "ctrl", "client"}
<1>1. timers \subseteq Conns /\ netConfig \in BOOLEAN
    BY Zenon DEF TypeOK
<1> QED BY <1>1, Zenon DEF CallerOnly, ConfigureDevice, ConfigureNetwork, Disconnect, DisconnectTimeout,
                    Connecting, CallerSteps

\* The two rendezvous of Disconnect with a goroutine.
LEMMA RendezvousEffect ==
    ASSUME TypeOK, NEW k \in Conns, SendClose(k) \/ ReceiveDisconnected(k)
    PROVE  /\ UNCHANGED <<attempt, w, tunnel, device, accept, waitsOn, netConfig, timers,
                          panicked, result, deferred, died, rushed>>
           /\ pc' \in {"await", "idle"} /\ term' \in [Conns -> TermSteps] /\ Running(k)
           /\ \/ term[k] = "select" /\ term'[k] = "stop"
              \/ term[k] = "signal" /\ term'[k] = "done"
           /\ \A j \in Conns : j # k => term'[j] = term[j]
<1>1. term \in [Conns -> TermSteps]
    BY Zenon DEF TypeOK
<1> QED BY <1>1 DEF SendClose, ReceiveDisconnected, TermSteps, Running

\* What the other steps of Connect and the environment do.
LEMMA StartEffect ==
    ASSUME TypeOK, FieldsInv
    PROVE  /\ DeviceUp \/ StartCtrlService =>
                /\ UNCHANGED <<attempt, tunnel, device, term, waitsOn, netConfig, timers,
                               panicked, result, deferred, died, rushed>>
                /\ \/ pc = "up" /\ pc' = "ctrl"
                   \/ pc = "ctrl" /\ pc' = "client" /\ accept'[attempt] = "accepting"
                /\ attempt \in Conns
                /\ w' \in Fields /\ w'.wgctrlService = attempt
                /\ w'.tunnel = w.tunnel /\ w'.device = w.device
                /\ accept' \in Accepts /\ accept'[attempt] \in {accept[attempt], "accepting"}
                /\ \A k \in Conns : k # attempt => accept'[k] = accept[k]
           /\ StartTermination =>
                /\ UNCHANGED <<attempt, w, tunnel, device, accept, waitsOn, netConfig, timers,
                               panicked, result, deferred, died, rushed>>
                /\ pc = "client" /\ pc' = "configure" /\ attempt \in Conns
                /\ term' \in [Conns -> TermSteps] /\ term'[attempt] = "start"
                /\ \A k \in Conns : k # attempt => term'[k] = term[k]
<1>1. /\ w \in Fields /\ accept \in Accepts /\ term \in [Conns -> TermSteps]
      /\ attempt \in 0..MaxConnects
    BY Zenon DEF TypeOK, Fields, Accepts
<1>2. /\ pc \in {"up", "ctrl", "client"} => attempt \in Conns
      /\ pc = "ctrl" => w.wgctrlService = attempt
    BY DEF FieldsInv, Connecting
<1>3. ASSUME DeviceUp \/ StartCtrlService
      PROVE  /\ w' \in Fields /\ w'.wgctrlService = attempt
             /\ w'.tunnel = w.tunnel /\ w'.device = w.device
             /\ pc' = "client" => accept'[attempt] = "accepting"
             /\ accept' \in Accepts /\ accept'[attempt] \in {accept[attempt], "accepting"}
             /\ \A k \in Conns : k # attempt => accept'[k] = accept[k]
    BY <1>1, <1>2, <1>3 DEF DeviceUp, StartCtrlService, Fields, Accepts
<1>4. ASSUME StartTermination
      PROVE  /\ term' \in [Conns -> TermSteps] /\ term'[attempt] = "start"
             /\ \A k \in Conns : k # attempt => term'[k] = term[k]
    BY <1>1, <1>2, <1>4 DEF StartTermination, TermSteps
<1> QED BY <1>2, <1>3, <1>4 DEF DeviceUp, StartCtrlService, StartTermination

\* Connect's last steps: the timer, or the deferred function.
LEMMA FinishEffect ==
    ASSUME TypeOK, FieldsInv, StartMetrics \/ ConnectFails
    PROVE  /\ UNCHANGED <<attempt, accept, term, waitsOn, panicked, died, rushed>>
           /\ pc \in Connecting /\ pc' = "idle" /\ attempt \in Conns
           /\ w.tunnel = attempt /\ w.device = attempt
           /\ w' \in Fields /\ w'.tunnel = attempt /\ w'.device = attempt
           /\ w'.wgctrlService = w.wgctrlService
           /\ timers' \subseteq Conns /\ netConfig' \in BOOLEAN
           /\ result' \in [Conns -> {"none", "ok", "error"}]
           /\ \A k \in Conns : k # attempt => result'[k] = result[k]
           /\ tunnel' \in Opened /\ device' \in Opened /\ deferred' \subseteq Conns
           /\ \A k \in Conns : k # attempt =>
                 /\ tunnel'[k] = tunnel[k] /\ device'[k] = device[k]
                 /\ k \in deferred' <=> k \in deferred
           /\ \/ tunnel' = tunnel /\ device' = device /\ deferred' = deferred
                 /\ result'[attempt] = "ok"
              \/ /\ tunnel'[attempt] = "closed" /\ device'[attempt] = "closed"
                 /\ attempt \in deferred'
<1>1. /\ w \in Fields /\ netConfig \in BOOLEAN /\ timers \subseteq Conns
      /\ tunnel \in Opened /\ device \in Opened /\ deferred \subseteq Conns
      /\ attempt \in 0..MaxConnects
    BY Zenon DEF TypeOK, Fields, Opened
<1>2. pc \in Connecting
    BY Zenon DEF StartMetrics, ConnectFails, Connecting
<1>3. attempt \in Conns /\ w.tunnel = attempt /\ w.device = attempt
    BY <1>2, Zenon DEF FieldsInv
<1>4. CASE StartMetrics
  <2>1. /\ w' \in Fields /\ w'.tunnel = attempt /\ w'.device = attempt
        /\ w'.wgctrlService = w.wgctrlService
    BY <1>1, <1>3, <1>4 DEF StartMetrics, Fields
  <2>2. /\ pc' = "idle" /\ result' \in [Conns -> {"none", "ok", "error"}]
        /\ result'[attempt] = "ok" /\ \A k \in Conns : k # attempt => result'[k] = result[k]
    BY <1>3, <1>4, ReturnEffect DEF StartMetrics
  <2>3. CASE timers' = timers \cup {attempt} /\ UNCHANGED <<tunnel, device, deferred>>
    BY <1>1, <1>2, <1>3, <1>4, <2>1, <2>2, <2>3 DEF StartMetrics
  <2>4. CASE CloseDeferred /\ UNCHANGED timers
    BY <1>1, <1>2, <1>3, <1>4, <2>1, <2>2, <2>4, CloseEffect DEF StartMetrics
  <2> QED BY <1>4, <2>3, <2>4, Zenon DEF StartMetrics
<1>5. CASE ConnectFails
  <2>1. /\ w' \in Fields /\ w'.tunnel = attempt /\ w'.device = attempt
        /\ w'.wgctrlService = w.wgctrlService
    BY <1>1, <1>3, <1>5 DEF ConnectFails, Fields
  <2>2. /\ pc' = "idle" /\ result' \in [Conns -> {"none", "ok", "error"}]
        /\ result'[attempt] = "error" /\ \A k \in Conns : k # attempt => result'[k] = result[k]
    BY <1>3, <1>5, ReturnEffect DEF ConnectFails
  <2>3. netConfig' \in BOOLEAN
    BY <1>1, <1>5, Zenon DEF ConnectFails
  <2> QED BY <1>1, <1>2, <1>3, <1>5, <2>1, <2>2, <2>3, CloseEffect DEF ConnectFails
<1> QED BY <1>4, <1>5

\* A device that goes away, a listener that fails.
LEMMA EnvironmentEffect ==
    ASSUME TypeOK, NEW k \in Conns
    PROVE  /\ DeviceDies(k) =>
                /\ UNCHANGED <<pc, attempt, w, tunnel, accept, term, waitsOn, netConfig, timers,
                               panicked, result, deferred, rushed>>
                /\ device' \in Opened /\ device[k] = "open" /\ device'[k] = "closed"
                /\ \A j \in Conns : j # k => device'[j] = device[j]
                /\ died' = died \cup {k}
           /\ AcceptFails(k) =>
                /\ UNCHANGED <<pc, attempt, w, tunnel, device, term, waitsOn, netConfig, timers,
                               panicked, result, deferred, died, rushed>>
                /\ accept' \in Accepts /\ accept[k] = "accepting" /\ accept'[k] = "failed"
                /\ \A j \in Conns : j # k => accept'[j] = accept[j]
<1>1. device \in Opened /\ accept \in Accepts
    BY Zenon DEF TypeOK, Opened, Accepts
<1> QED BY <1>1 DEF DeviceDies, AcceptFails, Opened, Accepts

-----------------------------------------------------------------------------
(* One lemma per conjunct of the inductive invariant.                       *)

\* The steps, in the groups above.
LEMMA NextCases ==
    [Next]_vars =>
        \/ CreateTunnel \/ CallerOnly \/ DeviceUp \/ StartCtrlService \/ StartTermination
        \/ StartMetrics \/ ConnectFails
        \/ \E k \in Conns : \/ SendClose(k) \/ ReceiveDisconnected(k) \/ Terminate(k)
                            \/ DeviceDies(k) \/ AcceptFails(k)
        \/ UNCHANGED vars
    BY Zenon DEF Next, ConnectStep, CallerOnly

\* Every step keeps the type invariant.
LEMMA TypeStep == TypeOK /\ FieldsInv /\ [Next]_vars => TypeOK'
<1> SUFFICES ASSUME TypeOK, FieldsInv, [Next]_vars PROVE TypeOK'
    OBVIOUS
<1>0. /\ pc \in CallerSteps /\ attempt \in 0..MaxConnects /\ w \in Fields
      /\ tunnel \in Opened /\ device \in Opened /\ accept \in Accepts
      /\ term \in [Conns -> TermSteps] /\ waitsOn \in [Conns -> 0..MaxConnects]
      /\ netConfig \in BOOLEAN /\ panicked \in BOOLEAN
      /\ timers \subseteq Conns /\ deferred \subseteq Conns
      /\ died \subseteq Conns /\ rushed \subseteq Conns
      /\ result \in [Conns -> {"none", "ok", "error"}]
    BY Zenon DEF TypeOK, Fields, Opened, Accepts
<1>a. \A k \in Conns : term[k] # "none" => device[k] # "none" /\ accept[k] # "none"
    BY Zenon DEF TypeOK
<1>b. \A k \in Conns : k > attempt => term[k] = "none"
    BY Zenon DEF FieldsInv
<1>c. pc = "client" => device[attempt] # "none" /\ accept[attempt] # "none"
    BY DEF FieldsInv, Connecting
<1>1. CASE CreateTunnel
  <2>1. UNCHANGED <<accept, term, waitsOn, netConfig, timers, panicked, deferred, died>>
    BY <1>1, Zenon DEF CreateTunnel
  <2>2. attempt' \in 0..MaxConnects /\ pc' \in CallerSteps
    BY <1>1, CreateEffect, MaxConnectsAssumption DEF Conns, CallerSteps
  <2>3. \A k \in Conns : term[k] # "none" => device'[k] # "none"
    BY <1>1, <1>a, CreateEffect
  <2> QED BY <1>1, <1>0, <1>a, <2>1, <2>2, <2>3, CreateEffect DEF TypeOK, Fields, Opened
<1>2. CASE CallerOnly
    BY <1>2, <1>0, <1>a, CallerEffect DEF TypeOK, Fields, Opened, Accepts
<1>3. CASE DeviceUp \/ StartCtrlService
  <2>1. \A k \in Conns : term[k] # "none" => accept'[k] # "none"
    BY <1>3, <1>a, StartEffect
  <2>2. pc' \in CallerSteps
    BY <1>3, StartEffect DEF CallerSteps
  <2> QED BY <1>3, <1>0, <1>a, <2>1, <2>2, StartEffect DEF TypeOK, Fields, Opened, Accepts
<1>4. CASE StartTermination
  <2>1. \A k \in Conns : term'[k] # "none" => device[k] # "none" /\ accept[k] # "none"
    BY <1>4, <1>a, <1>c, StartEffect
  <2>2. pc' \in CallerSteps
    BY <1>4, StartEffect DEF CallerSteps
  <2> QED BY <1>4, <1>0, <2>1, <2>2, StartEffect DEF TypeOK, Fields, Opened, Accepts
<1>5. CASE StartMetrics \/ ConnectFails
  <2>1. \A k \in Conns : device[k] # "none" => device'[k] # "none"
    BY <1>5, FinishEffect
  <2>2. pc' \in CallerSteps
    BY <1>5, FinishEffect DEF CallerSteps
  <2> QED BY <1>5, <1>0, <1>a, <2>1, <2>2, FinishEffect DEF TypeOK, Fields, Opened, Accepts
<1>6. ASSUME NEW k \in Conns, SendClose(k) \/ ReceiveDisconnected(k) PROVE TypeOK'
  <2>1. \A j \in Conns : term'[j] # "none" => term[j] # "none"
    BY <1>6, RendezvousEffect
  <2>2. pc' \in CallerSteps
    BY <1>6, RendezvousEffect DEF CallerSteps
  <2> QED BY <1>6, <1>0, <1>a, <2>1, <2>2, RendezvousEffect DEF TypeOK, Fields, Opened, Accepts
<1>7. ASSUME NEW k \in Conns, Terminate(k) PROVE TypeOK'
  <2>1. \A j \in Conns : term'[j] # "none" => term[j] # "none"
    BY <1>7, TerminateEffect DEF Running
  <2>2. \A j \in Conns : device[j] # "none" => device'[j] # "none"
    BY <1>7, TerminateEffect
  <2>3. \A j \in Conns : accept[j] # "none" => accept'[j] # "none"
    BY <1>7, TerminateEffect
  <2> QED BY <1>7, <1>0, <1>a, <2>1, <2>2, <2>3, TerminateEffect DEF TypeOK, Fields, Opened, Accepts
<1>8. ASSUME NEW k \in Conns, DeviceDies(k) PROVE TypeOK'
  <2>1. \A j \in Conns : device[j] # "none" => device'[j] # "none"
    BY <1>8, EnvironmentEffect
  <2> QED BY <1>8, <1>0, <1>a, <2>1, EnvironmentEffect DEF TypeOK, Fields, Opened, Accepts
<1>9. ASSUME NEW k \in Conns, AcceptFails(k) PROVE TypeOK'
  <2>1. \A j \in Conns : accept[j] # "none" => accept'[j] # "none"
    BY <1>9, EnvironmentEffect
  <2> QED BY <1>9, <1>0, <1>a, <2>1, EnvironmentEffect DEF TypeOK, Fields, Opened, Accepts
<1>10. CASE UNCHANGED vars
    BY <1>10 DEF vars, TypeOK
<1> QED BY <1>1, <1>2, <1>3, <1>4, <1>5, <1>6, <1>7, <1>8, <1>9, <1>10, NextCases, Zenon

\* Every step keeps the fields those of the last attempt.
LEMMA FieldsStep == TypeOK /\ FieldsInv /\ [Next]_vars => FieldsInv'
<1> SUFFICES ASSUME TypeOK, FieldsInv, [Next]_vars PROVE FieldsInv'
    OBVIOUS
<1>0. attempt \in 0..MaxConnects /\ attempt \in Nat /\ Conns \subseteq Nat
    BY MaxConnectsAssumption DEF TypeOK, Conns
<1>b. w.tunnel \in Nat /\ w.device \in Nat /\ w.wgctrlService \in Nat
    BY MaxConnectsAssumption DEF TypeOK
<1>1. CASE CreateTunnel
  <2>1. UNCHANGED <<accept, term, deferred, died>>
    BY <1>1, Zenon DEF CreateTunnel
  <2>a. attempt' = attempt + 1
    BY <1>1, Zenon DEF CreateTunnel
  <2>2. \A k \in Conns : k > attempt' => k > attempt /\ k # attempt'
    BY <1>0, <2>a
  <2>3. attempt' > attempt /\ 0 <= attempt'
    BY <1>0, <2>a
  <2>4. term'[attempt'] = "none"
    BY <1>1, <2>1, <2>3, CreateEffect DEF FieldsInv
  <2>5. /\ w'.tunnel <= attempt' /\ w'.device <= attempt' /\ w'.wgctrlService <= attempt'
        /\ pc' \in Connecting => w'.tunnel = attempt' /\ w'.device = attempt'
        /\ pc' \notin Connecting \ {"up"} /\ pc' \notin Connecting \ {"up", "ctrl"}
        /\ pc' \in Connecting => device'[attempt'] # "none"
    BY <1>1, <1>0, <1>b, <2>3, CreateEffect DEF FieldsInv, Connecting
  <2>6. \A k \in Conns : k > attempt' =>
          /\ tunnel'[k] = "none" /\ device'[k] = "none" /\ accept'[k] = "none"
          /\ term'[k] = "none" /\ result'[k] = "none"
          /\ k \notin deferred' /\ k \notin died' /\ k \notin rushed'
    BY <1>1, <2>1, <2>2, CreateEffect DEF FieldsInv
  <2> QED BY <1>1, <2>4, <2>5, <2>6, CreateEffect DEF FieldsInv
<1>2. CASE CallerOnly
    BY <1>2, CallerEffect DEF FieldsInv
<1>3. CASE DeviceUp \/ StartCtrlService
    BY <1>3, <1>0, StartEffect DEF FieldsInv, Connecting
<1>4. CASE StartTermination
    BY <1>4, <1>0, StartEffect DEF FieldsInv, Connecting
<1>5. CASE StartMetrics \/ ConnectFails
    BY <1>5, <1>0, FinishEffect DEF FieldsInv, Connecting
<1>6. ASSUME NEW k \in Conns, SendClose(k) \/ ReceiveDisconnected(k) PROVE FieldsInv'
    BY <1>6, <1>0, RendezvousEffect DEF FieldsInv, Connecting, Running
<1>7. ASSUME NEW k \in Conns, Terminate(k) PROVE FieldsInv'
  <2>1. UNCHANGED <<pc, attempt, w, result, deferred, died, rushed>>
    BY <1>7, TerminateEffect, Zenon
  <2>2. \A j \in Conns : /\ term'[j] = "none" <=> term[j] = "none"
                         /\ accept'[j] = "none" <=> accept[j] = "none"
                         /\ device[j] # "none" => device'[j] # "none"
    BY <1>7, TerminateEffect DEF Running
  <2>3. \A j \in Conns : j > attempt => tunnel'[j] = tunnel[j] /\ device'[j] = device[j]
    <3>1. \A j \in Conns : j > attempt => j # w.tunnel /\ j # w.device
        BY <1>0, <1>b DEF FieldsInv
    <3> QED BY <1>7, <3>1, TerminateEffect, Zenon
  <2>4. pc \in {"up", "ctrl", "client"} => attempt \in Conns
    BY DEF FieldsInv, Connecting
  <2>5. pc \in Connecting => attempt \in Conns
    BY Zenon DEF FieldsInv
  <2> QED BY <2>1, <2>2, <2>3, <2>4, <2>5 DEF FieldsInv
<1>8. ASSUME NEW k \in Conns, DeviceDies(k) PROVE FieldsInv'
    BY <1>8, EnvironmentEffect DEF FieldsInv
<1>9. ASSUME NEW k \in Conns, AcceptFails(k) PROVE FieldsInv'
    BY <1>9, EnvironmentEffect DEF FieldsInv
<1>10. CASE UNCHANGED vars
    BY <1>10 DEF vars, FieldsInv
<1> QED BY <1>1, <1>2, <1>3, <1>4, <1>5, <1>6, <1>7, <1>8, <1>9, <1>10, NextCases, Zenon

\* Every step keeps older goroutines out of a connection made without any left.
LEMMA AloneStep == TypeOK /\ FieldsInv /\ AloneInv /\ [Next]_vars => AloneInv'
<1> SUFFICES ASSUME TypeOK, FieldsInv, AloneInv, [Next]_vars PROVE AloneInv'
    OBVIOUS
<1>1. CASE CreateTunnel
  <2>1. term' = term
    BY <1>1, Zenon DEF CreateTunnel
  <2> QED BY <1>1, <2>1, CreateEffect, SMT DEF AloneInv, Running
<1>2. CASE CallerOnly
    BY <1>2, CallerEffect, SMT DEF AloneInv, Running
<1>3. CASE DeviceUp \/ StartCtrlService
    BY <1>3, StartEffect, SMT DEF AloneInv, Running
<1>4. CASE StartTermination
    BY <1>4, StartEffect, SMT DEF AloneInv, Running
<1>5. CASE StartMetrics \/ ConnectFails
    BY <1>5, FinishEffect, SMT DEF AloneInv, Running
<1>6. ASSUME NEW k \in Conns, SendClose(k) \/ ReceiveDisconnected(k) PROVE AloneInv'
    BY <1>6, RendezvousEffect DEF AloneInv, Running
<1>7. ASSUME NEW k \in Conns, Terminate(k) PROVE AloneInv'
    BY <1>7, TerminateEffect DEF AloneInv, Running
<1>8. ASSUME NEW k \in Conns, DeviceDies(k) PROVE AloneInv'
    BY <1>8, EnvironmentEffect, SMT DEF AloneInv, Running
<1>9. ASSUME NEW k \in Conns, AcceptFails(k) PROVE AloneInv'
    BY <1>9, EnvironmentEffect, SMT DEF AloneInv, Running
<1>10. CASE UNCHANGED vars
    BY <1>10 DEF vars, AloneInv, Running
<1> QED BY <1>1, <1>2, <1>3, <1>4, <1>5, <1>6, <1>7, <1>8, <1>9, <1>10, NextCases, Zenon

\* Every step keeps a connection up that is neither told nor made to go down.
LEMMA UpStep == TypeOK /\ FieldsInv /\ AloneInv /\ UpInv /\ [Next]_vars => UpInv'
<1> SUFFICES ASSUME TypeOK, FieldsInv, AloneInv, UpInv, [Next]_vars PROVE UpInv'
    OBVIOUS
<1>0. attempt \in Nat
    BY MaxConnectsAssumption DEF TypeOK
<1>1. CASE CreateTunnel
  <2>1. UNCHANGED <<accept, term>> /\ attempt' = attempt + 1
    BY <1>1, Zenon DEF CreateTunnel
  <2>2. attempt' > attempt
    BY <1>0, <2>1
  <2>3. device[attempt'] = "none" /\ accept'[attempt'] = "none"
    BY <1>1, <2>1, <2>2, CreateEffect, Zenon DEF FieldsInv
  <2> QED BY <1>1, <2>3, CreateEffect DEF UpInv
<1>2. CASE CallerOnly
    BY <1>2, CallerEffect, Zenon DEF UpInv
<1>3. CASE DeviceUp \/ StartCtrlService
    BY <1>3, StartEffect DEF UpInv
<1>4. CASE StartTermination
  <2>1. term[attempt] = "none"
    BY <1>4, StartEffect DEF FieldsInv
  <2> QED BY <1>4, <2>1, StartEffect DEF UpInv
<1>5. CASE StartMetrics \/ ConnectFails
    BY <1>5, FinishEffect DEF UpInv
<1>6. ASSUME NEW k \in Conns, SendClose(k) \/ ReceiveDisconnected(k) PROVE UpInv'
    BY <1>6, RendezvousEffect DEF UpInv, AloneInv
<1>7. ASSUME NEW k \in Conns, Terminate(k) PROVE UpInv'
    BY <1>7, TerminateEffect, TerminateOrder DEF UpInv, AloneInv
<1>8. ASSUME NEW k \in Conns, DeviceDies(k) PROVE UpInv'
    BY <1>8, EnvironmentEffect DEF UpInv
<1>9. ASSUME NEW k \in Conns, AcceptFails(k) PROVE UpInv'
    BY <1>9, EnvironmentEffect DEF UpInv
<1>10. CASE UNCHANGED vars
    BY <1>10 DEF vars, UpInv
<1> QED BY <1>1, <1>2, <1>3, <1>4, <1>5, <1>6, <1>7, <1>8, <1>9, <1>10, NextCases, Zenon

\* Every step keeps a failed Connect without an open tunnel or device.
LEMMA FailedStep == TypeOK /\ FieldsInv /\ FailedConnectCloses /\ [Next]_vars => FailedConnectCloses'
<1> SUFFICES ASSUME TypeOK, FieldsInv, FailedConnectCloses, [Next]_vars PROVE FailedConnectCloses'
    OBVIOUS
<1>0. attempt \in Nat
    BY MaxConnectsAssumption DEF TypeOK
<1>1. CASE CreateTunnel
  <2>1. attempt' = attempt + 1
    BY <1>1, Zenon DEF CreateTunnel
  <2>2. attempt' > attempt
    BY <1>0, <2>1
  <2>3. result[attempt'] = "none" /\ tunnel[attempt'] = "none" /\ device[attempt'] = "none"
    BY <1>1, <2>2, CreateEffect, Zenon DEF FieldsInv
  <2> QED BY <1>1, <2>3, CreateEffect DEF FailedConnectCloses
<1>2. CASE CallerOnly
    BY <1>2, CallerEffect, Zenon DEF FailedConnectCloses
<1>3. CASE DeviceUp \/ StartCtrlService
    BY <1>3, StartEffect, Zenon DEF FailedConnectCloses
<1>4. CASE StartTermination
    BY <1>4, StartEffect, Zenon DEF FailedConnectCloses
<1>5. CASE StartMetrics \/ ConnectFails
    BY <1>5, FinishEffect DEF FailedConnectCloses
<1>6. ASSUME NEW k \in Conns, SendClose(k) \/ ReceiveDisconnected(k) PROVE FailedConnectCloses'
    BY <1>6, RendezvousEffect, Zenon DEF FailedConnectCloses
<1>7. ASSUME NEW k \in Conns, Terminate(k) PROVE FailedConnectCloses'
    BY <1>7, TerminateEffect DEF FailedConnectCloses
<1>8. ASSUME NEW k \in Conns, DeviceDies(k) PROVE FailedConnectCloses'
    BY <1>8, EnvironmentEffect DEF FailedConnectCloses
<1>9. ASSUME NEW k \in Conns, AcceptFails(k) PROVE FailedConnectCloses'
    BY <1>9, EnvironmentEffect, Zenon DEF FailedConnectCloses
<1>10. CASE UNCHANGED vars
    BY <1>10 DEF vars, FailedConnectCloses
<1> QED BY <1>1, <1>2, <1>3, <1>4, <1>5, <1>6, <1>7, <1>8, <1>9, <1>10, NextCases, Zenon

\* The newest goroutine's own steps: what the fields name is its own, so each
\* step releases what it should.
LEMMA ReleasedOwn ==
    ASSUME TypeOK, FieldsInv, ReleasedInv, NEW k \in Conns, k = attempt, Terminate(k)
    PROVE  ReleasedInv'
<1>1. /\ w.tunnel = k /\ w.device = k /\ w.wgctrlService = k /\ attempt' = k
    BY TerminateEffect DEF FieldsInv, Running
<1>2. /\ tunnel \in Opened /\ device \in Opened /\ accept \in Accepts
      /\ term \in [Conns -> TermSteps] /\ waitsOn \in [Conns -> 0..MaxConnects] /\ k # 0
    BY MaxConnectsAssumption DEF TypeOK, Opened, Accepts, Conns
<1>3. SUFFICES
        /\ term'[k] = "stopWait" => waitsOn'[k] = k
        /\ term'[k] \in {"tunnel", "clear", "device", "signal", "done"} => accept'[k] = "done"
        /\ term'[k] \in {"clear", "device", "signal", "done"} => tunnel'[k] = "closed"
        /\ term'[k] \in {"signal", "done"} => device'[k] = "closed"
    BY <1>1, Zenon DEF ReleasedInv
<1>4. /\ term[k] = "stopWait" => waitsOn[k] = k
      /\ term[k] \in {"tunnel", "clear", "device", "signal", "done"} => accept[k] = "done"
      /\ term[k] \in {"clear", "device", "signal", "done"} => tunnel[k] = "closed"
      /\ term[k] \in {"signal", "done"} => device[k] = "closed"
    BY Zenon DEF ReleasedInv
<1>5. accept[k] # "none"
    BY TerminateEffect DEF TypeOK, Running
<1>6. CASE EnterSelect(k)
    BY <1>2, <1>6 DEF EnterSelect, Step
<1>7. CASE DeviceGone(k)
    BY <1>2, <1>7 DEF DeviceGone, Step
<1>8. CASE StopCtrlService(k)
    BY <1>1, <1>2, <1>5, <1>8 DEF StopCtrlService, Step
<1>9. CASE CtrlServiceStopped(k)
    BY <1>2, <1>4, <1>9 DEF CtrlServiceStopped, Step, Accepts
<1>10. CASE CloseTunnel(k)
    BY <1>1, <1>2, <1>4, <1>10 DEF CloseTunnel, Step, Opened
<1>11. CASE ClearNetwork(k)
    BY <1>2, <1>4, <1>11 DEF ClearNetwork, Step
<1>12. CASE CloseDevice(k)
    BY <1>1, <1>2, <1>4, <1>12 DEF CloseDevice, Step, Opened
<1> QED BY <1>6, <1>7, <1>8, <1>9, <1>10, <1>11, <1>12, Zenon DEF Terminate

\* Every step keeps what the newest goroutine has released so far.
LEMMA ReleasedStep == TypeOK /\ FieldsInv /\ ReleasedInv /\ [Next]_vars => ReleasedInv'
<1> SUFFICES ASSUME TypeOK, FieldsInv, ReleasedInv, [Next]_vars PROVE ReleasedInv'
    OBVIOUS
<1>0. attempt \in Nat
    BY MaxConnectsAssumption DEF TypeOK
<1>1. CASE CreateTunnel
  <2>1. term' = term /\ attempt' = attempt + 1
    BY <1>1, Zenon DEF CreateTunnel
  <2>2. attempt' > attempt
    BY <1>0, <2>1
  <2>3. term'[attempt'] = "none"
    BY <1>1, <2>1, <2>2, CreateEffect, Zenon DEF FieldsInv
  <2> QED BY <2>3 DEF ReleasedInv
<1>2. CASE CallerOnly
    BY <1>2, CallerEffect, Zenon DEF ReleasedInv
<1>3. CASE DeviceUp \/ StartCtrlService
  <2>1. term'[attempt] = "none" /\ attempt' = attempt
    BY <1>3, StartEffect DEF FieldsInv
  <2> QED BY <2>1 DEF ReleasedInv
<1>4. CASE StartTermination
    BY <1>4, StartEffect, Zenon DEF ReleasedInv
<1>5. CASE StartMetrics \/ ConnectFails
    BY <1>5, FinishEffect DEF ReleasedInv
<1>6. ASSUME NEW k \in Conns, SendClose(k) \/ ReceiveDisconnected(k) PROVE ReleasedInv'
    BY <1>6, RendezvousEffect DEF ReleasedInv
<1>7. ASSUME NEW k \in Conns, Terminate(k) PROVE ReleasedInv'
  <2>1. CASE k = attempt
    BY <1>7, <2>1, ReleasedOwn
  <2>2. CASE k # attempt
    BY <1>7, <2>2, TerminateEffect, TerminateOrder DEF ReleasedInv
  <2> QED BY <2>1, <2>2
<1>8. ASSUME NEW k \in Conns, DeviceDies(k) PROVE ReleasedInv'
    BY <1>8, EnvironmentEffect DEF ReleasedInv
<1>9. ASSUME NEW k \in Conns, AcceptFails(k) PROVE ReleasedInv'
    BY <1>9, EnvironmentEffect DEF ReleasedInv
<1>10. CASE UNCHANGED vars
    BY <1>10 DEF vars, ReleasedInv
<1> QED BY <1>1, <1>2, <1>3, <1>4, <1>5, <1>6, <1>7, <1>8, <1>9, <1>10, NextCases, Zenon

-----------------------------------------------------------------------------
(* The theorems.                                                            *)

\* The inductive invariant holds in every reachable state.
LEMMA Invariance == Spec => []IInv
<1>1. Init => IInv
  <2> SUFFICES ASSUME Init PROVE IInv
    OBVIOUS
  <2>1. TypeOK
    <3>1. 0 \in 0..MaxConnects
        BY MaxConnectsAssumption
    <3>2. w \in [{"tunnel", "device", "wgctrlService", "metricsTimer"} -> 0..MaxConnects]
        BY <3>1 DEF Init
    <3> QED BY <3>1, <3>2, Zenon DEF Init, TypeOK, CallerSteps, TermSteps
  <2>2. FieldsInv
    BY DEF Init, FieldsInv, Connecting, Conns
  <2> QED BY <2>1, <2>2 DEF Init, IInv, AloneInv, Running, UpInv, FailedConnectCloses, ReleasedInv
<1>2. IInv /\ [Next]_vars => IInv'
    BY TypeStep, FieldsStep, AloneStep, UpStep, FailedStep, ReleasedStep, Zenon DEF IInv
<1> QED BY <1>1, <1>2, PTL DEF Spec

\* Type correctness: a termination goroutine always has a device and a
\* listener to shut down.
THEOREM TypeCorrect == Spec => []TypeOK
<1>1. IInv => TypeOK
    BY Zenon DEF IInv
<1> QED BY <1>1, Invariance, PTL

\* A Connect that returned an error left no tunnel and no device open: the
\* promise of Connect's deferred function.
THEOREM FailureReleases == Spec => []FailedConnectCloses
<1>1. IInv => FailedConnectCloses
    BY Zenon DEF IInv
<1> QED BY <1>1, Invariance, PTL

\* An established connection stays up until its device dies or Disconnect is
\* called, unless goroutines were left or the metrics timer did not start.
THEOREM ConnectionKept == Spec => []EstablishedStaysUp
<1>1. IInv => EstablishedStaysUp
  <2> SUFFICES ASSUME IInv, NEW k \in Conns, result[k] = "ok", k = attempt,
                      k \notin rushed \cup deferred \cup died, term[k] \in {"start", "select"}
               PROVE  tunnel[k] = "open" /\ device[k] = "open" /\ accept[k] \in {"accepting", "failed"}
    BY Zenon DEF EstablishedStaysUp
  <2>1. device[k] # "none" /\ accept[k] # "none" /\ accept[k] \in {"none", "accepting", "failed", "done"}
    BY DEF IInv, TypeOK
  <2> QED BY <2>1 DEF IInv, UpInv
<1> QED BY <1>1, Invariance, PTL

\* A goroutine of the newest connection that signals disconnected has closed
\* its tunnel, its device and its listener.
THEOREM SignalReleases == Spec => []SignalMeansReleased
<1>1. IInv => SignalMeansReleased
    BY DEF IInv, ReleasedInv, SignalMeansReleased
<1> QED BY <1>1, Invariance, PTL

=============================================================================
