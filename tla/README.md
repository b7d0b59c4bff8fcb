# mycloudspace-common in TLA+

TLA+ models of the concurrent parts of `mycloudspace-common`, the TLC
configurations that check them on small instances, and TLAPS proofs of the main
safety properties for every instance. `PROJECT.json` maps each definition to the
lines it models and lists runs, mutants, findings, hazards and theorems.

    tlc -config MonitorService_safety.cfg MCMonitorService
    tlapm MonitorServiceProofs.tla

## The system

| part | source | module | status |
|---|---|---|---|
| counters | `monitors/counter.go` | `Counter` | modelled |
| monitor service | `monitors/monitor.go` | `MonitorService`, `EventOutbox` | modelled, proved |
| WireGuard client (unix) | `vpn/wireguard_client_unix.go` | `WireguardClient` | modelled, proved |
| UAPI control service | `vpn/wireguard_ctrl.go`, `wireguard_ctrl_unix.go` | `WireguardClient` | start, accept, stop |
| node API client | `mycsnode/api_client.go` | `ApiClient` | modelled, proved |
| port mapper | `network/port_mapper.go` | `PortMapper` | modelled, proved |
| cloud events | `events/events.go` | `EventPublisher`, `EventOutbox` | modelled, proved |
| Tailscale daemon | `tailscale/tailscale_daemon.go` | `TailscaleDaemon` | all but its options and `Cleanup`; proved |
| device status | `tailscale/wireguard_device.go` | `DeviceParser`, `LineScanner`, `TailscaleDaemon` | all but its text; proved |
| VPN service and configurations | `vpn/service.go`, `vpn/*config*.go` | `WireguardConfig`, `LineScanner`, `VpnSession` | all but `Save`; proved |
| metrics, windows client | `vpn/wireguard_client.go`, `wireguard_client_windows.go` | `VpnSession`, `Counter` | modelled, proved |
| OpenVPN stubs, headscale types, mock node | | | no state to model |

The parts meet in few places: the VPN clients feed byte counts into counters,
the monitor service posts the counters as cloud events, and the VPN service and
the Tailscale daemon reach a node through the API client. All of them use
`utils.ExecTimer`, a library: it calls a callback, waits for the time the
callback returned, and calls it again; it never runs two calls at once.

## Modules

**Counter** is a record per counter and an operator per method. **MonitorService**
has the callers, the timer callback, the goroutine in `Stop()` and the posting
goroutines as processes. Method calls are single steps, as each runs under one
mutex. A collection is several: `BeginCollect` takes `ms.lock`,
`CollectCounter` takes one snapshot, `EndCollect`/`EndStopCollect` queue the
payload, hand the queue to a goroutine and unlock. So counters change between
two snapshots of a payload and the queue does not. Payloads are numbers, as the
code holds pointers. `SendDone`, `SendError`, `SendPartial` are the outcomes of a
post, `Requeue` the put back under the lock. `StopWaits` and `LostReplies` are
what the repository does not settle: whether stopping an `ExecTimer` waits for
a running callback, and whether an error can follow an accepted post.

**EventOutbox** is what the service promises: what is submitted is held until
upstream accepted it.

**WireguardClient** numbers the calls of `Connect`; tunnel, device, listener,
termination goroutine and metrics timer `k` are those of call `k`, while `w` has
the client's fields, which are shared by all of them. The channels `close` and
`disconnected` are unbuffered: a send and its receive are one action. Each
statement of `Connect` that can fail is a step, and `CloseDeferred` is its
deferred function. A field is assigned in the step of the call that comes before
it: the control service is made in `DeviceUp`, and `StartCtrlService` only starts
it.

**ApiClient** follows `Authenticate` from mutex to mutex, through the points at
which it reads what `Initialize` may replace under another mutex; `Initialize`
itself sets one field at a step. Time is what is left until a point in time, in
periods of the 10ms ticker. An exchange of keys is an identity, so that a field
can be told to be of another exchange.

**PortMapper** has the discovery's outcome as an input, the leases as the router
counts them (whole seconds, rounded down), and the refresh as a loop under the
mutex that `AddPersistantPortMapping` takes only after it called the router. A
mapping may be asked for more than once, and is then in the list as often; asked
for before `Connect` found a router it is a panic on the nil client
(`AddWithoutClient`).

**LineScanner** is the loop that both parsers of the program are.
**DeviceParser** is the one of a WireGuard device's status: an operator per
method of `deviceParser`, next to `IpcGet`, the lines a device writes, and
`Shows`, whether what was read shows the device. **TailscaleDaemon** composes it with
the daemon: `Start` and the calls of `run` one by one (a result is assigned in
one step and tested in another, as the goroutine of the IPN server assigns the
same `err`), the attempts of `tryEngine` with what each has open, the node check
with its mutex and its recovered panics, a goroutine per ping, `Stop`, and the
pipe through which the status is read some lines at a time.

**WireguardConfig** has the text of a configuration as a sequence of lines: `Data`
writes it from a node's answer, `newWireguardConfigFromTarget` parses it, and
`PeerSections`, `DescribedPeer` and `Unsupported` say without a loop what it should
get. The parser converts what it reads, and so does the model: `ParseCIDR` clears
the bits of an address that are not the network's (`AddressBits` is how many there
are), `ResolveUDPAddr` looks a host up in `Addresses` and fails for one that is not
there, and `Duration` takes a number of seconds for one of nanoseconds.
**VpnSession** composes it with `Counter`: a configuration from a node or a
bastion, the windows client's `Connect` and `Disconnect`, the metrics timer of
either client (reading the device and setting the counters are two steps), the
monitor service collecting those counters, and the tunnel. `Delete` of a static
configuration, or one whose `Disconnect` fails, leaves the session at the node.

**EventPublisher** has the functions of `events.go` as operators over sequences,
and around them a caller that publishes batches and keeps what failed, which is
what the `Sender` of the monitor service is for. It is shown to implement the
same `EventOutbox` as `MonitorService`: the promise one makes is the assumption
the other needs.

Names are the source's, misspellings included. Left out everywhere: texts,
labels, logging, addresses of mappings, the cryptography. A definition called a
faulty variant is used by no specification: put in place of the definition after
it, it shows which property notices (`mutants` in `PROJECT.json`).

## What TLC checks

Passing runs:

| run | bounds | shows |
|---|---|---|
| `MonitorService_safety` | 2 counters, 3 calls, 3 payloads, 2 goroutines | no payload lost, held or accepted twice; counts and order kept; queue bounded; `Stop` leaves nothing |
| `MonitorService_live` | 1 counter, 3 calls, 2 goroutines, lost replies | implements `EventOutbox`; `Stop` returns; a recovering upstream gets everything |
| `WireguardClient_reconnect` | 2 connections | failed attempts close what they opened, established ones stay up, shutting down completes and releases, also when the device dies |
| `ApiClient_renewal` | 1 timer, 1 caller, 1 waiter, 1 `Initialize`, keys shorter and longer than the margin | exchanges are not mixed; renewal before expiry; authenticated again and again; `WaitForAuth` returns |
| `PortMapper` | 2 mappings, one of them asked for twice, 2 routers that may refuse, 2 `Connect`s, every kind of discovery | no lease lapses that was not refused; mappings come back; no ambiguous router |
| `TailscaleDaemon` | 2 names of tunnels, 1 peer to ping, a device of 2 peers and 24 lines read 12 at a time, one bad line | `Start` is truthful; attempts close what they opened; `Stop` waits for the server and returns; pings and the status end; the status is the device |
| `VpnSession` | every text of up to 4 of 11 lines, 6 answers of a node, addresses of 2 bits, 2 tunnels, 2 bytes | the parser does what the text says, conversions included; a failed `Connect` closes; counts shown are counts read |
| `EventPublisher` | 5 events, any of which may not marshal | errors are those of their events and about them; order; nothing lost or repeated while all marshal |

The bounds let the cases happen: two goroutines are needed for overlapping
posts and a third payload for one collected while both are out; a second
connection for a goroutine left over from the first; three exchange identities,
as the fields refer to two at most when a new one begins. In `PortMapper` a mapping
added at the start of a round waits for it (`MaxRound` = 1), an interval (3) and
the next round (1): 5 ticks of a lease of 6, so that the check is tight, and
`MarginAssumption` says so for any instance. `MaxKept` bounds the length of the
list, which the code does not. A round
that takes longer than the minute the code adds would break the property;
`MaxRound` is that assumption. `MaxPayloads` does not cut off the liveness run:
of its three calls one registers the counter, and zero snapshots are ignored.
Both monitor runs have a timer that waits for its callback (`StopWaits`); the
proofs cover one that does not, and any number of timers of the API client. A
status of 24 lines in two reads splits a peer; its bad lines are one with a value
that is parsed and an endpoint, whose value is not.
Four lines hold two peer sections with an attribute each, or a section that ends
one; the answers of a node give the longer texts. With 2 bits an address can be
other than the first of its network, also of the network of all, and there is a
host that does not resolve. A second tunnel is what makes
a count smaller than the one before, and one direction is enough as the counters
share nothing but the timer (the invariants also hold with two, in 24 million
states). Five events allow two retried batches behind each other.
Deadlock checking is off where the bounds, or a panic, end a behaviour.

Runs that show the code and its own words disagree:

| run | what happens |
|---|---|
| `MonitorService_delete` | deleting a counter that is not registered drops the last one |
| `WireguardClient_disconnect` | without a connection `Disconnect` blocks before its timeout starts |
| `WireguardClient_cleanup` | the network is cleared while `Connect` still configures it |
| `ApiClient_timeout` | the 10 seconds of `WaitForAuth` are 10 microseconds |

More is visible in the models and has no run, as no line of the repository says
what should happen, or only of a neighbouring case:

- A counter that is not cumulative is reported in full at each collection, while
  `monitor_test.go` sums the reports; what the last post of `Stop` fails to
  deliver is not posted "in next cycle". While upstream is down the queue has no
  limit.
- On both platforms a metrics timer that fails to start closes a connection that
  `Connect` returns as established. After a reconnect the first report of the byte
  counters is negative by what the last tunnel had (`ShowsWhatWasRead` says what
  is shown). `metricsError` is never cleared. A control client that fails leaves
  the UAPI listener, a service that does not install or uninstall its file, and a
  failure after `service.Connect` the session at the node.
- The flag of the API client stays set when `Initialize` replaces the client.
- A network with one router gives `ErrNoRoutersFound`: the switch of `Connect` asks
  for more than one client of a kind. The error of the refresh timer's `Start` is
  dropped.
- `TailscaleDaemon.Stop` holds the mutex that the node check waits for. If stopping
  an `ExecTimer` waits for its callback, both wait for ever; `StopDone` shows that
  this is the only way not to return. A ping that is cancelled within its second
  is retried for ever (`GoroutinesEnd`), a status that is not of pairs leaves its writer
  behind (the same), a failing device is shown as an empty one, and a
  handshake on a full second as none, where the comment at `wireguard_device.go:228`
  speaks of both fields being 0. The last two are the exceptions that
  `StatusIsTheDevice` names.
- An endpoint with an IPv6 address, in brackets, is taken for a section of the
  configuration: the peer ends there, and no error is returned. The number of
  `PersistentKeepalive` becomes a duration of nanoseconds. A network of 0 bits that
  is not written 0.0.0.0/0 is routed like it, and does not count as the default
  route. `ConfigIsTheAnswer` excludes the first and, with `ConfigIsTheText`, states
  the others as they are.
- An event that does not marshal shifts the results of those after it.

**Fairness.** Goroutines that can run do (WF). Waiting for a mutex is SF, as Go's
mutex hands itself to a waiter that starves. Timers fire and requests return,
with whatever outcome. Where a property needs the other side to recover
(`RecoveringSpec`, `AnsweredSpec`, `PortMapper!FairSpec`) it is a separate SF on
the outcome; so is reading the device in `VpnSession!FairSpec` and a reply of
successes in `EventPublisher!FairSpec`. Nobody has to call anything and devices
need not die; the IPN server has to return only once its context is cancelled.

## What is proved

For all values of the constants, from the `ASSUME`s of the modules only: a
positive `collectCount` and length of a buffer, natural bounds, distinct
identities, a name of a tunnel to try, `MarginAssumption`, and what is read having
its form. That is, a device has fields of their types and a value that does not
parse is none of them (`DevicesAssumption`, `GarbledAssumption`), a text is a list of
lines (`TextsAssumption`), and a node's answer has no key or subnet that does not
parse (`AnswersAssumption`).

- **MonitorServiceProofs**: types, `Accounting` (which is `NoPayloadLost`,
  `HeldOnce` and `AcceptedOnce`), the refinement of `EventOutbox`, `StopQuiesces`,
  `QueueWithinCollectCount`, `InCollectionOrder`, `GetIsCount` and
  `NothingMiscounted`. The types need `LockInv` (who collects holds the
  lock, and there is room for one more payload). The three accounting invariants
  are inductive only together: that a put back makes no duplicate needs
  `HeldOnce`, that a new payload is new needs `NoPayloadLost`. Each action's
  effect on `Held` is a lemma, used again for the refinement. `StopInv` says what
  `Stop` has already waited for at each of its steps. `OrderInv` adds that at most
  one goroutine works until posts overlap, `GetInv` that a counter that is not
  cumulative has nothing moved over. `NothingMiscounted` is about sums over what is
  received and what is held, which change with every post. `MovedInv` is not: what
  was moved over from a counter is the sum over all payloads ever built and the
  snapshots being taken. It changes with collections only, and `Accounting` divides
  the payloads into those received and those held.
- **WireguardClientProofs**: types, `FailedConnectCloses`, `EstablishedStaysUp` and
  `SignalMeansReleased`. `FieldsInv` has what the shared fields point to: while
  `Connect` runs, and as long as its goroutine is the newest, to its own attempt.
  With it a goroutine of an earlier attempt can close what belongs to the newest,
  but nothing can make the newest close something else, so
  `SignalMeansReleased` needs no proviso about goroutines left over;
  `EstablishedStaysUp` does (`AloneInv`).
- **TailscaleDaemonProofs**: types (with who holds the mutex, and what an attempt
  has open), `StartIsTruthful`, `StopWaitsForServer` and `StatusIsTheDevice`.
  `StartInv` goes through the calls of `run`: a failure that the server's
  goroutine overwrites is taken for a success, and then `Start` ends in a panic on
  the nil result, at once or (of the store) in the next call, and returns nothing.
  The status is proved in three parts. `ReadsBack`: what any device writes is
  parsed as that device, peer by peer and but for handshakes on a full second. It
  goes up from what one line does, through the lines of one peer, to all peers in
  turn; `Clean` is what is known between two lines, the device so far and no
  error. `AnswerParsed` adds a line that is not as the device should have written
  it, anywhere: up to it the parser is where it should be, the line is noticed
  unless it is an endpoint, and an error is kept from then on. `StatusInv`, the
  inductive invariant, reduces the reads to that: what has been parsed so far, and
  the rest of the lines after it, give what all the lines do in one go, and a
  parser that has left its loop no longer changes.
- **VpnSessionProofs**: types, `NothingLeftBehind`, `ShowsWhatWasRead`,
  `ConfigIsTheText` and `ConfigIsTheAnswer`.
  `CountInv` says that what a callback has read and not recorded yet is of a
  tunnel that was installed, and no more than went through it if that is the one
  at hand. `ContentsInv` says that a configuration was parsed from the text at hand,
  and that this is the one written of the node's answer. The rest is about the
  parser alone: `ParserIsRight`, that after any number of lines it has what the
  sections among them describe, and `AnswerSurvives`, which follows the lines that
  `Data` writes, up to the endpoint if that does not resolve (`HostUnknown`) and to
  the end otherwise (`HostKnown`).
- **EventPublisherProofs**: `ErrorsAreTheirs`, `InOrder` and the refinement of
  `EventOutbox`, for batches of any length and any events that do not marshal.
  `Appended`, the loop that the functions of `events.go` have in common, is shown
  to return the values kept, in their order and no other. The batch is older than
  what is pending (`OrderInv`), a result is about the input at its place
  (`TypeInv`), and until an event does not marshal those held
  and those accepted are all there are (`HeldInv`).
- **ApiClientProofs**: types with mutual exclusion, `ExchangesApart`, which is
  `OneExchange` and `KeyOfItsNode`, and `RenewalDue`. `AuthInv` adds that the flag is
  down while the mutex is held (`SetCrypt` changes one of three fields) and that a
  request was sent to a node. `RenewalDue` is inductive given that: a call that
  fails sets its timer anew, but leaves the flag down.
- **PortMapperProofs**: types (with a round that renews only what is in the list,
  whether or not that has repetitions), `LeaseKept` and `RouterUnambiguous`.
  `LeaseKept` is not inductive: `Leases` strengthens it to the time that has to be
  left of a lease (`Due`), which is until the end of the round for a mapping still
  to be renewed in it, and until the end of the next one for the others. A mapping
  that waits for the mutex is in neither, and needs the whole of the margin or an
  interval that has just begun. From `MarginAssumption`, that a lease in whole
  seconds outlives an interval and two rounds, for every interval and length of a
  round. `RouterUnambiguous` holds for any answers of any number of clients.

What a loop over a list computes is proved by induction on its rounds, in
**LoopTheorems**: a set of numbers that has 0, and with each round the next one, has
all of them (`AllRounds`, from the least number that is not in it), and so the
function that a recursive definition names exists and is the one it describes
(`LoopExists`). `EventPublisherProofs` uses it for `Appended`,
`MonitorServiceProofs` for `Total`, and the other two that extend it for the parsers
and for `Joined`, lists put behind each other.

Only model-checked is liveness, which is out of the prover's reach, as is `ENABLED`:
`StopReturns` and `EventuallyDelivered` of the monitor service,
`TerminationCompletes`, `StaysAuthenticated`, `WaitReturns`, `Restored`, `StopDone`,
`GoroutinesEnd`, `CountsShown` and `Delivered`. Every other property of a passing
run is proved. The runs that show a disagreement prove it by their behaviour.

## Assumptions about code outside the repository

`ExecTimer` as above; a stopped one finishes its call, and one that is given a
negative time, as `AuthCallback` returns it for a key shorter than its margin, calls
again at once (`Max0`). A post, a request to a
node and a call of the router may fail in any way their types allow; a failed
list of events is in the order of the batch. A node can answer only what is
encrypted for it. Closing a listener makes `Accept` fail. Callers start the
monitor service once before stopping it.
`wireguard.exe` installs no second service for a tunnel, and does not uninstall
one that is not there. An engine that fails to start closes what it was given
(`NewEngine`): `tryEngine` does not, and hands tunnel, router and DNS over to it.
Upstream answers with a result for each input. A failed event that `Sender` returns is
one it was given, with its data, and a payload, of strings and numbers,
marshals and unmarshals: so the branches of `monitor.go:175-180` and `:202-206` for
the contrary are not in `PostEvents` and `SendPartial`.

## Not modelled

- `wireguardConfig.Save`, the texts of `StatusText` and `WireguardStatusText`, the QR
  code, `Cleanup` and the options of the daemon: output, or values handed on to a
  library, with no state of their own.
- `wireguard_ctrl_windows.go`: the accept loop of the unix service without the
  select on its error.
- The OpenVPN client, `headscale.go` and `auth.go`: stubs and type declarations.
  `test/mocks/node.go` plays the node in tests.
- The search for `wireguard.exe` at start-up: without it there is no client.
- `AddPortMapping` keeps an address with a mapping, which no operation looks at.
- Data races (`AddAttribute` during marshalling, `Crypt()` without the mutex) have
  no defined outcome to state a property of. The one on `err` in
  `TailscaleDaemon.run` has, and is modelled.
