------------------------------ MODULE PortMapper ------------------------------
(***************************************************************************)
(* Port mappings on the router of the local network                        *)
(* (network/port_mapper.go): Connect finds the router, a mapping has a     *)
(* lease on it, and a timer renews the leases of the persistent mappings.  *)
(*                                                                         *)
(* Time is counted in ticks, TicksPerSecond of them to the second in which *)
(* the router counts a lease.  What remains of a lease, or until the timer *)
(* fires, is kept instead of points in time.                               *)
(*                                                                         *)
(* The router, the discovery of routers and utils.ExecTimer are not part   *)
(* of the repository.  A timer that is stopped finishes the call it is in; *)
(* starting one that runs has no effect but an error.                      *)
(***************************************************************************)
EXTENDS Integers, Sequences, FiniteSets, Functions

CONSTANTS
    Mappings,       \* the mappings callers ask to keep
    Temporary,      \* the mappings callers ask for with a timeout
    Discovered,     \* what discovery may find: a record of three sequences
                    \* of what each client answers for its external address
    noAnswer,       \* the client returns an error
    noAddress,      \* the client returns something that is not an address
    pRefresh,       \* the refresh interval, in ticks
    Minute,         \* what a lease has above it
    TicksPerSecond,
    Timeouts,       \* timeouts of temporary mappings, a second or more
    MaxRound,       \* bound: ticks that one run of the refresh takes
    MaxConnects,    \* bound: calls of Connect
    MaxKept,        \* bound: mappings that are kept, with repetitions
    Refuses         \* the router may fail a call

ASSUME TimesAssumption ==
    /\ {pRefresh, Minute, MaxRound, MaxConnects, MaxKept} \subseteq Nat
    /\ TicksPerSecond \in Nat \ {0}
    /\ Timeouts \subseteq Nat
    /\ Refuses \in BOOLEAN

ASSUME MappingsAssumption == Mappings \cap Temporary = {}

ASSUME DiscoveredAssumption ==
    \A found \in Discovered : \A answers \in {found.ip1, found.ip2, found.ppp1} :
        answers \in Seq(Range(answers))

VARIABLES
    upnpClient,     \* external address of the router in use, nil at first
    named,          \* history: the addresses the clients of its kind named
    connects,       \* calls of Connect
    timer,          \* of the refresh: whether it runs, ticks until it fires
    round,          \* refreshPortMappings: whether it holds mx, the mappings it
                    \* has yet to do, ticks it has taken
    pPortMappings,
    adding,         \* AddPersistantPortMapping calls between the router and mx
    lease,          \* ticks left of each mapping on the router in use
    covered,        \* history: mappings the router was asked for, and did not
                    \* refuse the last time, since it was taken and the timer
                    \* started
    panicked

vars == <<upnpClient, named, connects, timer, round, pPortMappings, adding, lease,
          covered, panicked>>

nil == "nil"
Idle == [active |-> FALSE, todo |-> <<>>, took |-> 0]

\* uint32(timeout / time.Second), in ticks.
LeaseDuration(timeout) == (timeout \div TicksPerSecond) * TicksPerSecond

\* Faulty variant of pPortMappingTimeout: no longer than the interval.
TimeoutOfInterval == pRefresh

pPortMappingTimeout == pRefresh + Minute

\* A lease outlives the interval and two rounds, and there is an interval.
ASSUME MarginAssumption ==
    pRefresh > 0 /\ LeaseDuration(pRefresh + Minute) > pRefresh + 2 * MaxRound

Init ==
    /\ upnpClient = nil
    /\ named = {}
    /\ connects = 0
    /\ timer = [on |-> FALSE, left |-> 0]
    /\ round = Idle
    /\ pPortMappings = <<>>
    /\ adding = {}
    /\ lease = [m \in Mappings \cup Temporary |-> 0]
    /\ covered = {}
    /\ panicked = FALSE

-----------------------------------------------------------------------------
(* Connect.                                                                 *)

\* Faulty variant of Agree: starts at the third client.
AgreeFromThird(answers) ==
    \A i \in 3 .. Len(answers) : answers[i] \in {answers[1], noAnswer}

\* The other clients that answer name the same external address.
Agree(answers) ==
    \A i \in 2 .. Len(answers) : answers[i] \in {answers[1], noAnswer}

\* The clients that the switch takes: of the first kind with more than one.
Clients(found) ==
    IF Len(found.ip1) > 1 THEN found.ip1
    ELSE IF Len(found.ip2) > 1 THEN found.ip2
    ELSE IF Len(found.ppp1) > 1 THEN found.ppp1
    ELSE <<>>

\* What Connect returns for what was found.
Route(found) ==
    IF Clients(found) = <<>> THEN "ErrNoRoutersFound"
    ELSE LET answers == Clients(found)
         IN  CASE answers[1] = noAnswer -> "error"
               [] answers[1] # noAnswer /\ ~Agree(answers) -> "ErrMultipleRoutesFound"
               [] OTHER -> nil

DiscoveryFails ==
    /\ ~panicked
    /\ connects < MaxConnects
    /\ connects' = connects + 1
    /\ UNCHANGED <<upnpClient, named, timer, round, pPortMappings, adding, lease,
                   covered, panicked>>

\* The first client is taken.  An address that does not parse panics, with the
\* client already set.  The error of starting the timer is dropped.
TakeRouter(answers) ==
    /\ upnpClient' = answers[1]
    /\ named' = Range(answers) \ {noAnswer}
    /\ lease' = IF answers[1] = upnpClient THEN lease ELSE [m \in DOMAIN lease |-> 0]
    /\ covered' = IF answers[1] = upnpClient /\ timer.on THEN covered ELSE {}
    /\ panicked' = (answers[1] = noAddress)
    /\ timer' = IF answers[1] = noAddress \/ timer.on THEN timer
                ELSE [on |-> TRUE, left |-> 0]

Connect ==
    /\ ~panicked
    /\ connects < MaxConnects
    /\ connects' = connects + 1
    /\ \E found \in Discovered :
          \/ /\ Route(found) # nil
             /\ UNCHANGED <<upnpClient, named, timer, lease, covered, panicked>>
          \/ /\ Route(found) = nil
             /\ TakeRouter(Clients(found))
    /\ UNCHANGED <<round, pPortMappings, adding>>

Close ==
    /\ ~panicked
    /\ timer.on
    /\ timer' = [timer EXCEPT !.on = FALSE]
    /\ UNCHANGED <<upnpClient, named, connects, round, pPortMappings, adding, lease,
                   covered, panicked>>

-----------------------------------------------------------------------------
(* Mappings.                                                                *)

\* The call to the router for mapping m: ok is whether it sets the lease.
AddPortMapping(m, timeout, ok) ==
    /\ ok \/ Refuses
    /\ lease' = IF ok THEN [lease EXCEPT ![m] = LeaseDuration(timeout)] ELSE lease
    /\ covered' = IF ok THEN covered \cup {m} ELSE covered \ {m}

AddTemporary(m) ==
    /\ ~panicked
    /\ upnpClient # nil
    /\ \E timeout \in Timeouts, ok \in BOOLEAN : AddPortMapping(m, timeout, ok)
    /\ UNCHANGED <<upnpClient, named, connects, timer, round, pPortMappings, adding,
                   panicked>>

\* Before Connect took a router there is no client, and the call panics.
AddWithoutClient ==
    /\ ~panicked
    /\ upnpClient = nil
    /\ panicked' = TRUE
    /\ UNCHANGED <<upnpClient, named, connects, timer, round, pPortMappings, adding, lease,
                   covered>>

\* AddPersistantPortMapping calls the router without mx; if that fails, it
\* returns, and the mapping is not kept for this call.  Nothing looks whether it
\* is kept already.  (Bound: one call at a time for each mapping.)
AddPersistantPortMapping(m) ==
    /\ ~panicked
    /\ upnpClient # nil
    /\ m \notin adding
    /\ Len(pPortMappings) + Cardinality(adding) < MaxKept
    /\ \E ok \in BOOLEAN :
          /\ AddPortMapping(m, pPortMappingTimeout, ok)
          /\ adding' = IF ok THEN adding \cup {m} ELSE adding
    /\ UNCHANGED <<upnpClient, named, connects, timer, round, pPortMappings, panicked>>

\* Then it takes mx, which a refresh may hold, and appends the mapping, once more
\* if it was asked for before.
Persist(m) ==
    /\ ~panicked
    /\ m \in adding
    /\ ~round.active
    /\ pPortMappings' = Append(pPortMappings, m)
    /\ adding' = adding \ {m}
    /\ UNCHANGED <<upnpClient, named, connects, timer, round, lease, covered, panicked>>

-----------------------------------------------------------------------------
(* refreshPortMappings, called by the timer.                                *)

BeginRefresh ==
    /\ ~panicked
    /\ timer.on
    /\ timer.left = 0
    /\ ~round.active
    /\ round' = [active |-> TRUE, todo |-> pPortMappings, took |-> 0]
    /\ UNCHANGED <<upnpClient, named, connects, timer, pPortMappings, adding, lease,
                   covered, panicked>>

\* Faulty variant of RefreshNext: the loop leaves out the last mapping.
RefreshAllButLast ==
    /\ ~panicked
    /\ round.active
    /\ round.todo # <<>>
    /\ \/ /\ Len(round.todo) > 1
          /\ \E ok \in BOOLEAN : AddPortMapping(Head(round.todo), pPortMappingTimeout, ok)
       \/ /\ Len(round.todo) = 1
          /\ UNCHANGED <<lease, covered>>
    /\ round' = [round EXCEPT !.todo = Tail(@)]
    /\ UNCHANGED <<upnpClient, named, connects, timer, pPortMappings, adding, panicked>>

\* An error is logged and the loop goes on.
RefreshNext ==
    /\ ~panicked
    /\ round.active
    /\ round.todo # <<>>
    /\ \E ok \in BOOLEAN : AddPortMapping(Head(round.todo), pPortMappingTimeout, ok)
    /\ round' = [round EXCEPT !.todo = Tail(@)]
    /\ UNCHANGED <<upnpClient, named, connects, timer, pPortMappings, adding, panicked>>

\* Faulty variant of EndRefresh: the next round is as late as the lease is long.
EndRefreshLate ==
    /\ ~panicked
    /\ round.active
    /\ round.todo = <<>>
    /\ round' = Idle
    /\ timer' = [timer EXCEPT !.left = pPortMappingTimeout]
    /\ UNCHANGED <<upnpClient, named, connects, pPortMappings, adding, lease, covered, panicked>>

EndRefresh ==
    /\ ~panicked
    /\ round.active
    /\ round.todo = <<>>
    /\ round' = Idle
    /\ timer' = [timer EXCEPT !.left = pRefresh]
    /\ UNCHANGED <<upnpClient, named, connects, pPortMappings, adding, lease, covered, panicked>>

-----------------------------------------------------------------------------
Before(n) == IF n > 0 THEN n - 1 ELSE 0

\* A tick passes when nothing is due at once: a goroutine that waits for mx
\* gets it when it is free, the timer fires on time, and a round takes at
\* most MaxRound.
Tick ==
    /\ ~panicked
    /\ round.active => round.took < MaxRound
    /\ ~round.active => adding = {} /\ (timer.on => timer.left > 0)
    /\ lease' = [m \in DOMAIN lease |-> Before(lease[m])]
    /\ timer' = IF round.active THEN timer ELSE [timer EXCEPT !.left = Before(@)]
    /\ round' = IF round.active THEN [round EXCEPT !.took = @ + 1] ELSE round
    /\ UNCHANGED <<upnpClient, named, connects, pPortMappings, adding, covered, panicked>>

Next ==
    \/ DiscoveryFails
    \/ Connect
    \/ Close
    \/ AddWithoutClient
    \/ \E m \in Temporary : AddTemporary(m)
    \/ \E m \in Mappings : AddPersistantPortMapping(m)
    \/ \E m \in Mappings : Persist(m)
    \/ BeginRefresh
    \/ RefreshNext
    \/ EndRefresh
    \/ Tick

Spec == Init /\ [][Next]_vars

\* The router does not refuse a mapping for ever.
RefreshOf(m) == RefreshNext /\ Head(round.todo) = m /\ lease'[m] > 0

\* The goroutines run, time passes, and the router recovers.
FairSpec ==
    /\ Spec
    /\ WF_vars(Tick) /\ WF_vars(BeginRefresh) /\ WF_vars(RefreshNext) /\ WF_vars(EndRefresh)
    /\ \A m \in Mappings : SF_vars(RefreshOf(m)) /\ WF_vars(Persist(m))

-----------------------------------------------------------------------------
(* Properties.                                                              *)

\* Type invariant: the fields hold what the code puts there, a round renews only
\* what is in the list, and the timer waits for no longer than the interval.
TypeOK ==
    /\ connects \in 0 .. MaxConnects
    /\ timer \in [on : BOOLEAN, left : 0 .. pRefresh]
    /\ round \in [active : BOOLEAN, todo : Seq(Mappings), took : 0 .. MaxRound]
    /\ Range(round.todo) \subseteq Range(pPortMappings)
    /\ pPortMappings \in Seq(Mappings)
    /\ adding \in SUBSET Mappings
    /\ lease \in [Mappings \cup Temporary -> Nat]
    /\ covered \subseteq Mappings \cup Temporary
    /\ panicked \in BOOLEAN

\* A persistent mapping that the router did not refuse the last time never
\* lapses while the timer runs: not when it is added during a refresh, whose
\* mutex it has to wait for and which does not renew it, nor at the next refresh,
\* a whole interval and a round later, nor when it is in the list more than once.
\* (A mapping from before Connect took another router, or started the timer
\* again, is due for the next round.)
LeaseKept ==
    timer.on => \A m \in Range(pPortMappings) \cap covered : lease[m] > 0

\* Connect takes a router only when all clients of its kind that answered name
\* its external address; otherwise it returns ErrMultipleRoutesFound and the
\* router of an earlier Connect stays.  (Clients of other kinds are not asked.)
RouterUnambiguous ==
    upnpClient # nil => named = {upnpClient}

\* A persistent mapping is on the router again and again while the timer
\* keeps running, whatever the router refused before.
Restored ==
    \A m \in Mappings :
        <>[](timer.on /\ m \in Range(pPortMappings) /\ ~panicked) => []<>(lease[m] > 0)
=============================================================================
