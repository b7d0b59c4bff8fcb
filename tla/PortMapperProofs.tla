--------------------------- MODULE PortMapperProofs ---------------------------
(***************************************************************************)
(* Proofs about PortMapper, for any mappings, discovery, interval, lease   *)
(* and length of a round that MarginAssumption allows.                     *)
(***************************************************************************)
EXTENDS PortMapper, TLAPS

-----------------------------------------------------------------------------
(* Sequences and durations.                                                 *)

\* Appending to the list adds the element to its range.
LEMMA RangeOfAppend ==
    ASSUME NEW S, NEW s \in Seq(S), NEW x \in S
    PROVE  Range(Append(s, x)) = Range(s) \cup {x}
<1>1. /\ Append(s, x) \in Seq(S) /\ Len(Append(s, x)) = Len(s) + 1
      /\ \A i \in 1 .. Len(s) : Append(s, x)[i] = s[i]
      /\ Append(s, x)[Len(s) + 1] = x
    OBVIOUS
<1>2. DOMAIN Append(s, x) = 1 .. (Len(s) + 1) /\ DOMAIN s = 1 .. Len(s) /\ Len(s) \in Nat
    BY <1>1
<1>3. ASSUME NEW y \in Range(Append(s, x)) PROVE y \in Range(s) \cup {x}
  <2>1. PICK i \in 1 .. (Len(s) + 1) : y = Append(s, x)[i]
    BY <1>2, <1>3 DEF Range
  <2>2. CASE i = Len(s) + 1
    BY <1>1, <2>1, <2>2
  <2>3. CASE i \in 1 .. Len(s)
    BY <1>1, <1>2, <2>1, <2>3 DEF Range
  <2>4. QED
    BY <1>2, <2>2, <2>3
<1>4. ASSUME NEW y \in Range(s) \cup {x} PROVE y \in Range(Append(s, x))
  <2>1. CASE y = x
    <3>1. Len(s) + 1 \in DOMAIN Append(s, x)
        BY <1>2
    <3>2. QED
        BY <1>1, <2>1, <3>1 DEF Range
  <2>2. CASE y \in Range(s)
    <3>1. PICK i \in 1 .. Len(s) : y = s[i]
        BY <1>2, <2>2 DEF Range
    <3>2. i \in DOMAIN Append(s, x) /\ Append(s, x)[i] = y
        BY <1>1, <1>2, <3>1
    <3>3. QED
        BY <3>2 DEF Range
  <2>3. QED
    BY <1>4, <2>1, <2>2
<1>5. QED
    BY <1>3, <1>4

\* What is not the head of the list is in its tail.
LEMMA RangeOfTail ==
    ASSUME NEW S, NEW s \in Seq(S), s # <<>>
    PROVE  /\ Tail(s) \in Seq(S) /\ Head(s) \in S /\ Head(s) \in Range(s)
           /\ Range(Tail(s)) \subseteq Range(s)
           /\ Range(s) \subseteq Range(Tail(s)) \cup {Head(s)}
<1>1. /\ Tail(s) \in Seq(S) /\ Len(Tail(s)) = Len(s) - 1 /\ Len(s) \in Nat \ {0}
      /\ \A i \in 1 .. (Len(s) - 1) : Tail(s)[i] = s[i + 1]
      /\ Head(s) = s[1] /\ Head(s) \in S
    OBVIOUS
<1>2. DOMAIN Tail(s) = 1 .. (Len(s) - 1) /\ DOMAIN s = 1 .. Len(s)
    BY <1>1
<1>3. Head(s) \in Range(s)
  <2>1. 1 \in DOMAIN s
    BY <1>1, <1>2
  <2>2. QED
    BY <1>1, <2>1 DEF Range
<1>4. ASSUME NEW y \in Range(Tail(s)) PROVE y \in Range(s)
  <2>1. PICK i \in 1 .. (Len(s) - 1) : y = Tail(s)[i]
    BY <1>2, <1>4 DEF Range
  <2>2. i + 1 \in DOMAIN s /\ y = s[i + 1]
    BY <1>1, <1>2, <2>1
  <2>3. QED
    BY <2>2 DEF Range
<1>5. ASSUME NEW y \in Range(s), y # Head(s) PROVE y \in Range(Tail(s))
  <2>1. PICK i \in 1 .. Len(s) : y = s[i]
    BY <1>2, <1>5 DEF Range
  <2>2. i # 1
    BY <1>1, <1>5, <2>1
  <2>3. i - 1 \in 1 .. (Len(s) - 1) /\ (i - 1) + 1 = i
    BY <1>1, <2>1, <2>2
  <2>4. Tail(s)[i - 1] = y
    BY <1>1, <2>1, <2>3
  <2>5. QED
    BY <1>2, <2>3, <2>4, Zenon DEF Range
<1>6. QED
    BY <1>1, <1>3, <1>4, <1>5

\* A lease is a number of ticks.
LEMMA LeaseType == ASSUME NEW t \in Nat PROVE LeaseDuration(t) \in Nat
<1>1. TicksPerSecond \in Nat \ {0}
    BY TimesAssumption
<1>2. t \div TicksPerSecond \in Nat
    BY <1>1
<1>3. \A q, k \in Nat : q * k \in Nat
    OBVIOUS
<1>4. QED
    BY <1>1, <1>2, <1>3 DEF LeaseDuration

M == LeaseDuration(pPortMappingTimeout)

\* The bounds are natural numbers.
LEMMA Bounds == pRefresh \in Nat /\ MaxRound \in Nat /\ MaxConnects \in Nat
<1>1. QED
    BY TimesAssumption

\* The lease of a persistent mapping outlives an interval and two rounds.
LEMMA Margin ==
    /\ M \in Nat /\ M > pRefresh + 2 * MaxRound
    /\ pRefresh \in Nat \ {0} /\ MaxRound \in Nat /\ MaxConnects \in Nat
<1>1. pRefresh \in Nat /\ Minute \in Nat /\ MaxRound \in Nat /\ MaxConnects \in Nat
    BY TimesAssumption
<1>2. pPortMappingTimeout \in Nat
    BY <1>1 DEF pPortMappingTimeout
<1>3. M \in Nat
    BY <1>2, LeaseType DEF M
<1>4. M > pRefresh + 2 * MaxRound /\ pRefresh > 0
    BY MarginAssumption DEF M, pPortMappingTimeout
<1>5. QED
    BY <1>1, <1>3, <1>4

-----------------------------------------------------------------------------
(* Types.                                                                   *)

\* The call to the router keeps the types of what it changes.
LEMMA AddPortMappingType ==
    ASSUME TypeOK, NEW m \in Mappings \cup Temporary, NEW timeout \in Nat,
           NEW ok \in BOOLEAN, AddPortMapping(m, timeout, ok)
    PROVE  /\ lease' \in [Mappings \cup Temporary -> Nat]
           /\ covered' \subseteq Mappings \cup Temporary
<1>1. LeaseDuration(timeout) \in Nat
    BY LeaseType
<1>2. lease' \in [Mappings \cup Temporary -> Nat]
    BY <1>1 DEF TypeOK, AddPortMapping
<1>3. covered' \subseteq Mappings \cup Temporary
    BY DEF TypeOK, AddPortMapping
<1>4. QED
    BY <1>2, <1>3

\* A step of the specification keeps the types.
LEMMA TypeStep == TypeOK /\ [Next]_vars => TypeOK'
<1> SUFFICES ASSUME TypeOK, [Next]_vars PROVE TypeOK'
    OBVIOUS
<1> USE Bounds
<1>1. CASE DiscoveryFails
    BY <1>1 DEF DiscoveryFails, TypeOK
<1>2. CASE Connect
  <2>1. connects' \in 0 .. MaxConnects /\ UNCHANGED <<round, pPortMappings, adding>>
    BY <1>2 DEF Connect, TypeOK
  <2>2. PICK found \in Discovered :
            \/ UNCHANGED <<upnpClient, named, timer, lease, covered, panicked>>
            \/ TakeRouter(Clients(found))
    BY <1>2 DEF Connect
  <2>3. /\ timer' \in [on : BOOLEAN, left : 0 .. pRefresh]
        /\ lease' \in [Mappings \cup Temporary -> Nat]
        /\ covered' \subseteq Mappings \cup Temporary
        /\ panicked' \in BOOLEAN
    <3>1. CASE UNCHANGED <<upnpClient, named, timer, lease, covered, panicked>>
        BY <3>1 DEF TypeOK
    <3>2. CASE TakeRouter(Clients(found))
      <4>1. timer' \in [on : BOOLEAN, left : 0 .. pRefresh]
        BY <3>2 DEF TakeRouter, TypeOK
      <4>2. lease' \in [Mappings \cup Temporary -> Nat]
        BY <3>2 DEF TakeRouter, TypeOK
      <4>3. covered' \subseteq Mappings \cup Temporary /\ panicked' \in BOOLEAN
        BY <3>2 DEF TakeRouter, TypeOK
      <4>4. QED
        BY <4>1, <4>2, <4>3
    <3>3. QED
        BY <2>2, <3>1, <3>2
  <2>4. QED
    BY <2>1, <2>3 DEF TypeOK
<1>3. CASE Close
    BY <1>3, Zenon DEF Close, TypeOK
<1>4. ASSUME NEW m \in Temporary, AddTemporary(m) PROVE TypeOK'
  <2>1. PICK timeout \in Timeouts, ok \in BOOLEAN : AddPortMapping(m, timeout, ok)
    BY <1>4 DEF AddTemporary
  <2>2. timeout \in Nat
    BY TimesAssumption
  <2>3. /\ lease' \in [Mappings \cup Temporary -> Nat]
        /\ covered' \subseteq Mappings \cup Temporary
    BY <2>1, <2>2, AddPortMappingType
  <2>4. UNCHANGED <<connects, timer, round, pPortMappings, adding, panicked>>
    BY <1>4 DEF AddTemporary
  <2>5. QED
    BY <2>3, <2>4 DEF TypeOK
<1>5. ASSUME NEW m \in Mappings, AddPersistantPortMapping(m) PROVE TypeOK'
  <2>1. PICK ok \in BOOLEAN : /\ AddPortMapping(m, pPortMappingTimeout, ok)
                              /\ adding' = IF ok THEN adding \cup {m} ELSE adding
    BY <1>5 DEF AddPersistantPortMapping
  <2>2. pPortMappingTimeout \in Nat
    BY TimesAssumption DEF pPortMappingTimeout
  <2>3. adding' \in SUBSET Mappings
    BY <1>5, <2>1 DEF AddPersistantPortMapping, TypeOK
  <2>4. /\ lease' \in [Mappings \cup Temporary -> Nat]
        /\ covered' \subseteq Mappings \cup Temporary
    BY <2>1, <2>2, AddPortMappingType
  <2>5. UNCHANGED <<connects, timer, round, pPortMappings, panicked>>
    BY <1>5 DEF AddPersistantPortMapping
  <2>6. QED
    BY <2>3, <2>4, <2>5 DEF TypeOK
<1>6. ASSUME NEW m \in Mappings, Persist(m) PROVE TypeOK'
  <2>1. /\ pPortMappings' = Append(pPortMappings, m) /\ adding' = adding \ {m}
        /\ UNCHANGED <<connects, timer, round, lease, covered, panicked>>
        /\ pPortMappings \in Seq(Mappings)
    BY <1>6 DEF Persist, TypeOK
  <2>2. Range(pPortMappings') = Range(pPortMappings) \cup {m}
    BY <2>1, RangeOfAppend
  <2>3. pPortMappings' \in Seq(Mappings)
    BY <2>1
  <2>4. QED
    BY <2>1, <2>2, <2>3 DEF TypeOK
<1>7. CASE BeginRefresh
    BY <1>7 DEF BeginRefresh, TypeOK
<1>8. CASE RefreshNext
  <2>1. /\ round.todo \in Seq(Mappings) /\ round.todo # <<>>
        /\ round' = [round EXCEPT !.todo = Tail(round.todo)]
        /\ UNCHANGED <<connects, timer, pPortMappings, adding, panicked>>
    BY <1>8 DEF RefreshNext, TypeOK
  <2>2. PICK ok \in BOOLEAN : AddPortMapping(Head(round.todo), pPortMappingTimeout, ok)
    BY <1>8 DEF RefreshNext
  <2>3. pPortMappingTimeout \in Nat
    BY TimesAssumption DEF pPortMappingTimeout
  <2>4. /\ Tail(round.todo) \in Seq(Mappings) /\ Head(round.todo) \in Mappings
        /\ Range(Tail(round.todo)) \subseteq Range(round.todo)
    BY <2>1, RangeOfTail
  <2>5. /\ lease' \in [Mappings \cup Temporary -> Nat]
        /\ covered' \subseteq Mappings \cup Temporary
    BY <2>2, <2>3, <2>4, AddPortMappingType, Zenon
  <2>6. /\ round' \in [active : BOOLEAN, todo : Seq(Mappings), took : 0 .. MaxRound]
        /\ round'.todo = Tail(round.todo)
    BY <2>1, <2>4, Zenon DEF TypeOK
  <2>7. QED
    BY <2>1, <2>4, <2>5, <2>6, Zenon DEF TypeOK
<1>9. CASE EndRefresh
  <2>1. /\ round' = Idle /\ timer' = [timer EXCEPT !.left = pRefresh]
        /\ UNCHANGED <<connects, pPortMappings, adding, lease, covered, panicked>>
    BY <1>9 DEF EndRefresh
  <2>2. timer' \in [on : BOOLEAN, left : 0 .. pRefresh]
    BY <2>1 DEF TypeOK
  <2>3. /\ round' \in [active : BOOLEAN, todo : Seq(Mappings), took : 0 .. MaxRound]
        /\ Range(round'.todo) = {}
    BY <2>1 DEF Idle, Range
  <2>4. QED
    BY <2>1, <2>2, <2>3 DEF TypeOK
<1>10. CASE Tick
  <2>1. /\ lease' = [m \in DOMAIN lease |-> Before(lease[m])]
        /\ UNCHANGED <<connects, pPortMappings, adding, covered, panicked>>
        /\ round.active => round.took < MaxRound
    BY <1>10 DEF Tick
  <2>2. lease' \in [Mappings \cup Temporary -> Nat]
    BY <2>1 DEF TypeOK, Before
  <2>3. timer' \in [on : BOOLEAN, left : 0 .. pRefresh]
    <3>1. timer \in [on : BOOLEAN, left : 0 .. pRefresh] /\ timer.left \in 0 .. pRefresh
      BY DEF TypeOK
    <3>2. timer' = timer \/ timer' = [timer EXCEPT !.left = Before(timer.left)]
      BY <1>10 DEF Tick
    <3>3. Before(timer.left) \in 0 .. pRefresh
      BY <3>1, Margin DEF Before
    <3>4. QED
      BY <3>1, <3>2, <3>3
  <2>4. /\ round' \in [active : BOOLEAN, todo : Seq(Mappings), took : 0 .. MaxRound]
        /\ round'.todo = round.todo
    <3>1. CASE round.active
      <4>1. round' = [round EXCEPT !.took = round.took + 1] /\ round.took + 1 \in 0 .. MaxRound
        BY <1>10, <2>1, <3>1 DEF Tick, TypeOK
      <4>2. QED
        BY <4>1, Zenon DEF TypeOK
    <3>2. CASE ~round.active
        BY <1>10, <3>2 DEF Tick, TypeOK
    <3>3. QED
        BY <3>1, <3>2
  <2>5. QED
    BY <2>1, <2>2, <2>3, <2>4 DEF TypeOK
<1>11. CASE AddWithoutClient
    BY <1>11, Zenon DEF AddWithoutClient, TypeOK
<1>12. CASE UNCHANGED vars
    BY <1>12 DEF vars, TypeOK
<1>13. QED
    BY <1>1, <1>2, <1>3, <1>4, <1>5, <1>6, <1>7, <1>8, <1>9, <1>10, <1>11, <1>12 DEF Next

\* The initial states have the types.
LEMMA TypeInit == Init => TypeOK
<1> SUFFICES ASSUME Init PROVE TypeOK
    OBVIOUS
<1>1. pPortMappings \in Seq(Mappings) /\ Range(pPortMappings) = {}
    BY DEF Init, Range
<1>2. /\ round \in [active : BOOLEAN, todo : Seq(Mappings), took : 0 .. MaxRound]
      /\ Range(round.todo) = {}
    BY Bounds DEF Init, Idle, Range
<1>3. connects \in 0 .. MaxConnects /\ panicked \in BOOLEAN /\ adding = {} /\ covered = {}
  <2>1. connects = 0 /\ panicked = FALSE /\ adding = {} /\ covered = {}
    BY Zenon DEF Init
  <2>2. 0 \in 0 .. MaxConnects
    BY Bounds
  <2>3. QED
    BY <2>1, <2>2, Zenon
<1>4. timer \in [on : BOOLEAN, left : 0 .. pRefresh]
    BY Bounds DEF Init
<1>5. lease \in [Mappings \cup Temporary -> Nat]
    BY DEF Init
<1>6. QED
    BY <1>1, <1>2, <1>3, <1>4, <1>5 DEF TypeOK

\* Every field keeps its type, a round renews only what is in the list and stays
\* within its bound, for any mappings, asked for any number of times, and times.
THEOREM TypeCorrect == Spec => []TypeOK
<1>1. QED
    BY TypeInit, TypeStep, PTL DEF Spec

-----------------------------------------------------------------------------
(* Leases.                                                                  *)

\* What has to be left of m's lease: until m is renewed in this round, or until
\* the end of the round, of an interval and of the next round.
Due(m) ==
    IF ~round.active THEN timer.left + MaxRound
    ELSE IF m \in Range(round.todo) THEN MaxRound - round.took
    ELSE (MaxRound - round.took) + pRefresh + MaxRound

\* A mapping that is not in the list yet is not in the round that begins next
\* either: it needs the time of two rounds, or the interval is before it.
LeaseOf(m) ==
    /\ m \in adding \cup Range(pPortMappings)
    /\ lease[m] > Due(m)
    /\ ~round.active /\ m \in adding =>
           lease[m] > pRefresh + 2 * MaxRound \/ timer.left = pRefresh

Leases == timer.on => \A m \in covered \cap Mappings : LeaseOf(m)

\* The numbers of the state.
LEMMA Numbers ==
    ASSUME TypeOK
    PROVE  /\ timer.left \in Nat /\ timer.left <= pRefresh /\ timer.on \in BOOLEAN
           /\ round.took \in Nat /\ round.took <= MaxRound /\ round.active \in BOOLEAN
           /\ round.todo \in Seq(Mappings) /\ pPortMappings \in Seq(Mappings)
           /\ \A m \in Mappings : lease[m] \in Nat
           /\ DOMAIN lease = Mappings \cup Temporary
<1>1. QED
    BY Bounds DEF TypeOK

\* What has to be left is a number of ticks.
LEMMA DueType ==
    ASSUME TypeOK, NEW m
    PROVE  Due(m) \in Nat /\ Due(m) <= pRefresh + 2 * MaxRound
<1>1. CASE ~round.active
  <2>1. Due(m) = timer.left + MaxRound
    BY <1>1 DEF Due
  <2>2. QED
    BY <2>1, Margin, Numbers
<1>2. CASE round.active /\ m \in Range(round.todo)
  <2>1. Due(m) = MaxRound - round.took
    BY <1>2 DEF Due
  <2>2. QED
    BY <2>1, Margin, Numbers
<1>3. CASE round.active /\ m \notin Range(round.todo)
  <2>1. Due(m) = (MaxRound - round.took) + pRefresh + MaxRound
    BY <1>3 DEF Due
  <2>2. QED
    BY <2>1, Margin, Numbers, SMTT(20)
<1>4. QED
    BY <1>1, <1>2, <1>3

\* The call to the router for a persistent mapping m: its lease is the longest
\* there is, or it is no longer covered; the others are as they were.
LEMMA AddPortMappingLease ==
    ASSUME TypeOK, NEW m \in Mappings, NEW ok \in BOOLEAN,
           AddPortMapping(m, pPortMappingTimeout, ok)
    PROVE  /\ ok => lease'[m] = M
           /\ ~ok => m \notin covered'
           /\ \A n \in Mappings \ {m} : lease'[n] = lease[n] /\ (n \in covered' => n \in covered)
<1>1. DOMAIN lease = Mappings \cup Temporary
    BY Numbers
<1>2. QED
    BY <1>1 DEF AddPortMapping, M

\* A step keeps enough of every lease.
LEMMA LeasesStep == TypeOK /\ Leases /\ [Next]_vars => Leases'
<1> SUFFICES ASSUME TypeOK, Leases, [Next]_vars PROVE Leases'
    OBVIOUS
<1> USE Margin
<1>t. TypeOK'
    BY TypeStep
<1>1. CASE DiscoveryFails
    BY <1>1 DEF DiscoveryFails, Leases, LeaseOf, Due
<1>2. CASE Connect
  <2>1. UNCHANGED <<round, pPortMappings, adding>>
    BY <1>2 DEF Connect
  <2>2. \/ UNCHANGED <<timer, lease, covered>>
        \/ covered' = {}
    BY <1>2 DEF Connect, TakeRouter
  <2>3. QED
    BY <2>1, <2>2 DEF Leases, LeaseOf, Due
<1>3. CASE Close
  <2>1. ~timer'.on
    BY <1>3 DEF Close, TypeOK
  <2>2. QED
    BY <2>1 DEF Leases
<1>4. ASSUME NEW t \in Temporary, AddTemporary(t) PROVE Leases'
  <2>1. UNCHANGED <<timer, round, pPortMappings, adding>>
    BY <1>4 DEF AddTemporary
  <2>2. \A m \in Mappings : lease'[m] = lease[m] /\ (m \in covered' => m \in covered)
    <3>1. t \notin Mappings
        BY MappingsAssumption
    <3>2. QED
        BY <1>4, <3>1, Numbers DEF AddTemporary, AddPortMapping
  <2>3. QED
    BY <2>1, <2>2 DEF Leases, LeaseOf, Due
<1>5. ASSUME NEW m \in Mappings, AddPersistantPortMapping(m) PROVE Leases'
  <2>1. PICK ok \in BOOLEAN : /\ AddPortMapping(m, pPortMappingTimeout, ok)
                              /\ adding' = IF ok THEN adding \cup {m} ELSE adding
    BY <1>5 DEF AddPersistantPortMapping
  <2>2. UNCHANGED <<timer, round, pPortMappings>> /\ m \notin adding
    BY <1>5 DEF AddPersistantPortMapping
  <2>3. SUFFICES ASSUME timer.on, NEW n \in covered' \cap Mappings PROVE LeaseOf(n)'
    BY <2>2 DEF Leases
  <2>4. CASE n = m
    <3>1. lease'[m] = M /\ adding' = adding \cup {m}
        BY <2>1, <2>3, <2>4, AddPortMappingLease
    <3>2. Due(m)' = Due(m)
        BY <2>2 DEF Due
    <3>3. Due(m)' \in Nat /\ Due(m)' <= pRefresh + 2 * MaxRound
        BY <3>2, DueType
    <3>4. QED
        BY <2>4, <3>1, <3>3 DEF LeaseOf
  <2>5. CASE n # m
    <3>1. lease'[n] = lease[n] /\ n \in covered
        BY <2>1, <2>3, <2>5, AddPortMappingLease
    <3>2. LeaseOf(n)
        BY <2>3, <3>1 DEF Leases
    <3>3. Due(n)' = Due(n)
        BY <2>2 DEF Due
    <3>4. n \in adding' <=> n \in adding
        BY <2>1, <2>5
    <3>5. QED
        BY <2>2, <3>1, <3>2, <3>3, <3>4 DEF LeaseOf
  <2>6. QED
    BY <2>4, <2>5
<1>6. ASSUME NEW m \in Mappings, Persist(m) PROVE Leases'
  <2>1. /\ UNCHANGED <<timer, round, lease, covered>>
        /\ adding' = adding \ {m} /\ pPortMappings' = Append(pPortMappings, m)
    BY <1>6 DEF Persist
  <2>2. Range(pPortMappings') = Range(pPortMappings) \cup {m}
    BY <2>1, Numbers, RangeOfAppend
  <2>3. QED
    BY <2>1, <2>2 DEF Leases, LeaseOf, Due
<1>7. CASE BeginRefresh
  <2>1. /\ timer.on /\ timer.left = 0 /\ ~round.active
        /\ round' = [active |-> TRUE, todo |-> pPortMappings, took |-> 0]
        /\ UNCHANGED <<timer, pPortMappings, adding, lease, covered>>
    BY <1>7 DEF BeginRefresh
  <2>2. SUFFICES ASSUME NEW n \in covered \cap Mappings PROVE LeaseOf(n)'
    BY <2>1 DEF Leases
  <2>3. LeaseOf(n) /\ lease[n] \in Nat
    BY <2>1, <2>2, Numbers DEF Leases
  <2>4. Due(n) = MaxRound
    BY <2>1 DEF Due
  <2>5. CASE n \in Range(pPortMappings)
    <3>1. Due(n)' = MaxRound
        BY <2>1, <2>5 DEF Due
    <3>2. QED
        BY <2>1, <2>3, <2>4, <3>1 DEF LeaseOf
  <2>6. CASE n \notin Range(pPortMappings)
    <3>1. lease[n] > pRefresh + 2 * MaxRound
        BY <2>1, <2>3, <2>6 DEF LeaseOf
    <3>2. Due(n)' = MaxRound + pRefresh + MaxRound
        BY <2>1, <2>6 DEF Due
    <3>3. QED
        BY <2>1, <2>3, <3>1, <3>2 DEF LeaseOf
  <2>7. QED
    BY <2>5, <2>6
<1>8. CASE RefreshNext
  <2>1. /\ round.active /\ round.todo # <<>> /\ round.todo \in Seq(Mappings)
        /\ UNCHANGED <<timer, pPortMappings, adding>>
    BY <1>8, Numbers DEF RefreshNext
  <2>2. PICK ok \in BOOLEAN : AddPortMapping(Head(round.todo), pPortMappingTimeout, ok)
    BY <1>8 DEF RefreshNext
  <2>3. round'.active /\ round'.took = round.took /\ round'.todo = Tail(round.todo)
    BY <1>8, <2>1 DEF RefreshNext, TypeOK
  <2>4. /\ Head(round.todo) \in Mappings /\ Head(round.todo) \in Range(round.todo)
        /\ Range(Tail(round.todo)) \subseteq Range(round.todo)
        /\ Range(round.todo) \subseteq Range(Tail(round.todo)) \cup {Head(round.todo)}
    BY <2>1, RangeOfTail
  <2>5. SUFFICES ASSUME timer.on, NEW n \in covered' \cap Mappings PROVE LeaseOf(n)'
    BY <2>1 DEF Leases
  <2>6. CASE n = Head(round.todo)
    <3>1. lease'[n] = M
        BY <2>2, <2>4, <2>5, <2>6, AddPortMappingLease
    <3>2. n \in Range(pPortMappings)
        BY <2>4, <2>6 DEF TypeOK
    <3>3. Due(n)' \in Int /\ Due(n)' <= pRefresh + 2 * MaxRound
        BY <2>3, Numbers DEF Due
    <3>4. QED
        BY <2>1, <2>3, <3>1, <3>2, <3>3 DEF LeaseOf
  <2>7. CASE n # Head(round.todo)
    <3>1. lease'[n] = lease[n] /\ n \in covered
        BY <2>2, <2>4, <2>5, <2>7, AddPortMappingLease
    <3>2. LeaseOf(n)
        BY <2>5, <3>1 DEF Leases
    <3>3. n \in Range(round'.todo) <=> n \in Range(round.todo)
        BY <2>3, <2>4, <2>7
    <3>4. Due(n)' = Due(n)
        BY <2>1, <2>3, <3>3 DEF Due
    <3>5. QED
        BY <2>1, <2>3, <3>1, <3>2, <3>4 DEF LeaseOf
  <2>8. QED
    BY <2>6, <2>7
<1>9. CASE EndRefresh
  <2>1. /\ round.active /\ round.todo = <<>> /\ ~round'.active
        /\ timer' = [timer EXCEPT !.left = pRefresh]
        /\ UNCHANGED <<pPortMappings, adding, lease, covered>>
    BY <1>9 DEF EndRefresh, Idle
  <2>2. timer'.left = pRefresh /\ timer'.on = timer.on
    BY <2>1 DEF TypeOK
  <2>3. SUFFICES ASSUME timer.on, NEW n \in covered \cap Mappings PROVE LeaseOf(n)'
    BY <2>1, <2>2 DEF Leases
  <2>4. LeaseOf(n) /\ lease[n] \in Nat
    BY <2>3, Numbers DEF Leases
  <2>5. n \notin Range(round.todo)
    BY <2>1 DEF Range
  <2>6. Due(n) = (MaxRound - round.took) + pRefresh + MaxRound /\ Due(n)' = pRefresh + MaxRound
    BY <2>1, <2>2, <2>5 DEF Due
  <2>7. lease[n] > pRefresh + MaxRound
    BY <2>4, <2>6, Numbers DEF LeaseOf
  <2>8. QED
    BY <2>1, <2>2, <2>4, <2>6, <2>7 DEF LeaseOf
<1>10. CASE Tick
  <2>1. /\ lease' = [m \in DOMAIN lease |-> Before(lease[m])]
        /\ UNCHANGED <<pPortMappings, adding, covered>>
        /\ round.active => round.took < MaxRound
        /\ ~round.active => adding = {} /\ (timer.on => timer.left > 0)
    BY <1>10 DEF Tick
  <2>2. SUFFICES ASSUME timer'.on, NEW n \in covered \cap Mappings PROVE LeaseOf(n)'
    BY <2>1 DEF Leases
  <2>3. timer.on
    BY <1>10, <2>2 DEF Tick, TypeOK
  <2>4. LeaseOf(n) /\ lease[n] \in Nat
    BY <2>2, <2>3, Numbers DEF Leases
  <2>5. lease'[n] = Before(lease[n])
    BY <2>1, Numbers
  <2>6. CASE round.active
    <3>1. timer' = timer /\ round'.active /\ round'.todo = round.todo
          /\ round'.took = round.took + 1
        BY <1>10, <2>6 DEF Tick, TypeOK
    <3>0. round.took \in Nat /\ MaxRound \in Nat /\ pRefresh \in Nat /\ Due(n) \in Nat
        BY Margin, Numbers, DueType
    <3>2. Due(n)' = Due(n) - 1 /\ Due(n) \in Nat
      <4>1. CASE n \in Range(round.todo)
        <5>1. /\ Due(n) = MaxRound - round.took
              /\ Due(n)' = MaxRound - round'.took
            BY <2>6, <3>1, <4>1 DEF Due
        <5>2. QED
            BY <3>1, <3>0, <5>1
      <4>2. CASE n \notin Range(round.todo)
        <5>1. /\ Due(n) = (MaxRound - round.took) + pRefresh + MaxRound
              /\ Due(n)' = (MaxRound - round'.took) + pRefresh + MaxRound
            BY <2>6, <3>1, <4>2 DEF Due
        <5>2. QED
            BY <3>1, <3>0, <5>1
      <4>3. QED
        BY <4>1, <4>2
    <3>3. lease'[n] > Due(n)'
        BY <2>4, <2>5, <3>2 DEF LeaseOf, Before
    <3>4. QED
        BY <2>1, <2>4, <3>1, <3>3 DEF LeaseOf
  <2>7. CASE ~round.active
    <3>1. round' = round /\ timer'.left = timer.left - 1
        BY <1>10, <2>1, <2>3, <2>7, Numbers DEF Tick, TypeOK, Before
    <3>2. Due(n)' = Due(n) - 1 /\ Due(n) \in Nat
        BY <2>7, <3>1, Numbers, DueType DEF Due
    <3>3. lease'[n] > Due(n)'
        BY <2>4, <2>5, <3>2 DEF LeaseOf, Before
    <3>4. QED
        BY <2>1, <2>4, <2>7, <3>1, <3>3 DEF LeaseOf
  <2>8. QED
    BY <2>6, <2>7, Numbers
<1>11. CASE AddWithoutClient
    BY <1>11 DEF AddWithoutClient, Leases, LeaseOf, Due
<1>12. CASE UNCHANGED vars
    BY <1>12 DEF vars, Leases, LeaseOf, Due
<1>13. QED
    BY <1>1, <1>2, <1>3, <1>4, <1>5, <1>6, <1>7, <1>8, <1>9, <1>10, <1>11, <1>12 DEF Next

\* Enough of every lease is a lease.
LEMMA LeasesSuffice == TypeOK /\ Leases => LeaseKept
<1> SUFFICES ASSUME TypeOK, Leases, timer.on, NEW m \in Range(pPortMappings) \cap covered
             PROVE  lease[m] > 0
    BY DEF LeaseKept
<1>1. m \in Mappings
    BY Numbers DEF Range
<1>2. lease[m] > Due(m) /\ lease[m] \in Nat
    BY <1>1, Numbers DEF Leases, LeaseOf
<1>3. Due(m) \in Nat
    BY DueType
<1>4. QED
    BY <1>2, <1>3

\* No persistent mapping that the router did not refuse lapses while the timer
\* runs, for any interval, lease and length of a round such that a lease
\* outlives an interval and two rounds.
THEOREM LeasesKept == Spec => []LeaseKept
<1>1. Init => Leases
    BY DEF Init, Leases
<1>2. QED
    BY <1>1, TypeInit, TypeStep, LeasesStep, LeasesSuffice, PTL DEF Spec

-----------------------------------------------------------------------------
(* The router.                                                              *)

\* Whatever is discovered, the router in use is the one that all clients of its
\* kind that answered named.
THEOREM RouterAgreed == Spec => []RouterUnambiguous
<1>1. Init => RouterUnambiguous
    BY DEF Init, RouterUnambiguous
<1>2. RouterUnambiguous /\ [Next]_vars => RouterUnambiguous'
  <2> SUFFICES ASSUME RouterUnambiguous, [Next]_vars PROVE RouterUnambiguous'
    OBVIOUS
  <2>1. CASE Connect
    <3>1. PICK found \in Discovered :
              \/ UNCHANGED <<upnpClient, named>>
              \/ Route(found) = nil /\ TakeRouter(Clients(found))
        BY <2>1 DEF Connect
    <3>2. CASE Route(found) = nil /\ TakeRouter(Clients(found))
      <4> DEFINE answers == Clients(found)
      <4>1. /\ answers # <<>> /\ answers[1] # noAnswer
            /\ \A i \in 2 .. Len(answers) : answers[i] \in {answers[1], noAnswer}
        BY <3>2 DEF Route, Agree, nil
      <4>2. answers \in Seq(Range(answers))
        BY <4>1, DiscoveredAssumption DEF Clients
      <4>3. DOMAIN answers = 1 .. Len(answers) /\ Len(answers) \in Nat /\ Len(answers) > 0
        BY <4>1, <4>2
      <4>4. Range(answers) \ {noAnswer} = {answers[1]}
        BY <4>1, <4>3 DEF Range
      <4>5. QED
        BY <3>2, <4>4 DEF TakeRouter, RouterUnambiguous
    <3>3. QED
        BY <3>1, <3>2 DEF RouterUnambiguous
  <2>2. CASE UNCHANGED <<upnpClient, named>>
    BY <2>2 DEF RouterUnambiguous
  <2>3. QED
    BY <2>1, <2>2 DEF Next, vars, DiscoveryFails, Close, AddWithoutClient, AddTemporary,
       AddPersistantPortMapping, Persist, BeginRefresh, RefreshNext, EndRefresh, Tick
<1>3. QED
    BY <1>1, <1>2, PTL DEF Spec
=============================================================================
