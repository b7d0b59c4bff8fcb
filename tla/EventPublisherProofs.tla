------------------------ MODULE EventPublisherProofs ------------------------
(***************************************************************************)
(* Proofs about EventPublisher, for any number of events of which any do   *)
(* not marshal.                                                            *)
(***************************************************************************)
EXTENDS EventPublisher, LoopTheorems

-----------------------------------------------------------------------------
(* What the loop of this program returns.                                   *)

\* f holds the list after every round.
Rounds(f, kept, values, N) ==
    f = [n \in 0 .. N |->
            IF n = 0 THEN <<>>
            ELSE IF kept[n] THEN Append(f[n - 1], values[n]) ELSE f[n - 1]]

\* There is such a function, for any number of rounds.
LEMMA RoundsExist ==
    ASSUME NEW kept, NEW values, NEW N \in Nat
    PROVE  \E f : Rounds(f, kept, values, N)
<1> DEFINE S == Seq({values[n] : n \in 1 .. N})
           next == [n \in 1 .. N |->
                       [x \in S |-> IF kept[n] THEN Append(x, values[n]) ELSE x]]
<1> HIDE DEF next
<1>1. <<>> \in S
    OBVIOUS
<1>2. \A n \in 1 .. N : \A x \in S : Append(x, values[n]) \in S
    OBVIOUS
<1> HIDE DEF S
<1>3. /\ next \in [1 .. N -> [S -> S]]
      /\ \A n \in 1 .. N : \A x \in S :
             next[n][x] = IF kept[n] THEN Append(x, values[n]) ELSE x
    BY <1>2, Zenon DEF next
<1>4. PICK f : Loop(f, <<>>, next, N, S)
    BY <1>1, <1>3, LoopExists, Zenon
<1>5. f \in [0 .. N -> S] /\ f[0] = <<>>
    BY <1>4, Zenon DEF Loop
<1>6. ASSUME NEW n \in 0 .. N
      PROVE  f[n] = IF n = 0 THEN <<>>
                    ELSE IF kept[n] THEN Append(f[n - 1], values[n]) ELSE f[n - 1]
  <2>1. CASE n = 0
    BY <1>5, <2>1, Zenon
  <2>2. CASE n # 0
    <3>1. n \in 1 .. N /\ n - 1 \in 0 .. N
        BY <2>2
    <3>2. f[n - 1] \in S
        BY <1>5, <3>1, Zenon
    <3>3. f[n] = next[n][f[n - 1]]
        BY <1>4, <3>1, Zenon DEF Loop
    <3> QED BY <1>3, <2>2, <3>1, <3>2, <3>3, Zenon
  <2> QED BY <2>1, <2>2
<1>7. Rounds(f, kept, values, N)
    BY <1>5, <1>6, Zenon DEF Rounds
<1> QED BY <1>7, Zenon

\* A round.
LEMMA Round ==
    ASSUME NEW f, NEW kept, NEW values, NEW N \in Nat, Rounds(f, kept, values, N)
    PROVE  /\ f[0] = <<>>
           /\ \A n \in 1 .. N : f[n] = IF kept[n] THEN Append(f[n - 1], values[n]) ELSE f[n - 1]
<1>1. \A n \in 0 .. N : f[n] = IF n = 0 THEN <<>>
                               ELSE IF kept[n] THEN Append(f[n - 1], values[n]) ELSE f[n - 1]
    BY Zenon DEF Rounds
<1>2. 0 \in 0 .. N /\ \A n \in 1 .. N : n \in 0 .. N /\ n # 0
    OBVIOUS
<1> QED BY <1>1, <1>2, Zenon

\* The loop returns the list after the last round.
LEMMA AppendedIsLast ==
    ASSUME NEW kept, NEW values, NEW N \in Nat, Len(values) = N
    PROVE  \E f : Rounds(f, kept, values, N) /\ Appended(kept, values) = f[N]
<1>1. \E f : Rounds(f, kept, values, N)
    BY RoundsExist, SMTT(20)
<1>2. Rounds(CHOOSE f : Rounds(f, kept, values, N), kept, values, N)
    BY <1>1, Zenon
<1>3. Appended(kept, values) = (CHOOSE f : Rounds(f, kept, values, N))[N]
    BY Zenon DEF Appended, Rounds
<1> QED BY <1>2, <1>3, Zenon

\* The indices that are kept, in their order.
Kept(kept, N) == Appended(kept, [n \in 1 .. N |-> n])

\* What the loop is to return: the values at the indices that are kept, in their
\* order.
KeptInOrder(at, list, kept, N, values, S) ==
    /\ at \in Seq(1 .. N) /\ Increasing(at)
    /\ Range(at) = {n \in 1 .. N : kept[n]}
    /\ list \in Seq(S) /\ Len(list) = Len(at)
    /\ \A i \in 1 .. Len(at) : list[i] = values[at[i]]

\* After n rounds: a has the indices that are kept so far, and b the values.
After(n, a, b, kept, N, values, S) ==
    /\ a \in Seq(1 .. N) /\ b \in Seq(S) /\ Len(b) = Len(a)
    /\ \A i \in 1 .. Len(a) : a[i] <= n /\ kept[a[i]] /\ b[i] = values[a[i]]
    /\ \A i, j \in 1 .. Len(a) : i < j => a[i] < a[j]
    /\ \A m \in 1 .. n : kept[m] => \E i \in 1 .. Len(a) : a[i] = m

\* One more round.
LEMMA OneMore ==
    ASSUME NEW N \in Nat, NEW kept, NEW S, NEW values, NEW n \in 1 .. N, values[n] \in S,
           NEW a, NEW b, After(n - 1, a, b, kept, N, values, S)
    PROVE  /\ kept[n] => After(n, Append(a, n), Append(b, values[n]), kept, N, values, S)
           /\ ~kept[n] => After(n, a, b, kept, N, values, S)
<1> DEFINE k == Len(a)
<1>1. a \in Seq(1 .. N) /\ b \in Seq(S) /\ Len(b) = k
    BY Zenon DEF After
<1>2. k \in Nat /\ \A i \in 1 .. k : a[i] \in 1 .. N
    BY <1>1
<1>3. \A i \in 1 .. k : a[i] <= n - 1 /\ kept[a[i]] /\ b[i] = values[a[i]]
    BY Zenon DEF After
<1>4. \A i, j \in 1 .. k : i < j => a[i] < a[j]
    BY Zenon DEF After
<1>5. \A m \in 1 .. n - 1 : kept[m] => \E i \in 1 .. k : a[i] = m
    BY Zenon DEF After
<1> HIDE DEF k
<1>6. \A i \in 1 .. k : a[i] <= n
    BY <1>2, <1>3
<1>7. \A m \in 1 .. n : m \in 1 .. n - 1 \/ m = n
    OBVIOUS
<1>8. CASE ~kept[n]
  <2>1. \A m \in 1 .. n : kept[m] => \E i \in 1 .. k : a[i] = m
    BY <1>5, <1>7, <1>8, Zenon
  <2> QED BY <1>1, <1>3, <1>4, <1>6, <1>8, <2>1, Zenon DEF After, k
<1>9. CASE kept[n]
  <2> DEFINE c == Append(a, n)
             d == Append(b, values[n])
  <2>1. c \in Seq(1 .. N) /\ Len(c) = k + 1 /\ c[k + 1] = n
    BY <1>1, <1>2 DEF k
  <2>2. d \in Seq(S) /\ Len(d) = k + 1 /\ d[k + 1] = values[n]
    BY <1>1, <1>2
  <2>3. \A i \in 1 .. k : c[i] = a[i]
    BY <1>1 DEF k
  <2>4. \A i \in 1 .. k : d[i] = b[i]
    BY <1>1
  <2>5. \A i \in 1 .. k + 1 : i \in 1 .. k \/ i = k + 1
    BY <1>2
  <2>6. k + 1 \in 1 .. k + 1 /\ n <= n /\ \A i \in 1 .. k : i \in 1 .. k + 1
    BY <1>2
  <2> HIDE DEF c, d
  <2>7. ASSUME NEW i \in 1 .. k + 1 PROVE c[i] <= n /\ kept[c[i]] /\ d[i] = values[c[i]]
    <3>1. CASE i \in 1 .. k
        BY <1>3, <1>6, <2>3, <2>4, <3>1, Zenon
    <3>2. CASE i = k + 1
        BY <1>9, <2>1, <2>2, <2>6, <3>2, Zenon
    <3> QED BY <2>5, <3>1, <3>2, Zenon
  <2>8. ASSUME NEW i \in 1 .. k + 1, NEW j \in 1 .. k + 1, i < j PROVE c[i] < c[j]
    <3>1. i \in 1 .. k
        BY <1>2, <2>8
    <3>2. CASE j \in 1 .. k
        BY <1>4, <2>3, <2>8, <3>1, <3>2, Zenon
    <3>3. CASE j = k + 1
      <4>1. a[i] <= n - 1 /\ a[i] \in 1 .. N
        BY <1>2, <1>3, <3>1, Zenon
      <4>2. a[i] < n
        BY <4>1
      <4> QED BY <2>1, <2>3, <3>1, <3>3, <4>2, Zenon
    <3> QED BY <2>5, <3>2, <3>3, Zenon
  <2>9. ASSUME NEW m \in 1 .. n, kept[m] PROVE \E i \in 1 .. k + 1 : c[i] = m
    <3>1. CASE m = n
        BY <2>1, <2>6, <3>1, Zenon
    <3>2. CASE m \in 1 .. n - 1
      <4>1. PICK i \in 1 .. k : a[i] = m
        BY <1>5, <2>9, <3>2, Zenon
      <4> QED BY <2>3, <2>6, <4>1, Zenon
    <3> QED BY <1>7, <3>1, <3>2, Zenon
  <2>10. After(n, c, d, kept, N, values, S)
    BY <2>1, <2>2, <2>7, <2>8, <2>9, Zenon DEF After
  <2> QED BY <1>9, <2>10, Zenon DEF c, d
<1> QED BY <1>8, <1>9, Zenon

\* The loop returns it.
LEMMA AppendedIs ==
    ASSUME NEW N \in Nat, NEW kept \in [1 .. N -> BOOLEAN], NEW S, NEW values \in Seq(S),
           Len(values) = N
    PROVE  KeptInOrder(Kept(kept, N), Appended(kept, values), kept, N, values, S)
<1> DEFINE ids == [n \in 1 .. N |-> n]
<1>1. Len(ids) = N /\ \A n \in 1 .. N : ids[n] = n
    OBVIOUS
<1>2. Kept(kept, N) = Appended(kept, ids)
    BY Zenon DEF Kept
<1> HIDE DEF ids
<1>3. PICK f : Rounds(f, kept, ids, N) /\ Appended(kept, ids) = f[N]
  <2>1. Len(ids) = N
    BY <1>1
  <2> QED BY <2>1, AppendedIsLast
<1>4. PICK g : Rounds(g, kept, values, N) /\ Appended(kept, values) = g[N]
    BY AppendedIsLast, Zenon
<1>5. /\ f[0] = <<>>
      /\ \A n \in 1 .. N : f[n] = IF kept[n] THEN Append(f[n - 1], ids[n]) ELSE f[n - 1]
    BY <1>3, Round, Zenon
<1>6. /\ g[0] = <<>>
      /\ \A n \in 1 .. N : g[n] = IF kept[n] THEN Append(g[n - 1], values[n]) ELSE g[n - 1]
    BY <1>4, Round, Zenon
<1> DEFINE Right(n) == After(n, f[n], g[n], kept, N, values, S)
           W == {n \in 0 .. N : Right(n)}
<1>7. Right(0)
  <2>1. After(0, <<>>, <<>>, kept, N, values, S)
    BY DEF After
  <2> QED BY <1>5, <1>6, <2>1, Zenon
<1>8. ASSUME NEW n \in 1 .. N, Right(n - 1) PROVE Right(n)
  <2>1. values[n] \in S
    OBVIOUS
  <2>2. /\ kept[n] => After(n, Append(f[n - 1], n), Append(g[n - 1], values[n]), kept, N, values, S)
        /\ ~kept[n] => After(n, f[n - 1], g[n - 1], kept, N, values, S)
    BY <1>8, <2>1, OneMore, Zenon
  <2> QED BY <1>1, <1>5, <1>6, <2>2, Zenon
<1> HIDE DEF Right
<1>9. 0 \in W /\ \A n \in 1 .. N : n - 1 \in W => n \in W
  <2>1. 0 \in 0 .. N /\ \A n \in 1 .. N : n \in 0 .. N
    OBVIOUS
  <2> QED BY <1>7, <1>8, <2>1, Zenon
<1>10. After(N, f[N], g[N], kept, N, values, S)
  <2> HIDE DEF W
  <2>1. \A n \in 0 .. N : n \in W
    BY <1>9, AllRounds, Zenon
  <2>2. N \in W
    BY <2>1
  <2> QED BY <2>2, Zenon DEF Right, W
<1> DEFINE at == f[N]
<1>11. /\ at \in Seq(1 .. N) /\ g[N] \in Seq(S) /\ Len(g[N]) = Len(at)
       /\ \A i \in 1 .. Len(at) : kept[at[i]] /\ g[N][i] = values[at[i]]
       /\ \A i, j \in 1 .. Len(at) : i < j => at[i] < at[j]
       /\ \A m \in 1 .. N : kept[m] => \E i \in 1 .. Len(at) : at[i] = m
    BY <1>10, Zenon DEF After
<1> HIDE DEF at
<1>12. DOMAIN at = 1 .. Len(at) /\ \A i \in 1 .. Len(at) : at[i] \in 1 .. N
    BY <1>11
<1>13. Increasing(at)
    BY <1>11, <1>12, Zenon DEF Increasing
<1>14. Range(at) = {n \in 1 .. N : kept[n]}
  <2>1. ASSUME NEW x \in Range(at) PROVE x \in {n \in 1 .. N : kept[n]}
    <3>1. PICK i \in 1 .. Len(at) : at[i] = x
        BY <1>12 DEF Range
    <3> QED BY <1>11, <1>12, <3>1, Zenon
  <2>2. ASSUME NEW x \in 1 .. N, kept[x] PROVE x \in Range(at)
    <3>1. PICK i \in 1 .. Len(at) : at[i] = x
        BY <1>11, <2>2, Zenon
    <3> QED BY <1>12, <3>1, Zenon DEF Range
  <2> QED BY <2>1, <2>2, Zenon
<1>15. at = Kept(kept, N) /\ g[N] = Appended(kept, values)
    BY <1>2, <1>3, <1>4, Zenon DEF at
<1>16. KeptInOrder(at, g[N], kept, N, values, S)
    BY <1>11, <1>13, <1>14, Zenon DEF KeptInOrder
<1> QED BY <1>15, <1>16, Zenon

-----------------------------------------------------------------------------
(* The inductive invariant.                                                 *)

\* What upstream answers for an input.
Results == [Success : BOOLEAN, Error : Seq(Events)]

\* The list that was posted is that of the batch, and the results are as many,
\* each about the input at its place.
TypeInv ==
    /\ created \in 0 .. MaxEvents
    /\ pending \in Seq(Events) /\ cloudEvents \in Seq(Events)
    /\ inputs = MapCloudEventsToPublishDataInputs(cloudEvents)
    /\ results # <<>> => /\ cloudEvents # <<>>
                         /\ results[1] \in Seq(Results) /\ Len(results[1]) = Len(inputs)
                         /\ \A i \in DOMAIN inputs :
                               ~results[1][i].Success => results[1][i].Error = <<inputs[i].Payload>>
    /\ Range(cloudEvents) \subseteq sourced

\* The batch is older than what is pending, and both are in order.
OrderInv ==
    /\ Increasing(cloudEvents) /\ Increasing(pending)
    /\ \A e \in Range(cloudEvents), p \in Range(pending) : e < p
    /\ \A e \in Range(cloudEvents) \cup Range(pending) : e <= created

\* As long as all events marshalled they are held or accepted, and not both.
HeldInv ==
    ~skipped => /\ Range(cloudEvents) \cap broken = {}
                /\ held \cap accepted = {}
                /\ held \cup accepted = 1 .. created

IInv == TypeInv /\ OrderInv /\ HeldInv

-----------------------------------------------------------------------------
(* Lists and the functions of events.go.                                    *)

\* The elements of a list.
LEMMA Elements ==
    ASSUME NEW S, NEW a \in Seq(S)
    PROVE  /\ Len(a) \in Nat /\ DOMAIN a = 1 .. Len(a)
           /\ \A i \in DOMAIN a : a[i] \in S /\ a[i] \in Range(a)
           /\ \A e \in Range(a) : e \in S /\ \E i \in DOMAIN a : a[i] = e
<1>1. Len(a) \in Nat /\ DOMAIN a = 1 .. Len(a) /\ \A i \in DOMAIN a : a[i] \in S
    OBVIOUS
<1> QED BY <1>1, Zenon DEF Range

\* Two lists in order, the first before the second, are one.
LEMMA Concatenated ==
    ASSUME NEW a \in Seq(Int), NEW b \in Seq(Int)
    PROVE  /\ a \o b \in Seq(Int)
           /\ Range(a \o b) = Range(a) \cup Range(b)
           /\ Increasing(a) /\ Increasing(b) /\ (\A x \in Range(a), y \in Range(b) : x < y)
                 => Increasing(a \o b)
<1>1. /\ a \o b \in Seq(Int) /\ Len(a \o b) = Len(a) + Len(b)
      /\ \A i \in 1 .. Len(a) + Len(b) :
            (a \o b)[i] = IF i <= Len(a) THEN a[i] ELSE b[i - Len(a)]
    OBVIOUS
<1>2. Len(a) \in Nat /\ Len(b) \in Nat /\ DOMAIN a = 1 .. Len(a) /\ DOMAIN b = 1 .. Len(b)
      /\ DOMAIN (a \o b) = 1 .. Len(a) + Len(b)
    BY <1>1
<1> DEFINE c == a \o b
<1> HIDE DEF c
<1>3. \A i \in DOMAIN c : \/ i \in DOMAIN a /\ c[i] = a[i]
                          \/ i - Len(a) \in DOMAIN b /\ c[i] = b[i - Len(a)] /\ i > Len(a)
    BY <1>1, <1>2 DEF c
<1>4. \A i \in DOMAIN a : i \in DOMAIN c /\ c[i] = a[i]
    BY <1>1, <1>2 DEF c
<1>5. \A i \in DOMAIN b : i + Len(a) \in DOMAIN c /\ c[i + Len(a)] = b[i]
    BY <1>1, <1>2 DEF c
<1>6. Range(c) = Range(a) \cup Range(b)
  <2>1. Range(c) \subseteq Range(a) \cup Range(b)
    BY <1>3, Zenon DEF Range
  <2>2. Range(a) \cup Range(b) \subseteq Range(c)
    BY <1>4, <1>5, Zenon DEF Range
  <2> QED BY <2>1, <2>2, Zenon
<1>7. ASSUME Increasing(a), Increasing(b), \A x \in Range(a), y \in Range(b) : x < y
      PROVE  Increasing(c)
  <2> SUFFICES ASSUME NEW i \in DOMAIN c, NEW j \in DOMAIN c, i < j
               PROVE  c[i] < c[j]
    BY Zenon DEF Increasing
  <2>1. i \in Int /\ j \in Int
    BY <1>2 DEF c
  <2>2. CASE i \in DOMAIN a /\ c[i] = a[i] /\ j \in DOMAIN a /\ c[j] = a[j]
    BY <1>7, <2>2, Zenon DEF Increasing
  <2>3. CASE /\ i \in DOMAIN a /\ c[i] = a[i]
             /\ j - Len(a) \in DOMAIN b /\ c[j] = b[j - Len(a)]
    BY <1>7, <2>3, Zenon DEF Range
  <2>4. CASE /\ i - Len(a) \in DOMAIN b /\ c[i] = b[i - Len(a)]
             /\ j - Len(a) \in DOMAIN b /\ c[j] = b[j - Len(a)]
    <3>1. i - Len(a) < j - Len(a)
        BY <1>2, <2>1
    <3> QED BY <1>7, <2>4, <3>1, Zenon DEF Increasing
  <2>5. CASE i > Len(a) /\ j \in DOMAIN a
    BY <1>2, <2>1, <2>5
  <2> QED BY <1>3, <2>2, <2>3, <2>4, <2>5, Zenon
<1> QED BY <1>1, <1>6, <1>7 DEF c

\* In a list in order an element has one place.
LEMMA OnePlace ==
    ASSUME NEW a \in Seq(Int), Increasing(a), NEW i \in DOMAIN a, NEW j \in DOMAIN a, a[i] = a[j]
    PROVE  i = j
<1>1. i \in Int /\ j \in Int /\ a[i] \in Int
    OBVIOUS
<1>2. (i < j => a[i] < a[j]) /\ (j < i => a[j] < a[i])
    BY Zenon DEF Increasing
<1> QED BY <1>1, <1>2

\* The values of a list in order at indices in order are in order.
LEMMA InOrderAt ==
    ASSUME NEW a \in Seq(Int), Increasing(a), NEW at \in Seq(DOMAIN a), Increasing(at)
    PROVE  /\ Increasing([i \in DOMAIN at |-> a[at[i]]])
           /\ \A i \in DOMAIN at : at[i] \in DOMAIN a
<1>1. \A i \in DOMAIN at : at[i] \in DOMAIN a
    OBVIOUS
<1> QED BY <1>1, Zenon DEF Increasing

\* If the first indices are all kept each one has its own place.
FirstIn(at, k) == \A j \in 1 .. k : j \in Range(at)
FirstInPlace(at, k) == \A j \in 1 .. k : j \in DOMAIN at /\ at[j] = j
LEMMA FirstKept ==
    ASSUME NEW N \in Nat, NEW at \in Seq(1 .. N), Increasing(at), NEW k \in 1 .. N,
           FirstIn(at, k)
    PROVE  FirstInPlace(at, k)
<1> DEFINE Wrong == {j \in 1 .. k : ~(j \in DOMAIN at /\ at[j] = j)}
<1>1. ASSUME Wrong # {} PROVE FALSE
  <2>1. PICK n \in Wrong : \A m \in Wrong : n <= m
    <3>1. Wrong \in SUBSET Nat
        OBVIOUS
    <3> HIDE DEF Wrong
    <3> QED BY <1>1, <3>1, LeastNat, ZenonT(30)
  <2>2. n \in 1 .. k /\ ~(n \in DOMAIN at /\ at[n] = n)
    BY <2>1
  <2>3. ASSUME NEW j \in 1 .. k, j < n PROVE j \in DOMAIN at /\ at[j] = j
    BY <2>1, <2>2, <2>3
  <2>4. PICK m \in DOMAIN at : at[m] = n
    <3>1. n \in Range(at)
        BY <2>2, Zenon DEF FirstIn
    <3> QED BY <3>1, Elements
  <2> HIDE DEF Wrong
  <2>5. DOMAIN at = 1 .. Len(at) /\ Len(at) \in Nat /\ m \in Nat /\ n \in Nat /\ m >= 1
    BY <2>2, <2>4
  <2>6. m >= n
    BY <2>2, <2>3, <2>4, <2>5
  <2>7. n \in DOMAIN at /\ at[n] \in 1 .. N
    BY <2>2, <2>5, <2>6
  <2>8. at[n] <= n
    <3>1. n < m => at[n] < n
        BY <2>4, <2>7, Zenon DEF Increasing
    <3>2. n = m => at[n] = n
        BY <2>4, Zenon
    <3> QED BY <2>5, <2>6, <2>7, <3>1, <3>2
  <2>9. at[n] >= n
    <3>1. CASE n = 1
        BY <2>7, <3>1
    <3>2. CASE n # 1
      <4>1. n - 1 \in 1 .. k /\ n - 1 < n
        BY <2>2, <3>2
      <4>2. n - 1 \in DOMAIN at /\ at[n - 1] = n - 1
        BY <2>3, <4>1, Zenon
      <4>3. at[n - 1] < at[n]
        BY <2>7, <4>1, <4>2, Zenon DEF Increasing
      <4> QED BY <2>5, <2>7, <4>2, <4>3
    <3> QED BY <3>1, <3>2
  <2> QED BY <2>2, <2>5, <2>7, <2>8, <2>9
<1> QED BY <1>1, Zenon DEF FirstInPlace

\* Where the events of a batch that marshal are in it.
Marshals(events) == [n \in DOMAIN events |-> events[n] \notin broken]
Places(events) == Kept(Marshals(events), Len(events))

Inputs == [Type : {"event"}, Compressed : {TRUE}, Payload : Events]

\* The list that is posted has the events that marshal, in their order.
LEMMA MapIs ==
    ASSUME NEW events \in Seq(Events)
    PROVE  LET list == MapCloudEventsToPublishDataInputs(events)
           IN  /\ Places(events) \in Seq(1 .. Len(events)) /\ Increasing(Places(events))
               /\ Range(Places(events)) = {n \in 1 .. Len(events) : events[n] \notin broken}
               /\ list \in Seq(Inputs)
               /\ Len(list) = Len(Places(events)) /\ DOMAIN list = DOMAIN Places(events)
               /\ \A i \in DOMAIN list : list[i].Payload = events[Places(events)[i]]
<1> DEFINE values == [n \in DOMAIN events |-> NewPublishDataInput(events[n])]
           N == Len(events)
           at == Places(events)
           list == MapCloudEventsToPublishDataInputs(events)
<1>1. N \in Nat /\ DOMAIN events = 1 .. N /\ \A n \in DOMAIN events : events[n] \in Events
    OBVIOUS
<1>2. Marshals(events) \in [1 .. N -> BOOLEAN]
    BY <1>1, Zenon DEF Marshals
<1>3. values \in Seq(Inputs) /\ Len(values) = N
  <2>1. \A n \in DOMAIN events : NewPublishDataInput(events[n]) \in Inputs
    BY <1>1 DEF NewPublishDataInput, Inputs
  <2> QED BY <1>1, <2>1
<1>4. list = Appended(Marshals(events), values)
    BY Zenon DEF MapCloudEventsToPublishDataInputs, Marshals
<1> HIDE DEF values, N
<1>5. /\ at \in Seq(1 .. N) /\ Increasing(at)
      /\ Range(at) = {n \in 1 .. N : Marshals(events)[n]}
      /\ list \in Seq(Inputs) /\ Len(list) = Len(at)
      /\ \A i \in 1 .. Len(at) : list[i] = values[at[i]]
  <2>1. at = Kept(Marshals(events), N)
    BY Zenon DEF Places, N
  <2> HIDE DEF at, list
  <2>2. KeptInOrder(Kept(Marshals(events), N), Appended(Marshals(events), values),
                    Marshals(events), N, values, Inputs)
    BY <1>1, <1>2, <1>3, AppendedIs, Zenon
  <2>3. KeptInOrder(at, list, Marshals(events), N, values, Inputs)
    BY <1>4, <2>1, <2>2, Zenon
  <2> QED BY <2>3, Zenon DEF KeptInOrder
<1>6. Range(at) = {n \in 1 .. N : events[n] \notin broken}
    BY <1>1, <1>5, ZenonT(30) DEF Marshals
<1> HIDE DEF list, at
<1>7. DOMAIN list = DOMAIN at /\ DOMAIN at = 1 .. Len(at) /\ \A i \in DOMAIN at : at[i] \in 1 .. N
    BY <1>5, Elements, Zenon
<1>8. \A i \in DOMAIN list : list[i].Payload = events[at[i]]
  <2>1. \A n \in 1 .. N : values[n].Payload = events[n]
    BY <1>1 DEF values, NewPublishDataInput
  <2> QED BY <1>5, <1>7, <2>1, Zenon
<1> QED BY <1>5, <1>6, <1>7, <1>8, Zenon DEF list, at, N

\* Where the results that are no success are.
FailedAt(rs) == Kept(Failed(rs), Len(rs))

\* The events with errors, and the list of them, are those at the places of the
\* results that are no success, in their order.
LEMMA FilterIs ==
    ASSUME NEW rs \in Seq(Results), NEW events \in Seq(Events), Len(rs) <= Len(events)
    PROVE  LET list == FilterCloudEventsWithErrors(rs, events)
               errors == CreateCloudEventErrorList(rs, events)
               at == FailedAt(rs)
           IN  /\ at \in Seq(1 .. Len(rs)) /\ Increasing(at)
               /\ Range(at) = {n \in 1 .. Len(rs) : ~rs[n].Success}
               /\ list \in Seq(Events) /\ DOMAIN list = DOMAIN at
               /\ \A i \in DOMAIN at : list[i] = events[at[i]]
               /\ DOMAIN errors = DOMAIN at
               /\ \A i \in DOMAIN at : errors[i] = [Event |-> events[at[i]], Error |-> rs[at[i]].Error]
<1> DEFINE values == [n \in DOMAIN rs |-> events[n]]
           records == [n \in DOMAIN rs |-> [Event |-> events[n], Error |-> rs[n].Error]]
           N == Len(rs)
           at == FailedAt(rs)
           list == FilterCloudEventsWithErrors(rs, events)
           errors == CreateCloudEventErrorList(rs, events)
           S == [Event : Events, Error : Seq(Events)]
<1>1. N \in Nat /\ DOMAIN rs = 1 .. N /\ \A n \in DOMAIN rs : rs[n] \in Results /\ events[n] \in Events
    OBVIOUS
<1>2. Failed(rs) \in [1 .. N -> BOOLEAN]
    BY <1>1, Zenon DEF Failed
<1>3. values \in Seq(Events) /\ Len(values) = N
    BY <1>1
<1>4. records \in Seq(S) /\ Len(records) = N
  <2>1. \A n \in DOMAIN rs : [Event |-> events[n], Error |-> rs[n].Error] \in S
    BY <1>1, Zenon DEF Results
  <2> HIDE DEF S
  <2> QED BY <1>1, <2>1
<1>5. list = Appended(Failed(rs), values) /\ errors = Appended(Failed(rs), records)
    BY Zenon DEF FilterCloudEventsWithErrors, CreateCloudEventErrorList
<1> HIDE DEF values, records, S, N
<1>6. /\ at \in Seq(1 .. N) /\ Increasing(at)
      /\ Range(at) = {n \in 1 .. N : Failed(rs)[n]}
      /\ list \in Seq(Events) /\ Len(list) = Len(at)
      /\ \A i \in 1 .. Len(at) : list[i] = values[at[i]]
  <2>1. at = Kept(Failed(rs), N)
    BY Zenon DEF FailedAt, N
  <2> HIDE DEF at, list
  <2>2. KeptInOrder(Kept(Failed(rs), N), Appended(Failed(rs), values), Failed(rs), N, values, Events)
    BY <1>1, <1>2, <1>3, AppendedIs, Zenon
  <2>3. KeptInOrder(at, list, Failed(rs), N, values, Events)
    BY <1>5, <2>1, <2>2, Zenon
  <2> QED BY <2>3, Zenon DEF KeptInOrder
<1>7. /\ errors \in Seq(S) /\ Len(errors) = Len(at)
      /\ \A i \in 1 .. Len(at) : errors[i] = records[at[i]]
  <2>1. at = Kept(Failed(rs), N)
    BY Zenon DEF FailedAt, N
  <2> HIDE DEF at, errors
  <2>2. KeptInOrder(Kept(Failed(rs), N), Appended(Failed(rs), records), Failed(rs), N, records, S)
    BY <1>1, <1>2, <1>4, AppendedIs, Zenon
  <2>3. KeptInOrder(at, errors, Failed(rs), N, records, S)
    BY <1>5, <2>1, <2>2, Zenon
  <2> QED BY <2>3, Zenon DEF KeptInOrder
<1>8. Range(at) = {n \in 1 .. N : ~rs[n].Success}
    BY <1>1, <1>6, ZenonT(30) DEF Failed
<1> HIDE DEF list, at, errors
<1>9. /\ DOMAIN list = DOMAIN at /\ DOMAIN errors = DOMAIN at /\ DOMAIN at = 1 .. Len(at)
      /\ \A i \in DOMAIN at : at[i] \in 1 .. N
    BY <1>6, <1>7, Elements, Zenon
<1>10. \A i \in DOMAIN at : list[i] = events[at[i]]
    BY <1>1, <1>6, <1>9, Zenon DEF values
<1>11. \A i \in DOMAIN at : errors[i] = [Event |-> events[at[i]], Error |-> rs[at[i]].Error]
    BY <1>1, <1>7, <1>9, Zenon DEF records
<1> QED BY <1>6, <1>8, <1>9, <1>10, <1>11, Zenon DEF list, at, errors, N

\* Numbers in order are not more than they may be.
LEMMA NotMore ==
    ASSUME NEW N \in Nat, NEW at \in Seq(1 .. N), Increasing(at)
    PROVE  Len(at) <= N
<1> DEFINE Wrong == {i \in 1 .. Len(at) : at[i] < i}
<1>0. Len(at) \in Nat /\ DOMAIN at = 1 .. Len(at) /\ \A i \in 1 .. Len(at) : at[i] \in 1 .. N
    OBVIOUS
<1>1. ASSUME Wrong # {} PROVE FALSE
  <2>1. PICK n \in Wrong : \A m \in Wrong : n <= m
    <3>1. Wrong \in SUBSET Nat
        OBVIOUS
    <3> HIDE DEF Wrong
    <3> QED BY <1>1, <3>1, LeastNat, ZenonT(30)
  <2>2. n \in 1 .. Len(at) /\ at[n] < n /\ n # 1
    BY <1>0, <2>1
  <2>3. n - 1 \in 1 .. Len(at) /\ n - 1 < n /\ ~(n <= n - 1)
    BY <1>0, <2>2
  <2>4. ~(at[n - 1] < n - 1)
    BY <2>1, <2>3
  <2>5. at[n - 1] < at[n]
    BY <1>0, <2>2, <2>3, Zenon DEF Increasing
  <2> HIDE DEF Wrong
  <2> QED BY <1>0, <2>2, <2>3, <2>4, <2>5
<1>2. CASE Len(at) = 0
    BY <1>2
<1>3. CASE Len(at) # 0
  <2>1. Len(at) \in 1 .. Len(at)
    BY <1>0, <1>3
  <2>2. ~(at[Len(at)] < Len(at))
    BY <1>1, <2>1
  <2> QED BY <1>0, <2>1, <2>2
<1> QED BY <1>2, <1>3

LEMMA EventsAreNumbers == ASSUME NEW a \in Seq(Events) PROVE a \in Seq(Int)
    BY EventsAssumption DEF Events

\* What the results say of the events of a batch.
LEMMA Answered ==
    ASSUME TypeInv, OrderInv, results # <<>>
    PROVE  /\ results[1] \in Seq(Results) /\ Len(results[1]) <= Len(cloudEvents)
           /\ DOMAIN inputs = DOMAIN results[1] /\ DOMAIN inputs = DOMAIN Places(cloudEvents)
           /\ WithErrors \subseteq Range(cloudEvents) /\ AcceptedNow \subseteq Range(cloudEvents)
           /\ \A n \in DOMAIN cloudEvents :
                 /\ cloudEvents[n] \in WithErrors
                       <=> n \in DOMAIN results[1] /\ ~results[1][n].Success
                 /\ cloudEvents[n] \in AcceptedNow
                       <=> \E i \in DOMAIN inputs :
                              Places(cloudEvents)[i] = n /\ results[1][i].Success
<1> DEFINE rs == results[1]
           es == cloudEvents
           at == Places(cloudEvents)
           fs == FailedAt(rs)
           list == FilterCloudEventsWithErrors(rs, es)
<1>1. /\ es \in Seq(Events) /\ inputs = MapCloudEventsToPublishDataInputs(es)
      /\ rs \in Seq(Results) /\ Len(rs) = Len(inputs) /\ Increasing(es)
    BY Zenon DEF TypeInv, OrderInv
<1>2. /\ at \in Seq(1 .. Len(es)) /\ Increasing(at)
      /\ Len(inputs) = Len(at) /\ DOMAIN inputs = DOMAIN at
      /\ \A i \in DOMAIN inputs : inputs[i].Payload = es[at[i]]
    BY <1>1, MapIs, Zenon
<1>3. es \in Seq(Int) /\ Len(es) \in Nat /\ DOMAIN es = 1 .. Len(es)
    BY <1>1, EventsAreNumbers, Elements, Zenon
<1>4. Len(rs) <= Len(es)
    BY <1>1, <1>2, <1>3, NotMore, Zenon
<1> HIDE DEF rs, es, at
<1>5. /\ Len(rs) \in Nat /\ DOMAIN rs = 1 .. Len(rs) /\ DOMAIN at = 1 .. Len(at)
      /\ \A i \in DOMAIN at : at[i] \in DOMAIN es
    BY <1>1, <1>2, <1>3, Elements, Zenon
<1>6. /\ fs \in Seq(1 .. Len(rs)) /\ Range(fs) = {n \in 1 .. Len(rs) : ~rs[n].Success}
      /\ DOMAIN list = DOMAIN fs /\ \A i \in DOMAIN fs : list[i] = es[fs[i]]
    BY <1>1, <1>4, FilterIs, Zenon
<1>7. \A n \in 1 .. Len(rs) : n \in DOMAIN es
    BY <1>3, <1>4, <1>5
<1>8. WithErrors = Range(list)
    BY Zenon DEF WithErrors, rs, es
<1> HIDE DEF list, fs
<1>9. \A i \in DOMAIN fs : fs[i] \in 1 .. Len(rs) /\ ~rs[fs[i]].Success
    BY <1>6, Elements
<1>10. WithErrors \subseteq Range(es)
  <2>1. \A i \in DOMAIN list : list[i] \in Range(es)
    BY <1>6, <1>7, <1>9, Zenon DEF Range
  <2> QED BY <1>8, <2>1 DEF Range
<1>11. ASSUME NEW n \in DOMAIN es PROVE es[n] \in WithErrors <=> n \in DOMAIN rs /\ ~rs[n].Success
  <2>1. ASSUME es[n] \in WithErrors PROVE n \in DOMAIN rs /\ ~rs[n].Success
    <3>1. PICK i \in DOMAIN fs : es[n] = es[fs[i]]
      <4>1. \E i \in DOMAIN list : es[n] = list[i]
        BY <1>8, <2>1 DEF Range
      <4> QED BY <1>6, <4>1, Zenon
    <3>2. n = fs[i]
        BY <1>1, <1>3, <1>7, <1>9, <3>1, OnePlace, Zenon
    <3> QED BY <1>5, <1>9, <3>2, Zenon
  <2>2. ASSUME n \in DOMAIN rs, ~rs[n].Success PROVE es[n] \in WithErrors
    <3>1. n \in Range(fs)
        BY <1>5, <1>6, <2>2, Zenon
    <3>2. PICK i \in DOMAIN fs : fs[i] = n
        BY <3>1, Zenon DEF Range
    <3> QED BY <1>6, <1>8, <3>2, Zenon DEF Range
  <2> QED BY <2>1, <2>2, Zenon
<1>12. AcceptedNow = {inputs[i].Payload : i \in {j \in DOMAIN inputs : rs[j].Success}}
    BY Zenon DEF AcceptedNow, rs
<1>13. AcceptedNow \subseteq Range(es)
  <2>1. \A i \in DOMAIN inputs : inputs[i].Payload \in Range(es)
    BY <1>2, <1>5, Zenon DEF Range
  <2> QED BY <1>12, <2>1
<1>14. ASSUME NEW n \in DOMAIN es
       PROVE  es[n] \in AcceptedNow <=> \E i \in DOMAIN inputs : at[i] = n /\ rs[i].Success
  <2>1. ASSUME es[n] \in AcceptedNow PROVE \E i \in DOMAIN inputs : at[i] = n /\ rs[i].Success
    <3>1. PICK i \in DOMAIN inputs : rs[i].Success /\ es[n] = es[at[i]]
      <4>1. \E i \in DOMAIN inputs : rs[i].Success /\ es[n] = inputs[i].Payload
        BY <1>12, <2>1
      <4> QED BY <1>2, <4>1, Zenon
    <3>2. n = at[i]
        BY <1>1, <1>2, <1>3, <1>5, <3>1, OnePlace, Zenon
    <3> QED BY <3>1, <3>2, Zenon
  <2>2. ASSUME NEW i \in DOMAIN inputs, at[i] = n, rs[i].Success PROVE es[n] \in AcceptedNow
    BY <1>2, <1>12, <2>2, Zenon
  <2> QED BY <2>1, <2>2, Zenon
<1>15. DOMAIN inputs = DOMAIN rs
    BY <1>1, <1>2, <1>5, Zenon
<1> QED BY <1>1, <1>2, <1>4, <1>10, <1>11, <1>13, <1>14, <1>15, Zenon DEF rs, es, at

\* An event that marshals, and none before it does not, has its own result.
LEMMA OwnResult ==
    ASSUME TypeInv, OrderInv, results # <<>>, NEW n \in DOMAIN cloudEvents,
           \A j \in 1 .. n : cloudEvents[j] \notin broken
    PROVE  /\ n \in DOMAIN inputs /\ inputs[n].Payload = cloudEvents[n]
           /\ cloudEvents[n] \in WithErrors <=> cloudEvents[n] \notin AcceptedNow
<1> DEFINE at == Places(cloudEvents)
           N == Len(cloudEvents)
<1>1. cloudEvents \in Seq(Events) /\ N \in Nat /\ DOMAIN cloudEvents = 1 .. N
    BY Elements, Zenon DEF TypeInv
<1>2. /\ at \in Seq(1 .. N) /\ Increasing(at)
      /\ Range(at) = {m \in 1 .. N : cloudEvents[m] \notin broken}
    BY <1>1, MapIs, Zenon
<1>3. FirstIn(at, n)
  <2>1. \A j \in 1 .. n : j \in 1 .. N
    BY <1>1
  <2> QED BY <1>2, <2>1, Zenon DEF FirstIn
<1>4. n \in 1 .. N /\ n \in 1 .. n
    BY <1>1
<1> HIDE DEF N, at
<1>5. n \in DOMAIN at /\ at[n] = n
  <2>1. FirstInPlace(at, n)
    BY <1>1, <1>2, <1>3, <1>4, FirstKept, Zenon
  <2> QED BY <1>4, <2>1, Zenon DEF FirstInPlace
<1>6. at \in Seq(Int)
    BY <1>1, <1>2
<1>7. ASSUME NEW i \in DOMAIN at, at[i] = n PROVE i = n
    BY <1>2, <1>5, <1>6, <1>7, OnePlace, Zenon
<1>8. /\ n \in DOMAIN inputs /\ DOMAIN inputs = DOMAIN results[1] /\ DOMAIN inputs = DOMAIN at
      /\ cloudEvents[n] \in WithErrors <=> n \in DOMAIN results[1] /\ ~results[1][n].Success
      /\ cloudEvents[n] \in AcceptedNow
            <=> \E i \in DOMAIN inputs : at[i] = n /\ results[1][i].Success
    BY <1>5, Answered, Zenon DEF at
<1>9. inputs[n].Payload = cloudEvents[n]
  <2>1. inputs[n].Payload = cloudEvents[at[n]]
    BY <1>1, <1>8, MapIs, Zenon DEF TypeInv, at
  <2> QED BY <1>5, <2>1, Zenon
<1> QED BY <1>5, <1>7, <1>8, <1>9, Zenon

\* Nothing is posted for no events.
LEMMA AppendedEmpty == \A kept : Appended(kept, <<>>) = <<>>
<1> TAKE kept
<1>1. Len(<<>>) = 0 /\ 0 \in Nat
    OBVIOUS
<1>2. PICK f : Rounds(f, kept, <<>>, 0) /\ Appended(kept, <<>>) = f[0]
    BY <1>1, AppendedIsLast, Zenon
<1> QED BY <1>1, <1>2, Round, Zenon

\* An event that is newer than those of a list in order is appended.
LEMMA NewLast ==
    ASSUME NEW a \in Seq(Int), NEW x \in Int
    PROVE  /\ Range(Append(a, x)) = Range(a) \cup {x}
           /\ Increasing(a) /\ (\A y \in Range(a) : y < x) => Increasing(Append(a, x))
<1>1. <<x>> \in Seq(Int) /\ Append(a, x) = a \o <<x>>
    OBVIOUS
<1>2. Range(<<x>>) = {x}
    BY DEF Range
<1>3. Increasing(<<x>>)
    BY DEF Increasing
<1> DEFINE b == <<x>>
           c == Append(a, x)
<1>4. b \in Seq(Int) /\ c = a \o b /\ Range(b) = {x} /\ Increasing(b)
    BY <1>1, <1>2, <1>3, Zenon
<1> HIDE DEF b, c
<1>5. Range(c) = Range(a) \cup Range(b)
    BY <1>4, Concatenated, Zenon
<1>6. Increasing(a) /\ (\A y \in Range(a) : y < x) => Increasing(c)
  <2>1. (\A y \in Range(a) : y < x) => \A y \in Range(a), z \in Range(b) : y < z
    BY <1>4, Zenon
  <2> QED BY <1>4, <2>1, Concatenated, Zenon
<1> QED BY <1>4, <1>5, <1>6, Zenon DEF c

-----------------------------------------------------------------------------
(* The steps.  Each keeps the invariant and is one of the abstract outbox.  *)

OutboxStep == skipped' \/ Outbox!Next \/ UNCHANGED <<held, accepted>>

\* What is held.
LEMMA HeldIs ==
    /\ results = <<>> => held = Range(pending) \cup Range(cloudEvents)
    /\ results # <<>> => held = Range(pending) \cup (Range(cloudEvents) \ AcceptedNow)
    BY DEF held

\* ... and after a step.
LEMMA HeldIsThen ==
    /\ results' = <<>> => held' = Range(pending') \cup Range(cloudEvents')
    /\ results' # <<>> => held' = Range(pending') \cup (Range(cloudEvents') \ AcceptedNow')
    BY DEF held

\* Numbers.
LEMMA Numbers ==
    ASSUME TypeInv
    PROVE  /\ pending \in Seq(Int) /\ cloudEvents \in Seq(Int) /\ created \in Nat
           /\ \A e \in Range(pending) \cup Range(cloudEvents) : e \in Int
<1>1. pending \in Seq(Int) /\ cloudEvents \in Seq(Int)
    BY EventsAreNumbers, Zenon DEF TypeInv
<1>2. created \in Nat
    BY DEF TypeInv
<1> QED BY <1>1, <1>2, Elements, Zenon

\* A new event is the last one.
LEMMA CreateStep ==
    ASSUME IInv, Create
    PROVE  IInv' /\ OutboxStep
<1> DEFINE x == created + 1
<1>1. /\ created < MaxEvents /\ created' = x /\ pending' = Append(pending, x)
      /\ UNCHANGED <<broken, cloudEvents, sourced, inputs, results, accepted, skipped>>
    BY Zenon DEF Create
<1>2. TypeInv /\ OrderInv /\ HeldInv
    BY Zenon DEF IInv
<1>3. /\ pending \in Seq(Int) /\ created \in Nat
      /\ \A e \in Range(pending) \cup Range(cloudEvents) : e \in Int
    BY <1>2, Numbers, Zenon
<1>4. x \in Events /\ x \in 0 .. MaxEvents /\ x \in Int
    BY <1>1, <1>3, EventsAssumption DEF Events
<1>5. \A e \in Range(pending) \cup Range(cloudEvents) : e < x /\ e <= x
    BY <1>2, <1>3 DEF OrderInv
<1>6. /\ Range(pending') = Range(pending) \cup {x} /\ Increasing(pending')
  <2>1. Increasing(pending) /\ \A y \in Range(pending) : y < x
    BY <1>2, <1>5, Zenon DEF OrderInv
  <2> HIDE DEF x
  <2> QED BY <1>1, <1>3, <1>4, <2>1, NewLast, Zenon
<1>7. TypeInv'
  <2>1. pending' \in Seq(Events)
    BY <1>1, <1>2, <1>4 DEF TypeInv
  <2>2. inputs' = MapCloudEventsToPublishDataInputs(cloudEvents)'
    BY <1>1, <1>2, Zenon DEF TypeInv, MapCloudEventsToPublishDataInputs
  <2> HIDE DEF x
  <2> QED BY <1>1, <1>2, <1>4, <2>1, <2>2, Zenon DEF TypeInv
<1>8. OrderInv'
  <2>1. x <= x
    BY <1>4
  <2> HIDE DEF x
  <2> QED BY <1>1, <1>2, <1>5, <1>6, <2>1, Zenon DEF OrderInv
<1>9. held' = held \cup {x}
  <2>1. AcceptedNow' = AcceptedNow
    BY <1>1, Zenon DEF AcceptedNow
  <2> HIDE DEF x
  <2> QED BY <1>1, <1>6, <2>1, <1>5, <1>3, <1>4, HeldIs, HeldIsThen
<1>10. 1 .. x = (1 .. created) \cup {x} /\ x \notin 1 .. created
    BY <1>3
<1>11. HeldInv'
  <2> HIDE DEF x
  <2> QED BY <1>1, <1>2, <1>9, <1>10 DEF HeldInv
<1>12. OutboxStep
  <2>1. CASE skipped
    BY <1>1, <2>1, Zenon DEF OutboxStep
  <2>2. CASE ~skipped
    <3> HIDE DEF x
    <3>1. x \notin held \cup accepted
        BY <1>2, <1>10, <2>2, Zenon DEF HeldInv
    <3>2. Outbox!Submit(x)
        BY <1>1, <1>9, <3>1, Zenon DEF Outbox!Submit
    <3> QED BY <1>4, <3>2, Zenon DEF OutboxStep, Outbox!Next
  <2> QED BY <2>1, <2>2
<1> QED BY <1>7, <1>8, <1>11, <1>12, Zenon DEF IInv

\* The batch is what was pending.
LEMMA PublishStep ==
    ASSUME IInv, CreatePublishEventList \/ PublishAgain
    PROVE  IInv' /\ OutboxStep
<1>1. /\ cloudEvents = <<>> /\ cloudEvents' = pending /\ pending' = <<>>
      /\ inputs' = MapCloudEventsToPublishDataInputs(pending)
      /\ skipped' = (skipped \/ \E i \in DOMAIN pending : pending[i] \in broken)
      /\ UNCHANGED <<created, broken, results, accepted>>
      /\ Range(pending) \subseteq sourced'
    BY Zenon DEF CreatePublishEventList, PublishAgain, Publish
<1>2. TypeInv /\ OrderInv /\ HeldInv
    BY Zenon DEF IInv
<1>3. results = <<>>
    BY <1>1, <1>2, Zenon DEF TypeInv
<1>4. Range(<<>>) = {} /\ <<>> \in Seq(Events) /\ Increasing(<<>>)
    BY DEF Range, Increasing
<1>5. TypeInv'
  <2>1. inputs' = MapCloudEventsToPublishDataInputs(cloudEvents)'
    BY <1>1, Zenon DEF MapCloudEventsToPublishDataInputs
  <2> QED BY <1>1, <1>2, <1>3, <1>4, <2>1, Zenon DEF TypeInv
<1>6. OrderInv'
    BY <1>1, <1>2, <1>4, Zenon DEF OrderInv
<1>7. held' = held
    BY <1>1, <1>3, <1>4, HeldIs, HeldIsThen, ZenonT(30)
<1>8. HeldInv'
  <2>1. ~skipped' => ~skipped /\ Range(pending) \cap broken = {}
    BY <1>1, Zenon DEF Range
  <2> QED BY <1>1, <1>2, <1>7, <2>1, Zenon DEF HeldInv
<1>9. OutboxStep
    BY <1>1, <1>7, Zenon DEF OutboxStep
<1> QED BY <1>5, <1>6, <1>8, <1>9, Zenon DEF IInv

\* Upstream accepts some of what was posted.
LEMMA ReplyStep ==
    ASSUME IInv, Reply
    PROVE  IInv' /\ OutboxStep
<1>1. PICK success \in [DOMAIN inputs -> BOOLEAN] :
         /\ results' = <<[i \in DOMAIN inputs |->
                             [Success |-> success[i],
                              Error |-> IF success[i] THEN <<>> ELSE <<inputs[i].Payload>>]]>>
         /\ accepted' = accepted \cup {inputs[i].Payload : i \in {j \in DOMAIN inputs : success[j]}}
    BY Zenon DEF Reply
<1>2. /\ cloudEvents # <<>> /\ results = <<>>
      /\ UNCHANGED <<created, broken, pending, cloudEvents, sourced, inputs, skipped>>
    BY Zenon DEF Reply
<1>3. TypeInv /\ OrderInv /\ HeldInv
    BY Zenon DEF IInv
<1> DEFINE rs == [i \in DOMAIN inputs |-> [Success |-> success[i],
                                           Error |-> IF success[i] THEN <<>> ELSE <<inputs[i].Payload>>]]
           A == {inputs[i].Payload : i \in {j \in DOMAIN inputs : success[j]}}
           at == Places(cloudEvents)
<1>4. /\ inputs \in Seq(Inputs) /\ at \in Seq(1 .. Len(cloudEvents)) /\ DOMAIN inputs = DOMAIN at
      /\ \A i \in DOMAIN inputs : inputs[i].Payload = cloudEvents[at[i]]
    BY <1>3, MapIs, Zenon DEF TypeInv
<1>5. results' # <<>> /\ results'[1] = rs
    BY <1>1, Zenon
<1>6. rs \in Seq(Results) /\ Len(rs) = Len(inputs)
  <2>1. DOMAIN inputs = 1 .. Len(inputs) /\ Len(inputs) \in Nat
    BY <1>4, Elements, Zenon
  <2>2. \A i \in DOMAIN inputs : [Success |-> success[i],
                                  Error |-> IF success[i] THEN <<>> ELSE <<inputs[i].Payload>>] \in Results
    <3>1. ASSUME NEW i \in DOMAIN inputs
          PROVE  <<>> \in Seq(Events) /\ <<inputs[i].Payload>> \in Seq(Events)
      <4>1. inputs[i] \in Inputs
        BY <1>4, Elements, Zenon
      <4>2. inputs[i].Payload \in Events
        BY <4>1, SMT DEF Inputs
      <4> QED BY <4>2
    <3> QED BY <1>1, <3>1, Zenon DEF Results
  <2>3. rs \in [1 .. Len(inputs) -> Results]
    BY <2>1, <2>2, Zenon
  <2> HIDE DEF rs
  <2> QED BY <2>1, <2>3
<1>6a. \A i \in DOMAIN inputs : ~rs[i].Success => rs[i].Error = <<inputs[i].Payload>>
    BY Zenon
<1>7. AcceptedNow' = A
  <2>1. \A i \in DOMAIN inputs : rs[i].Success = success[i]
    BY Zenon
  <2>2. AcceptedNow' = {inputs[i].Payload : i \in {j \in DOMAIN inputs : rs[j].Success}}
    <3> HIDE DEF rs
    <3> QED BY <1>2, <1>5, Zenon DEF AcceptedNow
  <2>3. {j \in DOMAIN inputs : rs[j].Success} = {j \in DOMAIN inputs : success[j]}
    <3> HIDE DEF rs
    <3> QED BY <2>1, Zenon
  <2> HIDE DEF rs
  <2> QED BY <2>2, <2>3, Zenon
<1> HIDE DEF rs, at
<1>8. A \subseteq Range(cloudEvents)
  <2>1. \A i \in DOMAIN inputs : inputs[i].Payload \in Range(cloudEvents)
    <3>1. cloudEvents \in Seq(Events)
        BY <1>3, Zenon DEF TypeInv
    <3>2. \A i \in DOMAIN at : at[i] \in DOMAIN cloudEvents
        BY <1>4, <3>1, Elements, Zenon
    <3> QED BY <1>4, <3>2, Zenon DEF Range
  <2> QED BY <2>1
<1>9. accepted' = accepted \cup A
    BY <1>1, Zenon
<1> HIDE DEF A
<1>10. TypeInv'
  <2>1. inputs' = MapCloudEventsToPublishDataInputs(cloudEvents)'
    BY <1>2, <1>3, Zenon DEF TypeInv, MapCloudEventsToPublishDataInputs
  <2> QED BY <1>2, <1>3, <1>5, <1>6, <1>6a, <2>1, Zenon DEF TypeInv
<1>11. OrderInv'
    BY <1>2, <1>3, Zenon DEF OrderInv
<1>12. held' = held \ A /\ A \subseteq held
  <2>1. \A e \in Range(cloudEvents), p \in Range(pending) : e # p
    BY <1>3, Numbers DEF OrderInv
  <2> QED BY <1>2, <1>5, <1>7, <1>8, <2>1, HeldIs, HeldIsThen
<1>13. HeldInv'
    BY <1>2, <1>3, <1>9, <1>12 DEF HeldInv
<1>14. OutboxStep
  <2>1. Outbox!Transmit(A, A)
    BY <1>9, <1>12, Zenon DEF Outbox!Transmit
  <2>2. A \in SUBSET held
    BY <1>12, Zenon
  <2> QED BY <2>1, <2>2, Zenon DEF OutboxStep, Outbox!Next
<1> QED BY <1>10, <1>11, <1>13, <1>14, Zenon DEF IInv

\* What Published leaves.
LEMMA PublishedTypes ==
    ASSUME TypeInv, Published, UNCHANGED <<created, sourced>>, pending' \in Seq(Events)
    PROVE  TypeInv' /\ Range(cloudEvents') = {} /\ Increasing(cloudEvents')
<1>1. cloudEvents' = <<>> /\ inputs' = <<>> /\ results' = <<>>
    BY Zenon DEF Published
<1>2. Range(<<>>) = {} /\ <<>> \in Seq(Events) /\ Increasing(<<>>)
    BY DEF Range, Increasing
<1>3. [n \in DOMAIN cloudEvents' |-> NewPublishDataInput(cloudEvents'[n])] = <<>>
    BY <1>1
<1>4. inputs' = MapCloudEventsToPublishDataInputs(cloudEvents)'
    BY <1>1, <1>3, AppendedEmpty, Zenon DEF MapCloudEventsToPublishDataInputs, NewPublishDataInput
<1> QED BY <1>1, <1>2, <1>4, Zenon DEF TypeInv

\* The batch, or what is left of it, is put in front of what is pending.
LEMMA PutInFront ==
    ASSUME TypeInv, OrderInv, Published, UNCHANGED <<created, sourced>>,
           NEW list \in Seq(Events), Increasing(list), Range(list) \subseteq Range(cloudEvents),
           pending' = list \o pending
    PROVE  TypeInv' /\ OrderInv' /\ held' = Range(list) \cup Range(pending)
<1>1. pending \in Seq(Events) /\ pending' \in Seq(Events)
    BY DEF TypeInv
<1>2. TypeInv' /\ Range(cloudEvents') = {} /\ Increasing(cloudEvents')
    BY <1>1, PublishedTypes, Zenon
<1>3. list \in Seq(Int) /\ pending \in Seq(Int)
    BY <1>1, EventsAreNumbers, Zenon
<1>4. Range(pending') = Range(list) \cup Range(pending) /\ Increasing(pending')
  <2>1. Increasing(pending) /\ \A e \in Range(list), p \in Range(pending) : e < p
    BY Zenon DEF OrderInv
  <2> QED BY <1>3, <2>1, Concatenated, Zenon
<1>5. OrderInv'
    BY <1>2, <1>4, Zenon DEF OrderInv
<1>6. results' = <<>>
    BY Zenon DEF Published
<1> QED BY <1>2, <1>4, <1>5, <1>6, HeldIsThen

\* The request failed: all are put back.
LEMMA RequestFailsStep ==
    ASSUME IInv, RequestFails
    PROVE  IInv' /\ OutboxStep
<1>1. /\ results = <<>> /\ Published /\ pending' = cloudEvents \o pending
      /\ UNCHANGED <<created, sourced>> /\ UNCHANGED <<broken, accepted, skipped>>
    BY Zenon DEF RequestFails
<1>2. TypeInv /\ OrderInv /\ HeldInv
    BY Zenon DEF IInv
<1>3. cloudEvents \in Seq(Events) /\ Increasing(cloudEvents)
    BY <1>2, Zenon DEF TypeInv, OrderInv
<1>4. TypeInv' /\ OrderInv' /\ held' = Range(cloudEvents) \cup Range(pending)
    BY <1>1, <1>2, <1>3, PutInFront, Zenon
<1>5. held' = held
    BY <1>1, <1>4, HeldIs
<1>6. HeldInv'
  <2>1. Range(cloudEvents') = {}
    BY <1>1 DEF Published, Range
  <2> QED BY <1>1, <1>2, <1>5, <2>1, Zenon DEF HeldInv
<1> QED BY <1>1, <1>4, <1>5, <1>6, Zenon DEF IInv, OutboxStep

\* As long as all marshal, the events with errors are those that were not accepted.
LEMMA ErrorsAreTheRest ==
    ASSUME IInv, results # <<>>, ~skipped
    PROVE  WithErrors = Range(cloudEvents) \ AcceptedNow
<1>1. TypeInv /\ OrderInv /\ Range(cloudEvents) \cap broken = {}
    BY Zenon DEF IInv, HeldInv
<1>2. cloudEvents \in Seq(Events) /\ Len(cloudEvents) \in Nat /\ DOMAIN cloudEvents = 1 .. Len(cloudEvents)
    BY <1>1, Elements, Zenon DEF TypeInv
<1>3. ASSUME NEW n \in DOMAIN cloudEvents
      PROVE  cloudEvents[n] \in WithErrors <=> cloudEvents[n] \notin AcceptedNow
  <2>1. \A j \in 1 .. n : j \in DOMAIN cloudEvents
    BY <1>2
  <2>2. \A j \in 1 .. n : cloudEvents[j] \notin broken
    BY <1>1, <2>1, Zenon DEF Range
  <2> QED BY <1>1, <2>2, OwnResult, Zenon
<1>4. \A e \in Range(cloudEvents) : e \in WithErrors <=> e \notin AcceptedNow
  <2>1. \A e \in Range(cloudEvents) : \E n \in DOMAIN cloudEvents : cloudEvents[n] = e
    BY DEF Range
  <2> QED BY <1>3, <2>1, Zenon
<1>5. WithErrors \subseteq Range(cloudEvents)
    BY <1>1, Answered, Zenon
<1> QED BY <1>4, <1>5, Zenon

\* The events with errors are put back.
LEMMA FilteredStep ==
    ASSUME IInv, Filtered
    PROVE  IInv' /\ OutboxStep
<1> DEFINE rs == results[1]
           list == FilterCloudEventsWithErrors(rs, cloudEvents)
           at == FailedAt(rs)
<1>1. /\ results # <<>> /\ Published /\ pending' = list \o pending
      /\ UNCHANGED <<created, sourced>> /\ UNCHANGED <<broken, accepted, skipped>>
    BY Zenon DEF Filtered
<1>2. TypeInv /\ OrderInv /\ HeldInv
    BY Zenon DEF IInv
<1>3. /\ rs \in Seq(Results) /\ Len(rs) <= Len(cloudEvents)
      /\ WithErrors \subseteq Range(cloudEvents) /\ AcceptedNow \subseteq Range(cloudEvents)
    BY <1>1, <1>2, Answered, Zenon
<1>4. Range(list) = WithErrors
    BY Zenon DEF WithErrors
<1>5. cloudEvents \in Seq(Events) /\ Increasing(cloudEvents) /\ cloudEvents \in Seq(Int)
    BY <1>2, EventsAreNumbers, Zenon DEF TypeInv, OrderInv
<1> HIDE DEF rs
<1>6. /\ at \in Seq(1 .. Len(rs)) /\ Increasing(at)
      /\ list \in Seq(Events) /\ DOMAIN list = DOMAIN at
      /\ \A i \in DOMAIN at : list[i] = cloudEvents[at[i]]
    BY <1>3, <1>5, FilterIs, Zenon
<1> HIDE DEF list, at
<1>7. Increasing(list)
  <2>1. at \in Seq(DOMAIN cloudEvents)
    BY <1>3, <1>5, <1>6
  <2>2. Increasing([i \in DOMAIN at |-> cloudEvents[at[i]]])
    BY <1>5, <1>6, <2>1, InOrderAt, Zenon
  <2>3. \A i, j \in DOMAIN at : i < j => cloudEvents[at[i]] < cloudEvents[at[j]]
    BY <2>2, Zenon DEF Increasing
  <2>4. ASSUME NEW i \in DOMAIN list, NEW j \in DOMAIN list, i < j PROVE list[i] < list[j]
    <3>1. /\ i \in DOMAIN at /\ j \in DOMAIN at
          /\ list[i] = cloudEvents[at[i]] /\ list[j] = cloudEvents[at[j]]
        BY <1>6, Zenon
    <3> QED BY <2>3, <2>4, <3>1, Zenon
  <2> QED BY <2>4, Zenon DEF Increasing
<1>8. TypeInv' /\ OrderInv' /\ held' = Range(list) \cup Range(pending)
    BY <1>1, <1>2, <1>3, <1>4, <1>6, <1>7, PutInFront, Zenon
<1>9. ~skipped => held' = held
    BY <1>1, <1>4, <1>8, ErrorsAreTheRest, HeldIs
<1>10. HeldInv'
  <2>1. Range(cloudEvents') = {}
    BY <1>1 DEF Published, Range
  <2> QED BY <1>1, <1>2, <1>9, <2>1, Zenon DEF HeldInv
<1>11. OutboxStep
    BY <1>1, <1>9, Zenon DEF OutboxStep
<1> QED BY <1>8, <1>10, <1>11, Zenon DEF IInv

-----------------------------------------------------------------------------
(* The theorems.                                                            *)

\* Initially there are no events.
LEMMA Initially == Init => IInv /\ Outbox!Init
<1> SUFFICES ASSUME Init PROVE IInv /\ Outbox!Init
    OBVIOUS
<1>1. /\ created = 0 /\ pending = <<>> /\ cloudEvents = <<>> /\ inputs = <<>> /\ results = <<>>
      /\ sourced = {} /\ accepted = {} /\ skipped = FALSE
    BY Zenon DEF Init
<1>2. Range(<<>>) = {} /\ <<>> \in Seq(Events) /\ Increasing(<<>>)
    BY DEF Range, Increasing
<1>3. TypeInv
  <2>1. [n \in DOMAIN cloudEvents |-> NewPublishDataInput(cloudEvents[n])] = <<>>
    BY <1>1
  <2>2. inputs = MapCloudEventsToPublishDataInputs(cloudEvents)
    BY <1>1, <2>1, AppendedEmpty, Zenon DEF MapCloudEventsToPublishDataInputs
  <2>3. created \in 0 .. MaxEvents
    BY <1>1, EventsAssumption
  <2> QED BY <1>1, <1>2, <2>2, <2>3, Zenon DEF TypeInv
<1>4. OrderInv
    BY <1>1, <1>2, Zenon DEF OrderInv
<1>5. held = {}
    BY <1>1, <1>2, HeldIs
<1>6. HeldInv
    BY <1>1, <1>2, <1>5 DEF HeldInv
<1> QED BY <1>1, <1>3, <1>4, <1>5, <1>6, Zenon DEF IInv, Outbox!Init

\* Nothing happens.
LEMMA Stutter == IInv /\ UNCHANGED vars => IInv' /\ OutboxStep
<1> SUFFICES ASSUME IInv, UNCHANGED vars PROVE IInv' /\ OutboxStep
    OBVIOUS
<1>1. UNCHANGED <<created, broken, pending, cloudEvents, sourced, inputs, results, accepted, skipped>>
    BY Zenon DEF vars
<1>2. held' = held
    BY <1>1, Zenon DEF held, AcceptedNow
<1>3. TypeInv'
  <2>1. inputs' = MapCloudEventsToPublishDataInputs(cloudEvents)'
    BY <1>1, Zenon DEF IInv, TypeInv, MapCloudEventsToPublishDataInputs
  <2> QED BY <1>1, <2>1, Zenon DEF IInv, TypeInv
<1>4. OrderInv' /\ HeldInv'
    BY <1>1, <1>2, Zenon DEF IInv, OrderInv, HeldInv
<1> QED BY <1>1, <1>2, <1>3, <1>4, Zenon DEF IInv, OutboxStep

\* Every step keeps the invariant and is one of the outbox.
LEMMA Steps == IInv /\ [Next]_vars => IInv' /\ OutboxStep
    BY CreateStep, PublishStep, ReplyStep, RequestFailsStep, FilteredStep, Stutter, Zenon DEF Next

\* The inductive invariant holds in every reachable state.
LEMMA Invariance == Spec => []IInv
<1>1. Init => IInv
    BY Initially, Zenon
<1>2. IInv /\ [Next]_vars => IInv'
    BY Steps, Zenon
<1> QED BY <1>1, <1>2, PTL DEF Spec

\* Results and events by position: up to the first event that does not marshal
\* an error is that of its event, and both functions find the same ones.
THEOREM ErrorsMatched == Spec => []ErrorsAreTheirs
<1>1. IInv => ErrorsAreTheirs
  <2> SUFFICES ASSUME IInv, results # <<>>
               PROVE  LET list == CreateCloudEventErrorList(results[1], cloudEvents)
                      IN  /\ \A i \in DOMAIN cloudEvents :
                                (\A j \in 1 .. i : Event(j) \notin broken) =>
                                    /\ Event(i) \in WithErrors <=> Event(i) \notin AcceptedNow
                                    /\ \A k \in DOMAIN list :
                                          list[k].Event = Event(i) => list[k].Error = <<Event(i)>>
                          /\ [i \in DOMAIN list |-> list[i].Event]
                                = FilterCloudEventsWithErrors(results[1], cloudEvents)
    BY Zenon DEF ErrorsAreTheirs
  <2> DEFINE rs == results[1]
             list == CreateCloudEventErrorList(rs, cloudEvents)
             filtered == FilterCloudEventsWithErrors(rs, cloudEvents)
             at == FailedAt(rs)
  <2>1. TypeInv /\ OrderInv
    BY Zenon DEF IInv
  <2>2. rs \in Seq(Results) /\ Len(rs) <= Len(cloudEvents) /\ cloudEvents \in Seq(Events)
    BY <2>1, Answered, Zenon DEF TypeInv
  <2>3. \A i \in DOMAIN cloudEvents :
           (\A j \in 1 .. i : Event(j) \notin broken) =>
               (Event(i) \in WithErrors <=> Event(i) \notin AcceptedNow)
    BY <2>1, OwnResult, Zenon DEF Event
  <2> HIDE DEF rs
  <2>4. /\ at \in Seq(1 .. Len(rs)) /\ Range(at) = {n \in 1 .. Len(rs) : ~rs[n].Success}
        /\ filtered \in Seq(Events) /\ DOMAIN filtered = DOMAIN at /\ DOMAIN list = DOMAIN at
        /\ \A i \in DOMAIN at : filtered[i] = cloudEvents[at[i]]
        /\ \A i \in DOMAIN at : list[i] = [Event |-> cloudEvents[at[i]], Error |-> rs[at[i]].Error]
    BY <2>2, FilterIs, Zenon
  <2> HIDE DEF list, filtered, at
  <2>5. [i \in DOMAIN list |-> list[i].Event] = filtered
    <3>1. ASSUME NEW i \in DOMAIN at PROVE list[i].Event = filtered[i]
      <4>1. /\ filtered[i] = cloudEvents[at[i]]
            /\ list[i] = [Event |-> cloudEvents[at[i]], Error |-> rs[at[i]].Error]
        BY <2>4, Zenon
      <4> QED BY <4>1
    <3>2. filtered = [i \in DOMAIN filtered |-> filtered[i]]
        BY <2>4
    <3> QED BY <2>4, <3>1, <3>2, Zenon
  <2>6. ASSUME NEW i \in DOMAIN cloudEvents, \A j \in 1 .. i : Event(j) \notin broken,
               NEW k \in DOMAIN list, list[k].Event = Event(i)
        PROVE  list[k].Error = <<Event(i)>>
    <3>1. k \in DOMAIN at /\ at[k] \in 1 .. Len(rs) /\ ~rs[at[k]].Success
      <4>1. k \in DOMAIN at /\ at[k] \in Range(at)
        BY <2>4, <2>6, Elements, Zenon
      <4> QED BY <2>4, <4>1, Zenon
    <3>2. list[k].Event = cloudEvents[at[k]] /\ list[k].Error = rs[at[k]].Error
      <4>1. list[k] = [Event |-> cloudEvents[at[k]], Error |-> rs[at[k]].Error]
        BY <2>4, <3>1, Zenon
      <4> QED BY <4>1
    <3>3. at[k] = i
      <4>1. cloudEvents \in Seq(Int) /\ Increasing(cloudEvents)
        BY <2>1, <2>2, EventsAreNumbers, Zenon DEF OrderInv
      <4>2. at[k] \in DOMAIN cloudEvents
        BY <2>2, <3>1
      <4> QED BY <2>6, <3>2, <4>1, <4>2, OnePlace, Zenon DEF Event
    <3>4. i \in DOMAIN inputs /\ inputs[i].Payload = cloudEvents[i]
        BY <2>1, <2>6, OwnResult, Zenon DEF Event
    <3>5. ~rs[i].Success => rs[i].Error = <<inputs[i].Payload>>
        BY <2>1, <3>4, Zenon DEF TypeInv, rs
    <3> QED BY <3>1, <3>2, <3>3, <3>4, <3>5, Zenon DEF Event
  <2> QED BY <2>3, <2>5, <2>6, Zenon DEF list, filtered, rs
<1> QED BY <1>1, Invariance, PTL

\* Retries keep the order of the events and none is there twice; what is posted
\* are those of the batch that marshal, and all have their source.
THEOREM OrderKept == Spec => []InOrder
<1>1. IInv => InOrder
  <2> SUFFICES ASSUME IInv PROVE InOrder
    OBVIOUS
  <2> DEFINE at == Places(cloudEvents)
             posted == [i \in DOMAIN inputs |-> inputs[i].Payload]
  <2>1. TypeInv /\ OrderInv
    BY Zenon DEF IInv
  <2>2. /\ cloudEvents \in Seq(Int) /\ pending \in Seq(Int) /\ cloudEvents \in Seq(Events)
        /\ DOMAIN cloudEvents = 1 .. Len(cloudEvents)
    BY <2>1, Numbers, Elements, Zenon DEF TypeInv
  <2>3. Increasing(cloudEvents \o pending)
    BY <2>1, <2>2, Concatenated, Zenon DEF OrderInv
  <2>4. /\ at \in Seq(1 .. Len(cloudEvents)) /\ Increasing(at)
        /\ Range(at) = {n \in 1 .. Len(cloudEvents) : cloudEvents[n] \notin broken}
        /\ DOMAIN inputs = DOMAIN at
        /\ \A i \in DOMAIN inputs : inputs[i].Payload = cloudEvents[at[i]]
    BY <2>1, <2>2, MapIs, Zenon DEF TypeInv
  <2> HIDE DEF at
  <2>5. posted = [i \in DOMAIN at |-> cloudEvents[at[i]]]
    BY <2>4, Zenon
  <2>6. Increasing(posted)
    BY <2>1, <2>2, <2>4, <2>5, InOrderAt, Zenon DEF OrderInv
  <2>7. Range(posted) = Range(cloudEvents) \ broken
    <3>1. \A i \in DOMAIN at : at[i] \in DOMAIN cloudEvents /\ cloudEvents[at[i]] \notin broken
      <4>1. \A i \in DOMAIN at : at[i] \in Range(at)
        BY <2>4, Elements, Zenon
      <4> QED BY <2>2, <2>4, <4>1, Zenon
    <3>2. \A n \in DOMAIN cloudEvents : cloudEvents[n] \notin broken => \E i \in DOMAIN at : at[i] = n
      <4>1. \A n \in Range(at) : \E i \in DOMAIN at : at[i] = n
        BY DEF Range
      <4> QED BY <2>2, <2>4, <4>1, Zenon
    <3>3. Range(posted) = {cloudEvents[at[i]] : i \in DOMAIN at}
        BY <2>5 DEF Range
    <3> HIDE DEF posted
    <3>4. Range(posted) \subseteq Range(cloudEvents) \ broken
        BY <3>1, <3>3 DEF Range
    <3>5. Range(cloudEvents) \ broken \subseteq Range(posted)
        BY <3>2, <3>3 DEF Range
    <3> QED BY <3>4, <3>5, Zenon
  <2> QED BY <2>1, <2>3, <2>6, <2>7, Zenon DEF InOrder, TypeInv
<1> QED BY <1>1, Invariance, PTL

\* As long as all events marshal every step of the publisher and its caller is one
\* of the abstract outbox, or leaves what is held and accepted.
THEOREM ImplementsOutbox == Spec => OutboxSteps
<1>1. Init => Outbox!Init
    BY Initially, Zenon
<1>2. IInv /\ [Next]_vars => [skipped' \/ Outbox!Next]_<<held, accepted>>
    BY Steps, Zenon DEF OutboxStep
<1> QED BY <1>1, <1>2, Invariance, PTL DEF Spec, OutboxSteps
=============================================================================
