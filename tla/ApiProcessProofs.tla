-------------------------- MODULE ApiProcessProofs --------------------------
(***************************************************************************)
(* What holds of ApiProcess for every number of calls, subscribers,        *)
(* handlers, clients and manifests: proofs of the invariants that the run  *)
(* api_process checks on a small instance.  That every publish returns is  *)
(* left to TLC.                                                            *)
(***************************************************************************)
EXTENDS ApiProcess, FiniteSetTheorems, SequenceTheorems, WellFoundedInduction, TLAPS

-----------------------------------------------------------------------------
(* Sequences.  Induction is an argument about a least counterexample. *)

LEMMA Least ==
    ASSUME NEW S \in SUBSET Nat, S # {}
    PROVE  \E n \in S : \A m \in S : n <= m
<1>1. PICK n \in S : \A m \in S : ~(<<m, n>> \in OpToRel(<, Nat))
  BY NatLessThanWellFounded, WFMin
<1>2. \A m \in S : ~(m < n)
  BY <1>1 DEF OpToRel
<1> QED
  BY <1>2

\* The function by which Only is defined is there.
LEMMA OnlyDefined ==
    ASSUME NEW X, NEW s \in Seq(X), NEW S
    PROVE  \E f : /\ f[0] = <<>>
                  /\ \A n \in 1..Len(s) :
                        f[n] = IF s[n] \in S THEN Append(f[n - 1], s[n]) ELSE f[n - 1]
                  /\ Only(s, S) = f[Len(s)]
<1> DEFINE Value(f, n) == IF n = 0 THEN <<>>
                          ELSE IF s[n] \in S THEN Append(f[n - 1], s[n]) ELSE f[n - 1]
           Solves(f, k) == f = [n \in 0..k |-> Value(f, n)]
           Solvable(k) == \E f : Solves(f, k)
           Bad == {k \in 0..Len(s) : ~Solvable(k)}
<1>0. Len(s) \in Nat
  OBVIOUS
<1>1. Bad = {}
  <2> SUFFICES ASSUME Bad # {} PROVE FALSE
    OBVIOUS
  <2> HIDE DEF Solvable
  <2>0. Bad \in SUBSET Nat
    BY <1>0
  <2>1. PICK k \in Bad : \A m \in Bad : k <= m
    <3> HIDE DEF Bad
    <3> QED
      BY <2>0, Least
  <2>2. k \in Nat /\ k <= Len(s) /\ ~Solvable(k)
    BY <1>0, <2>1
  <2>3. CASE k = 0
    <3>1. Solves([n \in 0..0 |-> <<>>], 0)
      OBVIOUS
    <3> QED
      BY <2>2, <2>3, <3>1 DEF Solvable
  <2>4. CASE k # 0
    <3>1. k - 1 \in 0..Len(s) /\ k - 1 \notin Bad
      BY <1>0, <2>1, <2>2, <2>4
    <3>2. PICK f : Solves(f, k - 1)
      <4>1. Solvable(k - 1)
        BY <3>1
      <4> QED
        BY <4>1 DEF Solvable
    <3> DEFINE g == [n \in 0..k |-> IF n = k THEN Value(f, k) ELSE f[n]]
    <3>3. \A n \in 0..k : g[n] = Value(g, n)
      <4> TAKE n \in 0..k
      <4>1. CASE n = k
        <5>1. k - 1 \in 0..k /\ k - 1 # k
          BY <2>2, <2>4
        <5>2. g[k - 1] = f[k - 1]
          BY <5>1
        <5> QED
          BY <4>1, <5>2, <2>2
      <4>2. CASE n # k
        <5>1. n \in 0..(k - 1)
          BY <4>2, <2>2
        <5>2. f[n] = Value(f, n) /\ g[n] = f[n]
          BY <3>2, <4>2, <5>1
        <5>3. CASE n = 0
          BY <5>2, <5>3
        <5>4. CASE n # 0
          <6>1. n - 1 \in 0..k /\ n - 1 # k
            BY <5>1, <5>4, <2>2
          <6>2. g[n - 1] = f[n - 1]
            BY <6>1
          <6> QED
            BY <5>2, <5>4, <6>2
        <5> QED
          BY <5>3, <5>4
      <4> QED
        BY <4>1, <4>2
    <3>4. Solves(g, k)
      BY <3>3
    <3> QED
      <4> HIDE DEF Solves, g
      <4> QED
        BY <2>2, <3>4 DEF Solvable
  <2> QED
    BY <2>3, <2>4
<1>2. PICK f0 : Solves(f0, Len(s))
  <2>1. Solvable(Len(s))
    <3> HIDE DEF Solvable
    <3> QED
      BY <1>0, <1>1
  <2> QED
    BY <2>1
<1> DEFINE F == CHOOSE f : Solves(f, Len(s))
<1>3. Solves(F, Len(s))
  BY <1>2
<1>4. Only(s, S) = F[Len(s)]
  BY DEF Only
<1>5. \A n \in 0..Len(s) : F[n] = Value(F, n)
  <2> HIDE DEF F
  <2> QED
    BY <1>0, <1>3
<1> HIDE DEF F
<1>6. F[0] = <<>> /\ \A n \in 1..Len(s) :
          F[n] = IF s[n] \in S THEN Append(F[n - 1], s[n]) ELSE F[n - 1]
  BY <1>0, <1>5
<1> QED
  BY <1>4, <1>6

\* Induction over an interval, with the set of numbers for which the claim holds.
LEMMA Induct ==
    ASSUME NEW N \in Nat, NEW G, 0 \in G, \A n \in 1..N : n - 1 \in G => n \in G
    PROVE  \A n \in 0..N : n \in G
<1> DEFINE Bad == {n \in 0..N : n \notin G}
<1> SUFFICES ASSUME Bad # {} PROVE FALSE
  OBVIOUS
<1>1. Bad \in SUBSET Nat
  OBVIOUS
<1>2. PICK k \in Bad : \A m \in Bad : k <= m
  <2> HIDE DEF Bad
  <2> QED
    BY <1>1, Least
<1>3. k \in 1..N /\ k \notin G
  BY <1>2
<1>4. k - 1 \in G
  BY <1>2, <1>3
<1> QED
  BY <1>3, <1>4

Items(s) == {s[i] : i \in 1..Len(s)}

Distinct(s) == \A i, j \in 1..Len(s) : s[i] = s[j] => i = j

\* The members of S that s has stay, in whatever place, and are as different as before.
LEMMA OnlyKeeps ==
    ASSUME NEW X, NEW s \in Seq(X), NEW S
    PROVE  /\ Only(s, S) \in Seq(X)
           /\ Items(Only(s, S)) = Items(s) \intersect S
           /\ Distinct(s) => Distinct(Only(s, S))
<1>1. PICK f : /\ f[0] = <<>>
               /\ \A n \in 1..Len(s) :
                     f[n] = IF s[n] \in S THEN Append(f[n - 1], s[n]) ELSE f[n - 1]
               /\ Only(s, S) = f[Len(s)]
  BY OnlyDefined
<1> DEFINE Holds(t, n) ==
               /\ t \in Seq(X)
               /\ \A i \in 1..Len(t) : \E j \in 1..n : s[j] \in S /\ t[i] = s[j]
               /\ \A j \in 1..n : s[j] \in S => \E i \in 1..Len(t) : t[i] = s[j]
               /\ Distinct(s) => Distinct(t)
           G == {n \in 0..Len(s) : Holds(f[n], n)}
<1>2. Len(s) \in Nat
  OBVIOUS
<1>3. Holds(<<>>, 0)
  BY DEF Distinct
<1>4. 0 \in G
  <2> HIDE DEF Holds
  <2> QED
    BY <1>1, <1>2, <1>3
<1>5. ASSUME NEW n \in 1..Len(s), n - 1 \in G PROVE n \in G
  <2> DEFINE t == f[n - 1]
  <2>1. Holds(t, n - 1)
    <3> HIDE DEF Holds
    <3> QED
      BY <1>5
  <2>2. f[n] = IF s[n] \in S THEN Append(t, s[n]) ELSE t
    BY <1>1
  <2>0. n \in 0..Len(s) /\ n \in Nat /\ n - 1 \in Nat
    BY <1>2
  <2>3. s[n] \in X
    OBVIOUS
  <2> HIDE DEF t
  <2>4. CASE s[n] \notin S
    <3>1. Holds(t, n)
      BY <1>2, <2>1, <2>4
    <3> HIDE DEF Holds
    <3> QED
      BY <2>0, <2>2, <2>4, <3>1
  <2>5. CASE s[n] \in S
    <3> DEFINE u == Append(t, s[n])
    <3>1. /\ u \in Seq(X) /\ Len(u) = Len(t) + 1 /\ Len(t) \in Nat
          /\ \A i \in 1..Len(t) : u[i] = t[i]
          /\ u[Len(t) + 1] = s[n]
      BY <2>1, <2>3
    <3> HIDE DEF u
    <3>2. ASSUME NEW i \in 1..Len(u) PROVE \E j \in 1..n : s[j] \in S /\ u[i] = s[j]
      <4>1. CASE i = Len(t) + 1
        BY <2>0, <2>5, <3>1, <4>1
      <4>2. CASE i # Len(t) + 1
        <5>1. i \in 1..Len(t) /\ u[i] = t[i]
          BY <3>1, <4>2
        <5>2. PICK j \in 1..(n - 1) : s[j] \in S /\ t[i] = s[j]
          BY <2>1, <5>1
        <5> QED
          BY <2>0, <5>1, <5>2
      <4> QED
        BY <4>1, <4>2
    <3>3. ASSUME NEW j \in 1..n, s[j] \in S PROVE \E i \in 1..Len(u) : u[i] = s[j]
      <4>1. CASE j = n
        BY <3>1, <4>1
      <4>2. CASE j # n
        <5>1. j \in 1..(n - 1)
          BY <2>0, <4>2
        <5>2. PICK i \in 1..Len(t) : t[i] = s[j]
          BY <2>1, <3>3, <5>1
        <5> QED
          BY <3>1, <5>2
      <4> QED
        BY <4>1, <4>2
    <3>4. ASSUME Distinct(s) PROVE Distinct(u)
      <4>1. ASSUME NEW i \in 1..Len(t) PROVE t[i] # s[n]
        <5>1. PICK j \in 1..(n - 1) : t[i] = s[j]
          BY <2>1
        <5>2. j \in 1..Len(s) /\ n \in 1..Len(s) /\ j # n
          BY <1>2, <2>0
        <5> QED
          BY <3>4, <5>1, <5>2 DEF Distinct
      <4> QED
        BY <2>1, <3>1, <3>4, <4>1 DEF Distinct
    <3>5. Holds(u, n)
      BY <3>1, <3>2, <3>3, <3>4
    <3>6. f[n] = u
      BY <2>2, <2>5 DEF u
    <3> HIDE DEF Holds
    <3> QED
      BY <2>0, <3>5, <3>6
  <2> QED
    BY <2>4, <2>5
<1>6. Len(s) \in G
  <2> HIDE DEF G
  <2>1. \A n \in 1..Len(s) : n - 1 \in G => n \in G
    BY <1>5
  <2>2. \A n \in 0..Len(s) : n \in G
    BY <1>2, <1>4, <2>1, Induct
  <2> QED
    BY <1>2, <2>2
<1>7. Holds(Only(s, S), Len(s))
  <2> HIDE DEF Holds
  <2> QED
    BY <1>1, <1>6
<1> QED
  <2> DEFINE t == Only(s, S)
  <2> HIDE DEF t
  <2>1. Holds(t, Len(s))
    BY <1>7 DEF t
  <2>2. \A x : x \in Items(t) <=> x \in Items(s) /\ x \in S
    <3> TAKE x
    <3>1. ASSUME x \in Items(t) PROVE x \in Items(s) /\ x \in S
      <4>1. PICK i \in 1..Len(t) : x = t[i]
        BY <3>1 DEF Items
      <4> QED
        BY <2>1, <4>1 DEF Items
    <3>2. ASSUME x \in Items(s), x \in S PROVE x \in Items(t)
      <4>1. PICK j \in 1..Len(s) : x = s[j]
        BY <3>2 DEF Items
      <4> QED
        BY <2>1, <3>2, <4>1 DEF Items
    <3> QED
      BY <3>1, <3>2
  <2>3. Items(t) = Items(s) \intersect S
    BY <2>2
  <2> QED
    BY <2>1, <2>3 DEF t

\* When it is the items behind the k-th that stay, they are a part of the sequence.
LEMMA OnlySuffix ==
    ASSUME NEW X, NEW s \in Seq(X), NEW S, NEW k \in 0..Len(s),
           \A i \in 1..Len(s) : s[i] \in S <=> i > k
    PROVE  Only(s, S) = SubSeq(s, k + 1, Len(s))
<1>1. PICK f : /\ f[0] = <<>>
               /\ \A n \in 1..Len(s) :
                     f[n] = IF s[n] \in S THEN Append(f[n - 1], s[n]) ELSE f[n - 1]
               /\ Only(s, S) = f[Len(s)]
  BY OnlyDefined
<1> DEFINE Holds(t, n) ==
               /\ t \in Seq(X)
               /\ Len(t) = IF n <= k THEN 0 ELSE n - k
               /\ \A i \in 1..Len(t) : t[i] = s[k + i]
           G == {n \in 0..Len(s) : Holds(f[n], n)}
<1>2. Len(s) \in Nat
  OBVIOUS
<1>3. Holds(<<>>, 0)
  BY <1>2
<1>4. 0 \in G
  <2> HIDE DEF Holds
  <2> QED
    BY <1>1, <1>2, <1>3
<1>5. ASSUME NEW n \in 1..Len(s), n - 1 \in G PROVE n \in G
  <2> DEFINE t == f[n - 1]
  <2>1. Holds(t, n - 1)
    <3> HIDE DEF Holds
    <3> QED
      BY <1>5
  <2>2. f[n] = IF s[n] \in S THEN Append(t, s[n]) ELSE t
    BY <1>1
  <2>0. n \in 0..Len(s) /\ n \in Nat /\ n - 1 \in Nat
    BY <1>2
  <2>3. s[n] \in X
    OBVIOUS
  <2> HIDE DEF t
  <2>4. CASE n <= k
    <3>1. s[n] \notin S
      BY <1>2, <2>4
    <3>2. Holds(t, n)
      BY <1>2, <2>1, <2>4
    <3> HIDE DEF Holds
    <3> QED
      BY <2>0, <2>2, <3>1, <3>2
  <2>5. CASE n > k
    <3> DEFINE u == Append(t, s[n])
    <3>1. /\ u \in Seq(X) /\ Len(u) = Len(t) + 1 /\ Len(t) \in Nat
          /\ \A i \in 1..Len(t) : u[i] = t[i]
          /\ u[Len(t) + 1] = s[n]
      BY <2>1, <2>3
    <3>2. s[n] \in S
      BY <1>2, <2>5
    <3> HIDE DEF u
    <3>3. Len(t) = n - 1 - k
      BY <2>1, <2>5
    <3>6. ASSUME NEW i \in 1..Len(u) PROVE u[i] = s[k + i]
      <4>1. CASE i = Len(t) + 1
        <5>1. k + i = n
          BY <2>0, <3>3, <4>1
        <5> QED
          BY <3>1, <4>1, <5>1
      <4>2. CASE i # Len(t) + 1
        BY <2>1, <3>1, <4>2
      <4> QED
        BY <4>1, <4>2
    <3>4. Holds(u, n)
      BY <2>0, <2>5, <3>1, <3>3, <3>6
    <3>5. f[n] = u
      BY <2>2, <3>2 DEF u
    <3> HIDE DEF Holds
    <3> QED
      BY <2>0, <3>4, <3>5
  <2> QED
    BY <1>2, <2>4, <2>5
<1>6. Len(s) \in G
  <2> HIDE DEF G
  <2>1. \A n \in 1..Len(s) : n - 1 \in G => n \in G
    BY <1>5
  <2>2. \A n \in 0..Len(s) : n \in G
    BY <1>2, <1>4, <2>1, Induct
  <2> QED
    BY <1>2, <2>2
<1>7. Holds(Only(s, S), Len(s))
  <2> HIDE DEF Holds
  <2> QED
    BY <1>1, <1>6
<1> DEFINE t == Only(s, S)
           u == SubSeq(s, k + 1, Len(s))
<1>8. u \in Seq(X) /\ Len(u) = Len(s) - k /\ \A i \in 1..Len(u) : u[i] = s[k + i]
  BY <1>2
<1>9. t \in Seq(X) /\ Len(t) = Len(u) /\ \A i \in 1..Len(t) : t[i] = u[i]
  BY <1>2, <1>7, <1>8
<1> QED
  <2> HIDE DEF t, u
  <2>1. t = u
    BY <1>8, <1>9
  <2> QED
    BY <2>1 DEF t, u

LEMMA Suffix ==
    ASSUME NEW X, NEW s \in Seq(X), NEW k \in 0..Len(s),
           NEW t, t = SubSeq(s, k + 1, Len(s))
    PROVE  /\ t \in Seq(X) /\ Len(t) = Len(s) - k
           /\ \A i \in 1..Len(t) : t[i] = s[k + i] /\ k + i \in 1..Len(s)
<1>1. Len(s) \in Nat
  OBVIOUS
<1> QED
  BY <1>1

LEMMA SameItems ==
    ASSUME NEW X, NEW s \in Seq(X), NEW t \in Seq(X), Len(s) = Len(t),
           \A i \in 1..Len(s) : s[i] = t[i]
    PROVE  s = t
  OBVIOUS

\* The leading items of a sequence are those in front of the first one outside.
LEMMA LeadingItems ==
    ASSUME NEW X, NEW s \in Seq(X), NEW S
    PROVE  /\ Leading(s, S) \in 0..Len(s)
           /\ \A i \in 1..Leading(s, S) : s[i] \in S
           /\ Leading(s, S) < Len(s) => s[Leading(s, S) + 1] \notin S
<1> DEFINE Out == {n \in 1..Len(s) : s[n] \notin S}
<1>1. Len(s) \in Nat /\ DOMAIN s = 1..Len(s)
  OBVIOUS
<1>2. PICK k \in 0..Len(s) : /\ \A i \in 1..k : s[i] \in S
                             /\ k < Len(s) => s[k + 1] \notin S
  <2>1. CASE Out = {}
    BY <1>1, <2>1
  <2>2. CASE Out # {}
    <3>1. Out \in SUBSET Nat
      BY <1>1
    <3>2. PICK n \in Out : \A m \in Out : n <= m
      <4> HIDE DEF Out
      <4> QED
        BY <2>2, <3>1, Least
    <3>3. n - 1 \in 0..Len(s) /\ (\A i \in 1..(n - 1) : s[i] \in S) /\ s[(n - 1) + 1] \notin S
      BY <1>1, <3>2
    <3> QED
      BY <3>3
  <2> QED
    BY <2>1, <2>2
<1>3. {n \in DOMAIN s : \A i \in 1..n : s[i] \in S} = 1..k
  BY <1>1, <1>2
<1>4. Leading(s, S) = k
  <2>1. Cardinality(1..k) = k
    BY <1>1, FS_Interval
  <2> QED
    BY <1>3, <2>1 DEF Leading
<1> QED
  BY <1>2, <1>4

-----------------------------------------------------------------------------
(* The rate limiter *)

Entry == [key : Clients, times : Seq(R!Age)]

\* The oldest instant comes first.
Decreasing(times) == \A i, j \in 1..Len(times) : i <= j => times[i] >= times[j]

\* What a client was told of its window: it has as many requests left as it was told,
\* and if it had none, one is a window old when its delay is over.
Agrees(times, t) ==
    t # None =>
        /\ Len(times) <= Limit - t.remaining
        /\ t.wait # None => Len(times) < Limit \/ t.wait >= Window - times[1]

EntrySound(times, let, t) ==
    /\ Decreasing(times)
    /\ Len(times) <= Limit
    /\ let = R!Pruned(times)
    /\ Agrees(times, t)

\* The dictionary of windows, the requests let through and what clients were told.
Tracks(dict, let, t) ==
    /\ dict \in Seq(Entry)
    /\ Len(dict) <= MaxTrackedKeys
    /\ \A i, j \in 1..Len(dict) : dict[i].key = dict[j].key => i = j
    /\ \A i \in 1..Len(dict) : EntrySound(dict[i].times, let[dict[i].key], t[dict[i].key])
    /\ \A k \in Clients : (\A i \in 1..Len(dict) : dict[i].key # k) => let[k] = <<>>

LimiterInv ==
    /\ admitted = [k \in Clients |-> admitted[k]]
    /\ told \in [Clients -> R!Told \union {None}]
    /\ Tracks(windows, admitted, told)
    /\ answer # None => (answer.entitled => answer.allowed)

\* The first k instants are a window old.
Expires(times, k) == \A i \in 1..Len(times) : times[i] < Window <=> i > k

LEMMA PrunedAt ==
    ASSUME NEW times \in Seq(R!Age), Decreasing(times)
    PROVE  \E k \in 0..Len(times) :
              /\ Expires(times, k)
              /\ R!Pruned(times) = SubSeq(times, k + 1, Len(times))
<1> DEFINE Old == {t \in R!Age : t >= Window}
           k == Leading(times, Old)
<1>1. k = R!Leading(times, Old)
  <2>1. \A S : R!Cardinality(S) = Cardinality(S)
    BY DEF R!Cardinality, Cardinality
  <2> QED
    BY <2>1 DEF Leading, R!Leading
<1>2. R!Pruned(times) = SubSeq(times, k + 1, Len(times))
  BY <1>1 DEF R!Pruned, R!Behind
<1>3. /\ k \in 0..Len(times)
      /\ \A i \in 1..k : times[i] \in Old
      /\ k < Len(times) => times[k + 1] \notin Old
  <2> HIDE DEF Old
  <2> QED
    BY LeadingItems
<1>4. Len(times) \in Nat /\ Window \in Nat /\ \A i \in 1..Len(times) : times[i] \in R!Age
  BY ProcessAssumption
<1> HIDE DEF k
<1>5. \A i \in 1..Len(times) : times[i] \in Nat
  BY <1>4 DEF R!Age
<1>6. Expires(times, k)
  <2> SUFFICES ASSUME NEW i \in 1..Len(times) PROVE times[i] < Window <=> i > k
    BY DEF Expires
  <2>1. CASE i <= k
    BY <1>3, <1>4, <1>5, <2>1
  <2>2. CASE i > k
    <3>1. k + 1 \in 1..Len(times) /\ k + 1 <= i
      BY <1>3, <1>4, <2>2
    <3>2. times[k + 1] < Window
      BY <1>3, <1>4, <1>5, <3>1
    <3>3. times[k + 1] >= times[i]
      BY <3>1 DEF Decreasing
    <3> QED
      BY <1>4, <1>5, <2>2, <3>1, <3>2, <3>3
  <2> QED
    BY <1>3, <1>4, <2>1, <2>2
<1> QED
  BY <1>2, <1>3, <1>6

LEMMA ExpiresOnce ==
    ASSUME NEW times \in Seq(R!Age), NEW k \in 0..Len(times), NEW m \in 0..Len(times),
           Expires(times, k), Expires(times, m)
    PROVE  k = m
<1>1. Len(times) \in Nat
  OBVIOUS
<1>2. CASE k < m
  <2>1. m \in 1..Len(times)
    BY <1>1, <1>2
  <2> QED
    BY <1>1, <1>2, <2>1 DEF Expires
<1>3. CASE m < k
  <2>1. k \in 1..Len(times)
    BY <1>1, <1>3
  <2> QED
    BY <1>1, <1>3, <2>1 DEF Expires
<1> QED
  BY <1>1, <1>2, <1>3

\* Pruning gives a window of fresh instants, which pruning leaves alone.
LEMMA PrunedFresh ==
    ASSUME NEW times \in Seq(R!Age), Decreasing(times), NEW fresh, fresh = R!Pruned(times)
    PROVE  /\ fresh \in Seq(R!Age) /\ Decreasing(fresh)
           /\ Len(fresh) <= Len(times)
           /\ \A i \in 1..Len(fresh) : fresh[i] < Window
           /\ Len(times) > 0 /\ times[1] >= Window => Len(fresh) < Len(times)
<1>1. PICK k \in 0..Len(times) :
              /\ Expires(times, k)
              /\ R!Pruned(times) = SubSeq(times, k + 1, Len(times))
  BY PrunedAt
<1>2. Len(times) \in Nat /\ Window \in Nat /\ \A i \in 1..Len(times) : times[i] \in R!Age
  BY ProcessAssumption
<1>3. /\ fresh \in Seq(R!Age) /\ Len(fresh) = Len(times) - k
      /\ \A i \in 1..Len(fresh) : fresh[i] = times[k + i]
  BY <1>1, <1>2
<1>4. \A i \in 1..Len(fresh) : k + i \in 1..Len(times) /\ k + i > k
  BY <1>2, <1>3
<1>5. \A i \in 1..Len(fresh) : fresh[i] < Window
  BY <1>1, <1>3, <1>4 DEF Expires
<1>6. Decreasing(fresh)
  BY <1>2, <1>3, <1>4 DEF Decreasing
<1>7. ASSUME Len(times) > 0, times[1] >= Window PROVE Len(fresh) < Len(times)
  <2>1. 1 \in 1..Len(times) /\ times[1] \in Nat
    BY <1>2, <1>7 DEF R!Age
  <2>2. k >= 1
    BY <1>1, <1>2, <1>7, <2>1 DEF Expires
  <2> QED
    BY <1>2, <1>3, <2>2
<1>8. Len(fresh) <= Len(times)
  BY <1>2, <1>3
<1> QED
  BY <1>3, <1>5, <1>6, <1>7, <1>8

LEMMA FreshStays ==
    ASSUME NEW times \in Seq(R!Age), Decreasing(times),
           \A i \in 1..Len(times) : times[i] < Window
    PROVE  R!Pruned(times) = times
<1>1. PICK k \in 0..Len(times) :
              /\ Expires(times, k)
              /\ R!Pruned(times) = SubSeq(times, k + 1, Len(times))
  BY PrunedAt
<1>2. Len(times) \in Nat
  OBVIOUS
<1>3. Expires(times, 0)
  BY <1>2 DEF Expires
<1>4. k = 0
  BY <1>1, <1>2, <1>3, ExpiresOnce
<1> QED
  BY <1>1, <1>2, <1>4

\* One entry of the dictionary changes.
LEMMA EntryChanges ==
    ASSUME NEW dict, NEW let, NEW t, Tracks(dict, let, t),
           NEW i \in 1..Len(dict), NEW k \in Clients, dict[i].key = k,
           NEW times \in Seq(R!Age), NEW let2, NEW t2,
           \A c \in Clients \ {k} : let2[c] = let[c] /\ t2[c] = t[c],
           EntrySound(times, let2[k], t2[k])
    PROVE  Tracks([dict EXCEPT ![i].times = times], let2, t2)
<1> DEFINE new == [key |-> k, times |-> times]
           after == [dict EXCEPT ![i].times = times]
<1>1. dict \in Seq(Entry) /\ Len(dict) \in Nat /\ \A j \in 1..Len(dict) : dict[j] \in Entry
  BY DEF Tracks
<1>2. [dict[i] EXCEPT !.times = times] = new
  BY <1>1 DEF Entry
<1>3. new \in Entry /\ new.key = k /\ new.times = times
  BY DEF Entry
<1> HIDE DEF new
<1>4. after = [dict EXCEPT ![i] = new]
  BY <1>2
<1> HIDE DEF after
<1>5. /\ after \in Seq(Entry) /\ Len(after) = Len(dict)
      /\ after[i] = new
      /\ \A j \in 1..Len(dict) : j # i => after[j] = dict[j]
  BY <1>1, <1>3, <1>4
<1>6. \A j \in 1..Len(dict) : after[j].key = dict[j].key
  BY <1>3, <1>5
<1>7. ASSUME NEW j \in 1..Len(dict)
      PROVE  EntrySound(after[j].times, let2[after[j].key], t2[after[j].key])
  <2>1. CASE j = i
    BY <1>3, <1>5, <2>1
  <2>2. CASE j # i
    <3>1. dict[j].key \in Clients \ {k}
      BY <1>1, <2>2 DEF Tracks, Entry
    <3> QED
      BY <1>5, <2>2, <3>1 DEF Tracks
  <2> QED
    BY <2>1, <2>2
<1>8. ASSUME NEW c \in Clients, \A j \in 1..Len(dict) : after[j].key # c PROVE let2[c] = <<>>
  BY <1>6, <1>8 DEF Tracks
<1> QED
  BY <1>5, <1>6, <1>7, <1>8 DEF Tracks, after

\* _window_for leaves the dictionary sound, with an entry for the key.
LEMMA WindowIsThere ==
    ASSUME LimiterInv, NEW k \in Clients
    PROVE  LET dict == R!WindowFor(k)
               let == [c \in Clients |-> IF c \in R!Dropped(k) THEN <<>> ELSE admitted[c]]
           IN  /\ Tracks(dict, let, told)
               /\ \E i \in 1..Len(dict) : dict[i].key = k
               /\ k \notin R!Dropped(k)
<1> DEFINE let == [c \in Clients |-> IF c \in R!Dropped(k) THEN <<>> ELSE admitted[c]]
           Held(dict) == \E i \in 1..Len(dict) : dict[i].key = k
           fresh == [key |-> k, times |-> <<>>]
<1>1. /\ windows \in Seq(Entry) /\ Len(windows) \in Nat /\ DOMAIN windows = 1..Len(windows)
      /\ \A i \in 1..Len(windows) : windows[i] \in Entry
      /\ Limit \in Nat /\ Limit > 0 /\ MaxTrackedKeys \in Nat /\ MaxTrackedKeys > 0
  BY ProcessAssumption DEF LimiterInv, Tracks
<1>2. CASE Held(windows)
  <2>1. R!Dropped(k) = {}
    BY <1>1, <1>2 DEF R!Dropped
  <2>2. R!WindowFor(k) = windows
    BY <1>1, <1>2, <2>1 DEF R!WindowFor
  <2>3. let = admitted
    BY <2>1 DEF LimiterInv
  <2> QED
    BY <1>2, <2>1, <2>2, <2>3 DEF LimiterInv
<1>3. CASE ~Held(windows)
  <2> DEFINE kept == IF R!Dropped(k) = {} THEN windows ELSE Tail(windows)
  <2>1. /\ kept \in Seq(Entry) /\ Len(kept) < MaxTrackedKeys
        /\ \A i, j \in 1..Len(kept) : kept[i].key = kept[j].key => i = j
        /\ \A i \in 1..Len(kept) :
              EntrySound(kept[i].times, let[kept[i].key], told[kept[i].key])
        /\ \A c \in Clients : (\A i \in 1..Len(kept) : kept[i].key # c) => let[c] = <<>>
        /\ ~Held(kept)
        /\ k \notin R!Dropped(k)
    <3>1. CASE Len(windows) < MaxTrackedKeys
      <4>1. R!Dropped(k) = {}
        BY <1>1, <3>1 DEF R!Dropped
      <4>2. kept = windows /\ let = admitted
        BY <4>1 DEF LimiterInv
      <4> HIDE DEF kept, let
      <4> QED
        BY <1>3, <3>1, <4>1, <4>2 DEF LimiterInv, Tracks
    <3>2. CASE Len(windows) >= MaxTrackedKeys
      <4> DEFINE old == windows[1].key
      <4>1. R!Dropped(k) = {old}
        BY <1>1, <1>3, <3>2 DEF R!Dropped
      <4>2. Len(windows) = MaxTrackedKeys /\ windows # <<>> /\ 1 \in 1..Len(windows)
        BY <1>1, <3>2 DEF LimiterInv, Tracks
      <4>3. kept = Tail(windows)
        BY <4>1
      <4>4. /\ kept \in Seq(Entry) /\ Len(kept) = Len(windows) - 1
            /\ \A i \in 1..Len(kept) : kept[i] = windows[i + 1] /\ i + 1 \in 1..Len(windows)
        BY <1>1, <4>2, <4>3
      <4> HIDE DEF kept
      <4>5. ASSUME NEW i \in 1..Len(kept) PROVE kept[i].key \in Clients /\ kept[i].key # old
        <5>1. i + 1 \in 1..Len(windows) /\ i + 1 # 1 /\ kept[i] = windows[i + 1]
          BY <1>1, <4>4
        <5> QED
          BY <1>1, <4>2, <5>1 DEF LimiterInv, Tracks, Entry
      <4>6. \A c \in Clients : c # old => let[c] = admitted[c]
        BY <4>1
      <4>7. let[old] = <<>> /\ old \in Clients /\ old # k
        BY <1>1, <1>3, <4>1, <4>2 DEF Entry
      <4> HIDE DEF let, old
      <4>8. \A i, j \in 1..Len(kept) : kept[i].key = kept[j].key => i = j
        BY <1>1, <4>4 DEF LimiterInv, Tracks
      <4>9. \A i \in 1..Len(kept) :
              EntrySound(kept[i].times, let[kept[i].key], told[kept[i].key])
        BY <4>4, <4>5, <4>6 DEF LimiterInv, Tracks
      <4>10. ASSUME NEW c \in Clients, \A i \in 1..Len(kept) : kept[i].key # c
             PROVE  let[c] = <<>>
        <5>1. CASE c = old
          BY <4>7, <5>1
        <5>2. CASE c # old
          <6>1. ASSUME NEW j \in 1..Len(windows) PROVE windows[j].key # c
            <7>1. CASE j = 1
              BY <5>2, <7>1 DEF old
            <7>2. CASE j # 1
              <8>1. j - 1 \in 1..Len(kept) /\ (j - 1) + 1 = j
                BY <1>1, <4>4, <7>2
              <8> QED
                BY <4>4, <4>10, <8>1
            <7> QED
              BY <7>1, <7>2
          <6> QED
            BY <4>6, <5>2, <6>1 DEF LimiterInv, Tracks
        <5> QED
          BY <5>1, <5>2
      <4>11. ~Held(kept)
        BY <1>3, <4>4
      <4> QED
        BY <1>1, <4>1, <4>2, <4>4, <4>7, <4>8, <4>9, <4>10, <4>11
    <3>3. Len(windows) < MaxTrackedKeys \/ Len(windows) >= MaxTrackedKeys
      BY <1>1
    <3> HIDE DEF kept, let, Held
    <3> QED
      BY <3>1, <3>2, <3>3
  <2>2. R!WindowFor(k) = Append(kept, fresh)
    <3>1. DOMAIN kept = 1..Len(kept)
      BY <2>1
    <3> QED
      BY <2>1, <3>1 DEF R!WindowFor
  <2> DEFINE dict == Append(kept, fresh)
  <2>3. fresh \in Entry /\ fresh.key = k /\ fresh.times = <<>>
    BY DEF Entry
  <2> HIDE DEF kept, fresh
  <2>4. /\ dict \in Seq(Entry) /\ Len(dict) = Len(kept) + 1 /\ Len(kept) \in Nat
        /\ dict[Len(kept) + 1] = fresh
        /\ \A i \in 1..Len(kept) : dict[i] = kept[i]
    BY <2>1, <2>3
  <2> HIDE DEF dict
  <2>5. let[k] = <<>>
    BY <2>1
  <2>6. EntrySound(<<>>, <<>>, told[k])
    <3>1. <<>> \in Seq(R!Age) /\ Len(<<>>) = 0
      OBVIOUS
    <3>2. Decreasing(<<>>)
      BY DEF Decreasing
    <3>3. R!Pruned(<<>>) = <<>>
      <4> DEFINE none == <<>>
      <4>1. none \in Seq(R!Age) /\ Decreasing(none) /\ \A i \in 1..Len(none) : none[i] < Window
        BY <3>1, <3>2
      <4> HIDE DEF none
      <4>2. R!Pruned(none) = none
        BY <4>1, FreshStays
      <4> QED
        BY <4>2 DEF none
    <3>4. Agrees(<<>>, told[k])
      <4>1. told[k] # None => told[k].remaining \in 0..Limit
        BY DEF LimiterInv, R!Told
      <4> QED
        BY <1>1, <3>1, <4>1 DEF Agrees
    <3> QED
      BY <1>1, <3>1, <3>2, <3>3, <3>4 DEF EntrySound
  <2> HIDE DEF let
  <2>7. \A i \in 1..Len(dict) : EntrySound(dict[i].times, let[dict[i].key], told[dict[i].key])
    BY <2>1, <2>3, <2>4, <2>5, <2>6
  <2>8. \A i, j \in 1..Len(dict) : dict[i].key = dict[j].key => i = j
    BY <2>1, <2>3, <2>4
  <2>9. \A c \in Clients : (\A i \in 1..Len(dict) : dict[i].key # c) => let[c] = <<>>
    BY <2>1, <2>4
  <2>10. Len(dict) <= MaxTrackedKeys
    BY <1>1, <2>1, <2>4
  <2>11. Tracks(dict, let, told)
    BY <2>4, <2>7, <2>8, <2>9, <2>10 DEF Tracks
  <2>12. Held(dict)
    BY <2>3, <2>4
  <2> QED
    BY <2>1, <2>2, <2>11, <2>12 DEF dict, let
<1> QED
  BY <1>2, <1>3

\* The delay of a denial covers what is left of the window.
LEMMA DelayCovers ==
    ASSUME NEW times \in Seq(R!Age), Len(times) > 0
    PROVE  R!RetryAfter(times) \in Nat /\ R!RetryAfter(times) >= Window - times[1]
<1>1. Window \in Nat /\ Second \in Nat \ {0} /\ times[1] \in R!Age
  BY ProcessAssumption
<1> DEFINE x == Window - times[1]
<1>2. x \in Nat
  BY <1>1 DEF R!Age
<1> HIDE DEF x
<1> DEFINE q == (x + Second - 1) \div Second
<1>3. q \in Nat /\ q * Second >= x
  BY <1>1, <1>2
<1>4. R!RetryAfter(times) = q * Second
  BY DEF R!RetryAfter, x
<1> HIDE DEF q
<1>5. q * Second \in Nat
  BY <1>1, <1>3
<1> QED
  BY <1>3, <1>4, <1>5 DEF x

LEMMA CheckKeeps ==
    ASSUME LimiterInv, NEW k \in Clients, R!Check(k)
    PROVE  LimiterInv'
<1> DEFINE dict == R!WindowFor(k)
           i == CHOOSE n \in DOMAIN dict : dict[n].key = k
           times == R!Pruned(dict[i].times)
           allowed == Len(times) < Limit
           counted == IF allowed THEN Append(times, 0) ELSE times
           kept == [c \in Clients |-> IF c \in R!Dropped(k) THEN <<>> ELSE admitted[c]]
           said == IF allowed THEN [remaining |-> Limit - Len(counted), wait |-> None]
                   ELSE [remaining |-> 0, wait |-> R!RetryAfter(times)]
<1>1. /\ windows' = [dict EXCEPT ![i].times = counted]
      /\ admitted' = IF allowed THEN [kept EXCEPT ![k] = Append(@, 0)] ELSE kept
      /\ told' = [told EXCEPT ![k] = said]
      /\ answer' = [allowed |-> allowed, entitled |-> R!Entitled(k)]
  BY DEF R!Check
<1>2. /\ Tracks(dict, kept, told)
      /\ \E n \in 1..Len(dict) : dict[n].key = k
      /\ k \notin R!Dropped(k)
  BY WindowIsThere
<1>3. /\ dict \in Seq(Entry) /\ Len(dict) \in Nat /\ DOMAIN dict = 1..Len(dict)
      /\ \A n \in 1..Len(dict) : dict[n] \in Entry
      /\ Limit \in Nat /\ Limit > 0 /\ Window \in Nat /\ Window > 0
  BY <1>2, ProcessAssumption DEF Tracks
<1>4. \A c \in Clients : kept[c] = IF c \in R!Dropped(k) THEN <<>> ELSE admitted[c]
  OBVIOUS
<1>5. kept = [c \in Clients |-> kept[c]]
  OBVIOUS
<1> HIDE DEF dict, kept
<1>6. i \in 1..Len(dict) /\ dict[i].key = k
  BY <1>2, <1>3
<1> HIDE DEF i
<1> DEFINE before == dict[i].times
<1>7. before \in Seq(R!Age) /\ Len(before) \in Nat
  BY <1>3, <1>6 DEF Entry
<1>8. EntrySound(before, kept[k], told[k])
  BY <1>2, <1>6 DEF Tracks
<1>9. times = R!Pruned(before)
  OBVIOUS
<1> HIDE DEF before, times
<1>10. /\ times \in Seq(R!Age) /\ Decreasing(times) /\ Len(times) \in Nat
       /\ Len(times) <= Len(before)
       /\ \A n \in 1..Len(times) : times[n] < Window
       /\ Len(before) > 0 /\ before[1] >= Window => Len(times) < Len(before)
  <2>1. Decreasing(before)
    BY <1>8 DEF EntrySound
  <2>2. /\ times \in Seq(R!Age) /\ Decreasing(times)
        /\ Len(times) <= Len(before)
        /\ \A n \in 1..Len(times) : times[n] < Window
        /\ Len(before) > 0 /\ before[1] >= Window => Len(times) < Len(before)
    BY <1>7, <1>9, <2>1, PrunedFresh
  <2> QED
    BY <2>2
<1>11. kept[k] = times /\ R!Pruned(times) = times
  BY <1>8, <1>9, <1>10, FreshStays DEF EntrySound
<1>12. ASSUME R!Entitled(k) PROVE allowed
  <2>1. told[k] # None /\ told[k] \in R!Told /\ (told[k].remaining > 0 \/ told[k].wait = 0)
    BY <1>12 DEF R!Entitled, LimiterInv
  <2>2. /\ Len(before) <= Limit - told[k].remaining
        /\ told[k].wait # None => Len(before) < Limit \/ told[k].wait >= Window - before[1]
        /\ told[k].remaining \in 0..Limit
    BY <1>8, <2>1 DEF EntrySound, Agrees, R!Told
  <2>3. CASE told[k].remaining > 0
    BY <1>3, <1>7, <1>10, <2>2, <2>3
  <2>4. CASE told[k].wait = 0
    <3>1. told[k].wait # None
      BY <2>4, NullAssumption
    <3>2. CASE Len(before) < Limit
      BY <1>3, <1>7, <1>10, <3>2
    <3>3. CASE Len(before) >= Limit
      <4>1. Len(before) > 0 /\ before[1] \in Nat
        BY <1>3, <1>7, <3>3 DEF R!Age
      <4>2. before[1] >= Window
        BY <1>3, <1>7, <2>2, <2>4, <3>1, <3>3, <4>1
      <4> QED
        BY <1>3, <1>7, <1>8, <1>10, <4>1, <4>2 DEF EntrySound
    <3> QED
      BY <1>3, <1>7, <3>2, <3>3
  <2> QED
    BY <2>1, <2>3, <2>4
<1>13. /\ admitted'[k] = counted
       /\ \A c \in Clients \ {k} : admitted'[c] = kept[c]
       /\ admitted' = [c \in Clients |-> admitted'[c]]
  <2>1. CASE allowed
    BY <1>1, <1>5, <1>11, <2>1
  <2>2. CASE ~allowed
    BY <1>1, <1>5, <1>11, <2>2
  <2> QED
    BY <2>1, <2>2
<1>14. /\ counted \in Seq(R!Age) /\ Decreasing(counted) /\ Len(counted) <= Limit
       /\ R!Pruned(counted) = counted
       /\ said \in R!Told /\ Agrees(counted, said)
  <2>1. CASE allowed
    <3> DEFINE more == Append(times, 0)
    <3>1. counted = more
      BY <2>1
    <3>2. 0 \in R!Age
      BY <1>3 DEF R!Age
    <3>3. /\ more \in Seq(R!Age) /\ Len(more) = Len(times) + 1
          /\ \A n \in 1..Len(times) : more[n] = times[n]
          /\ more[Len(times) + 1] = 0
      BY <1>10, <3>2
    <3> HIDE DEF more
    <3>4. \A n \in 1..Len(times) : times[n] \in Nat
      BY <1>3, <1>10 DEF R!Age
    <3>5. Decreasing(more)
      BY <1>10, <3>3, <3>4 DEF Decreasing
    <3>6. \A n \in 1..Len(more) : more[n] < Window
      BY <1>3, <1>10, <3>3
    <3>7. R!Pruned(more) = more
      BY <3>3, <3>5, <3>6, FreshStays
    <3>8. Len(more) <= Limit
      BY <1>3, <1>10, <2>1, <3>3
    <3>9. said = [remaining |-> Limit - Len(more), wait |-> None]
      BY <2>1, <3>1
    <3>10. said \in R!Told
      BY <1>3, <1>10, <3>3, <3>8, <3>9 DEF R!Told
    <3>11. said.remaining = Limit - Len(more) /\ said.wait = None
      BY <3>9
    <3>12. Agrees(more, said)
      BY <1>3, <1>10, <3>3, <3>11 DEF Agrees
    <3> HIDE DEF counted, said
    <3> QED
      BY <3>1, <3>3, <3>5, <3>7, <3>8, <3>10, <3>12
  <2>2. CASE ~allowed
    <3>1. counted = times /\ said = [remaining |-> 0, wait |-> R!RetryAfter(times)]
      BY <2>2
    <3>2. Len(times) = Limit /\ Len(times) > 0
      BY <1>3, <1>7, <1>8, <1>10, <2>2 DEF EntrySound
    <3>3. R!RetryAfter(times) \in Nat /\ R!RetryAfter(times) >= Window - times[1]
      BY <1>10, <3>2, DelayCovers
    <3>4. said \in R!Told
      BY <1>3, <3>1, <3>3 DEF R!Told
    <3>5. said.remaining = 0 /\ said.wait = R!RetryAfter(times)
      BY <3>1
    <3>6. Agrees(times, said)
      BY <1>3, <3>2, <3>3, <3>5 DEF Agrees
    <3> HIDE DEF counted, said
    <3> QED
      BY <1>3, <1>10, <1>11, <3>1, <3>2, <3>4, <3>6
  <2> QED
    BY <2>1, <2>2
<1> HIDE DEF counted, said, allowed
<1>15. /\ told' \in [Clients -> R!Told \union {None}]
       /\ told'[k] = said
       /\ \A c \in Clients \ {k} : told'[c] = told[c]
  BY <1>1, <1>14 DEF LimiterInv
<1>16. EntrySound(counted, admitted'[k], told'[k])
  BY <1>13, <1>14, <1>15 DEF EntrySound
<1>17. \A c \in Clients \ {k} : admitted'[c] = kept[c] /\ told'[c] = told[c]
  BY <1>13, <1>15
<1>18. Tracks([dict EXCEPT ![i].times = counted], admitted', told')
  <2> DEFINE let2 == admitted'
             t2 == told'
  <2>1. \A c \in Clients \ {k} : let2[c] = kept[c] /\ t2[c] = told[c]
    BY <1>17
  <2>2. EntrySound(counted, let2[k], t2[k])
    BY <1>16
  <2> HIDE DEF let2, t2
  <2>3. Tracks([dict EXCEPT ![i].times = counted], let2, t2)
    BY <1>2, <1>6, <1>14, <2>1, <2>2, EntryChanges
  <2> QED
    BY <2>3 DEF let2, t2
<1>19. answer'.entitled => answer'.allowed
  BY <1>1, <1>12
<1> QED
  BY <1>1, <1>13, <1>15, <1>18, <1>19 DEF LimiterInv

\* The instants of s a tick later.
Ages(s, t) == Len(t) = Len(s) /\ \A i \in 1..Len(t) : t[i] = R!Older(s[i])

Young == {t \in R!Age : t < Window}

\* A window that ages keeps track of the requests let through, which are filtered.
LEMMA WindowAges ==
    ASSUME NEW times \in Seq(R!Age), Decreasing(times),
           NEW let, let = R!Pruned(times),
           NEW old \in Seq(R!Age), Ages(times, old),
           NEW oldLet \in Seq(R!Age), Ages(let, oldLet)
    PROVE  Decreasing(old) /\ R!Only(oldLet, Young) = R!Pruned(old)
<1>1. /\ Len(times) \in Nat /\ Window \in Nat /\ DOMAIN times = 1..Len(times)
      /\ \A i \in 1..Len(times) : times[i] \in R!Age /\ times[i] \in Nat /\ times[i] <= Window
  BY ProcessAssumption DEF R!Age
<1>2. /\ old \in Seq(R!Age) /\ Len(old) = Len(times)
      /\ \A i \in 1..Len(times) : old[i] = R!Older(times[i])
  BY DEF Ages
<1>3. Decreasing(old)
  BY <1>1, <1>2 DEF Decreasing, R!Older
<1>4. PICK k \in 0..Len(times) :
              Expires(times, k) /\ let = SubSeq(times, k + 1, Len(times))
  BY PrunedAt
<1>5. PICK m \in 0..Len(old) :
              Expires(old, m) /\ R!Pruned(old) = SubSeq(old, m + 1, Len(old))
  BY <1>2, <1>3, PrunedAt
<1>6. k <= m
  <2>1. CASE k = 0
    BY <1>1, <1>2, <2>1
  <2>2. CASE k # 0
    <3>1. k \in 1..Len(times) /\ ~(times[k] < Window)
      BY <1>1, <1>4, <2>2 DEF Expires
    <3>2. ~(old[k] < Window)
      BY <1>1, <1>2, <3>1 DEF R!Older
    <3> QED
      BY <1>1, <1>2, <1>5, <3>1, <3>2 DEF Expires
  <2> QED
    BY <2>1, <2>2
<1>7. /\ let \in Seq(R!Age) /\ Len(let) = Len(times) - k
      /\ \A i \in 1..Len(let) : let[i] = times[k + i] /\ k + i \in 1..Len(times)
  BY <1>4, Suffix
<1>8. /\ oldLet \in Seq(R!Age) /\ Len(oldLet) = Len(times) - k
      /\ \A i \in 1..Len(oldLet) : oldLet[i] = old[k + i] /\ k + i \in 1..Len(times)
  BY <1>2, <1>7 DEF Ages
<1>9. m - k \in 0..Len(oldLet)
  BY <1>1, <1>2, <1>6, <1>8
<1>10. \A i \in 1..Len(oldLet) : oldLet[i] \in Young <=> i > m - k
  <2> SUFFICES ASSUME NEW i \in 1..Len(oldLet) PROVE oldLet[i] \in Young <=> i > m - k
    OBVIOUS
  <2>1. oldLet[i] = old[k + i] /\ k + i \in 1..Len(old) /\ oldLet[i] \in R!Age
    BY <1>2, <1>8
  <2>2. old[k + i] < Window <=> k + i > m
    BY <1>5, <2>1 DEF Expires
  <2> QED
    BY <1>1, <1>2, <2>1, <2>2 DEF Young
<1>11. Only(oldLet, Young) = SubSeq(oldLet, (m - k) + 1, Len(oldLet))
  <2> DEFINE d == m - k
  <2>1. d \in 0..Len(oldLet) /\ \A i \in 1..Len(oldLet) : oldLet[i] \in Young <=> i > d
    BY <1>9, <1>10
  <2> HIDE DEF d
  <2>2. Only(oldLet, Young) = SubSeq(oldLet, d + 1, Len(oldLet))
    BY <1>8, <2>1, OnlySuffix
  <2> QED
    BY <2>2 DEF d
<1>12. SubSeq(oldLet, (m - k) + 1, Len(oldLet)) = SubSeq(old, m + 1, Len(old))
  <2> DEFINE d == m - k
             u == SubSeq(oldLet, d + 1, Len(oldLet))
             v == SubSeq(old, m + 1, Len(old))
  <2>1. d \in 0..Len(oldLet) /\ Len(oldLet) - d = Len(old) - m /\ k + d = m
    BY <1>1, <1>2, <1>6, <1>8
  <2>2. u = SubSeq(oldLet, d + 1, Len(oldLet)) /\ v = SubSeq(old, m + 1, Len(old))
    OBVIOUS
  <2>3. d \in Nat /\ k \in Nat
    BY <1>1, <1>8, <2>1
  <2> HIDE DEF d, u, v
  <2>4. /\ u \in Seq(R!Age) /\ Len(u) = Len(oldLet) - d
        /\ \A i \in 1..Len(u) : u[i] = oldLet[d + i] /\ d + i \in 1..Len(oldLet)
    BY <2>1, <2>2, Suffix
  <2>5. /\ v \in Seq(R!Age) /\ Len(v) = Len(old) - m
        /\ \A i \in 1..Len(v) : v[i] = old[m + i] /\ m + i \in 1..Len(old)
    <3>1. v = SubSeq(old, m + 1, Len(old))
      BY <2>2
    <3> QED
      BY <3>1, Suffix
  <2>6. ASSUME NEW i \in 1..Len(u) PROVE u[i] = v[i]
    <3>1. d + i \in 1..Len(oldLet) /\ k + (d + i) = m + i
      BY <2>1, <2>3, <2>4
    <3>2. oldLet[d + i] = old[m + i]
      BY <1>8, <3>1
    <3> QED
      BY <2>1, <2>4, <2>5, <3>2
  <2>7. u = v
    BY <2>1, <2>4, <2>5, <2>6, SameItems
  <2> QED
    BY <2>2, <2>7 DEF d
<1>13. R!Only(oldLet, Young) = Only(oldLet, Young)
  BY DEF R!Only, Only
<1> QED
  BY <1>2, <1>3, <1>5, <1>11, <1>12, <1>13

LEMMA ElapseKeeps ==
    ASSUME LimiterInv, R!Elapse
    PROVE  LimiterInv'
<1>1. /\ windows \in Seq(Entry) /\ Len(windows) \in Nat /\ DOMAIN windows = 1..Len(windows)
      /\ \A i \in 1..Len(windows) : windows[i] \in Entry
      /\ Limit \in Nat /\ Window \in Nat
  BY ProcessAssumption DEF LimiterInv, Tracks
<1> DEFINE Aged(i) == [n \in DOMAIN windows[i].times |-> R!Older(windows[i].times[n])]
           Row(i) == [key |-> windows[i].key, times |-> Aged(i)]
<1>2. windows' = [i \in 1..Len(windows) |-> Row(i)]
  <2>1. windows' = [i \in 1..Len(windows) |-> [windows[i] EXCEPT !.times = Aged(i)]]
    BY <1>1 DEF R!Elapse
  <2>2. \A i \in 1..Len(windows) : [windows[i] EXCEPT !.times = Aged(i)] = Row(i)
    BY <1>1 DEF Entry
  <2> HIDE DEF Row, Aged
  <2> QED
    BY <2>1, <2>2
<1>3. admitted' = [k \in Clients |->
          R!Only([n \in DOMAIN admitted[k] |-> R!Older(admitted[k][n])], Young)]
  BY DEF R!Elapse, Young
<1>4. told' = [k \in Clients |->
          IF told[k] = None \/ told[k].wait \in {None, 0} THEN told[k]
          ELSE [told[k] EXCEPT !.wait = @ - 1]]
  BY DEF R!Elapse
<1>5. ASSUME NEW k \in Clients
      PROVE  /\ told'[k] \in R!Told \union {None}
             /\ told'[k] # None => /\ told[k] # None
                                   /\ told'[k].remaining = told[k].remaining
                                   /\ told'[k].wait = None <=> told[k].wait = None
                                   /\ told[k].wait # None =>
                                         /\ told[k].wait \in Nat /\ told'[k].wait \in Nat
                                         /\ told'[k].wait >= told[k].wait - 1
                                         /\ told[k].wait = 0 \/ told'[k].wait = told[k].wait - 1
                                         /\ told'[k].wait >= 0
  <2>1. told[k] = None \/ told[k] \in R!Told
    BY DEF LimiterInv
  <2>2. CASE told[k] = None \/ told[k].wait \in {None, 0}
    <3>1. told'[k] = told[k]
      BY <1>4, <2>2
    <3> QED
      BY <2>1, <2>2, <3>1 DEF R!Told
  <2>3. CASE ~(told[k] = None \/ told[k].wait \in {None, 0})
    <3> DEFINE w == told[k].wait - 1
               t == [remaining |-> told[k].remaining, wait |-> w]
    <3>1. told[k] \in R!Told /\ told[k].wait \in Nat /\ told[k].wait # 0
      BY <2>1, <2>3 DEF R!Told
    <3>2. told'[k] = t
      BY <1>4, <2>3, <3>1 DEF R!Told
    <3>3. w \in Nat /\ w # None
      BY <3>1, NullAssumption
    <3>4. w = told[k].wait - 1
      OBVIOUS
    <3> HIDE DEF w
    <3>5. t \in R!Told /\ t.remaining = told[k].remaining /\ t.wait = w
      BY <3>1, <3>3 DEF R!Told
    <3> HIDE DEF t
    <3> QED
      BY <2>3, <3>1, <3>2, <3>3, <3>4, <3>5
  <2> QED
    BY <2>2, <2>3
<1>6. ASSUME NEW i \in 1..Len(windows)
      PROVE  LET k == windows[i].key
             IN  Aged(i) \in Seq(R!Age) /\ EntrySound(Aged(i), admitted'[k], told'[k])
  <2> DEFINE k == windows[i].key
             times == windows[i].times
             let == admitted[k]
             oldLet == [n \in DOMAIN let |-> R!Older(let[n])]
  <2>1. k \in Clients /\ times \in Seq(R!Age) /\ Len(times) \in Nat /\ DOMAIN times = 1..Len(times)
    BY <1>1 DEF Entry
  <2>2. EntrySound(times, let, told[k])
    BY DEF LimiterInv, Tracks
  <2>3. Aged(i) = [n \in DOMAIN times |-> R!Older(times[n])]
    OBVIOUS
  <2>4. admitted'[k] = R!Only(oldLet, Young)
    BY <1>3, <2>1
  <2>5. oldLet = [n \in DOMAIN let |-> R!Older(let[n])]
    OBVIOUS
  <2> HIDE DEF k, times, let, oldLet, Aged
  <2>6. Decreasing(times) /\ let = R!Pruned(times) /\ Len(times) <= Limit
    BY <2>2 DEF EntrySound
  <2>7. /\ Aged(i) \in Seq(R!Age) /\ Len(Aged(i)) = Len(times) /\ Decreasing(Aged(i))
        /\ R!Only(oldLet, Young) = R!Pruned(Aged(i))
    <3> DEFINE old == Aged(i)
    <3>0. \A n \in R!Age : R!Older(n) \in R!Age
      BY <1>1 DEF R!Older, R!Age
    <3>1. /\ old \in Seq(R!Age) /\ Len(old) = Len(times)
          /\ \A n \in 1..Len(old) : old[n] = R!Older(times[n])
      BY <2>1, <2>3, <3>0
    <3>2. let \in Seq(R!Age) /\ Len(let) \in Nat /\ DOMAIN let = 1..Len(let)
      BY <2>1, <2>6, PrunedFresh
    <3>3. /\ oldLet \in Seq(R!Age) /\ Len(oldLet) = Len(let)
          /\ \A n \in 1..Len(oldLet) : oldLet[n] = R!Older(let[n])
      BY <2>5, <3>0, <3>2
    <3> HIDE DEF old
    <3>4. Ages(times, old) /\ Ages(let, oldLet)
      BY <3>1, <3>3 DEF Ages
    <3>5. Decreasing(old) /\ R!Only(oldLet, Young) = R!Pruned(old)
      BY <2>1, <2>6, <3>1, <3>3, <3>4, WindowAges
    <3> QED
      BY <3>1, <3>5 DEF old
  <2>8. Agrees(Aged(i), told'[k])
    <3> SUFFICES ASSUME told'[k] # None
                 PROVE  /\ Len(Aged(i)) <= Limit - told'[k].remaining
                        /\ told'[k].wait # None => \/ Len(Aged(i)) < Limit
                                                   \/ told'[k].wait >= Window - Aged(i)[1]
      BY DEF Agrees
    <3>1. /\ told[k] # None
          /\ told'[k].remaining = told[k].remaining
          /\ told'[k].wait = None <=> told[k].wait = None
          /\ told[k].wait # None =>
                /\ told[k].wait \in Nat /\ told'[k].wait \in Nat
                /\ told'[k].wait >= told[k].wait - 1
                /\ told[k].wait = 0 \/ told'[k].wait = told[k].wait - 1
      BY <1>5, <2>1
    <3>2. /\ Len(times) <= Limit - told[k].remaining
          /\ told[k].wait # None => Len(times) < Limit \/ told[k].wait >= Window - times[1]
      BY <2>2, <3>1 DEF EntrySound, Agrees
    <3>3. ASSUME told'[k].wait # None, ~(Len(Aged(i)) < Limit)
          PROVE  told'[k].wait >= Window - Aged(i)[1]
      <4>1. 1 \in 1..Len(times)
        BY <1>1, <2>1, <2>7, <3>3, ProcessAssumption
      <4>2. times[1] \in Nat /\ times[1] <= Window
        BY <1>1, <2>1, <4>1 DEF R!Age
      <4>3. Aged(i)[1] = R!Older(times[1])
        BY <2>1, <2>3, <4>1
      <4>4. told[k].wait >= Window - times[1] /\ told[k].wait \in Nat /\ told'[k].wait \in Nat
        BY <2>7, <3>1, <3>2, <3>3
      <4>5. told[k].wait = 0 \/ told'[k].wait = told[k].wait - 1
        BY <3>1, <3>3
      <4> DEFINE a == told[k].wait
                 b == told'[k].wait
                 x == times[1]
                 y == Aged(i)[1]
      <4>6. a >= Window - x /\ a \in Nat /\ b \in Nat /\ x \in Nat /\ x <= Window
        BY <4>2, <4>4
      <4>7. a = 0 \/ b = a - 1
        BY <4>5
      <4>8. y = IF x < Window THEN x + 1 ELSE x
        BY <4>3 DEF R!Older
      <4> HIDE DEF a, b, x, y
      <4>9. b >= Window - y
        BY <1>1, <4>6, <4>7, <4>8
      <4> QED
        BY <4>9 DEF b, y
    <3> QED
      BY <2>7, <3>1, <3>2, <3>3
  <2>9. EntrySound(Aged(i), admitted'[k], told'[k])
    BY <2>4, <2>6, <2>7, <2>8 DEF EntrySound
  <2> QED
    BY <2>7, <2>9 DEF k
<1> HIDE DEF Aged
<1>7. /\ windows' \in Seq(Entry) /\ Len(windows') = Len(windows)
      /\ \A i \in 1..Len(windows) :
            windows'[i].key = windows[i].key /\ windows'[i].times = Aged(i)
  <2>1. \A i \in 1..Len(windows) : Row(i) \in Entry
    BY <1>1, <1>6 DEF Entry
  <2>2. \A i \in 1..Len(windows) : windows'[i] = Row(i)
    BY <1>2
  <2>3. windows' \in Seq(Entry) /\ Len(windows') = Len(windows)
    <3> HIDE DEF Row
    <3> QED
      BY <1>1, <1>2, <2>1
  <2>4. \A i \in 1..Len(windows) : Row(i).key = windows[i].key /\ Row(i).times = Aged(i)
    OBVIOUS
  <2> HIDE DEF Row
  <2> QED
    BY <2>2, <2>3, <2>4
<1>8. ASSUME NEW k \in Clients, \A i \in 1..Len(windows) : windows'[i].key # k
      PROVE  admitted'[k] = <<>>
  <2>1. admitted[k] = <<>>
    BY <1>7, <1>8 DEF LimiterInv, Tracks
  <2>2. [n \in DOMAIN admitted[k] |-> R!Older(admitted[k][n])] = <<>>
    BY <2>1
  <2>3. admitted'[k] = R!Only(<<>>, Young)
    BY <1>3, <2>2
  <2>4. R!Only(<<>>, Young) = Only(<<>>, Young)
    BY DEF R!Only, Only
  <2>5. Only(<<>>, Young) = <<>>
    <3> DEFINE none == <<>>
    <3>1. none \in Seq(R!Age) /\ Len(none) = 0
      OBVIOUS
    <3> HIDE DEF none
    <3>2. 0 \in 0..Len(none) /\ \A i \in 1..Len(none) : none[i] \in Young <=> i > 0
      BY <3>1
    <3>3. Only(none, Young) = SubSeq(none, 0 + 1, Len(none))
      BY <3>1, <3>2, OnlySuffix
    <3>4. SubSeq(none, 0 + 1, Len(none)) = none
      BY <3>1
    <3> QED
      BY <3>3, <3>4 DEF none
  <2> QED
    BY <2>3, <2>4, <2>5
<1>9. Tracks(windows, admitted, told)'
  BY <1>1, <1>6, <1>7, <1>8 DEF LimiterInv, Tracks
<1>10. told' \in [Clients -> R!Told \union {None}]
  BY <1>4, <1>5
<1>11. admitted' = [k \in Clients |-> admitted'[k]] /\ answer' = None
  BY <1>3 DEF R!Elapse
<1> QED
  BY <1>9, <1>10, <1>11 DEF LimiterInv

\* The invariant of the limiter is inductive, and implies what the run checks.
LEMMA LimiterInductive ==
    /\ ProcessInit => LimiterInv
    /\ LimiterInv /\ [ProcessNext]_processVars => LimiterInv'
    /\ LimiterInv => LimitKept
<1>1. ASSUME ProcessInit PROVE LimiterInv
  <2>1. /\ windows = <<>> /\ admitted = [k \in Clients |-> <<>>]
        /\ told = [k \in Clients |-> None] /\ answer = None
    BY <1>1 DEF ProcessInit, R!LimiterInit
  <2>2. Tracks(windows, admitted, told)
    BY <2>1, ProcessAssumption DEF Tracks
  <2> QED
    BY <2>1, <2>2 DEF LimiterInv
<1>2. ASSUME LimiterInv, [ProcessNext]_processVars PROVE LimiterInv'
  <2>1. CASE UNCHANGED limiterVars
    BY <1>2, <2>1 DEF LimiterInv, limiterVars
  <2>2. CASE R!LimiterNext
    BY <1>2, <2>2, ElapseKeeps, CheckKeeps DEF R!LimiterNext
  <2> QED
    BY <1>2, <2>1, <2>2 DEF ProcessNext, Hub, processVars
<1>3. ASSUME LimiterInv PROVE LimitKept
  <2>1. ASSUME NEW k \in Clients PROVE Len(admitted[k]) <= Limit
    <3>1. CASE \A i \in 1..Len(windows) : windows[i].key # k
      <4>1. admitted[k] = <<>>
        BY <1>3, <3>1 DEF LimiterInv, Tracks
      <4> QED
        BY <4>1, ProcessAssumption
    <3>2. CASE \E i \in 1..Len(windows) : windows[i].key = k
      <4>1. PICK i \in 1..Len(windows) : windows[i].key = k
        BY <3>2
      <4> DEFINE times == windows[i].times
                 fresh == admitted[k]
      <4>2. /\ times \in Seq(R!Age) /\ Decreasing(times) /\ Len(times) <= Limit
            /\ fresh = R!Pruned(times)
        <5>1. windows \in Seq(Entry) /\ EntrySound(times, fresh, told[k])
          BY <1>3, <4>1 DEF LimiterInv, Tracks
        <5>2. windows[i] \in Entry
          BY <5>1
        <5>3. times \in Seq(R!Age)
          BY <5>2 DEF Entry
        <5> QED
          BY <5>1, <5>3 DEF EntrySound
      <4> HIDE DEF times, fresh
      <4>3. fresh \in Seq(R!Age) /\ Len(fresh) <= Len(times)
        BY <4>2, PrunedFresh
      <4> QED
        BY <4>2, <4>3, ProcessAssumption DEF fresh
    <3> QED
      BY <3>1, <3>2
  <2> QED
    BY <1>3, <2>1 DEF LimitKept, R!LimitKept, LimiterInv, Tracks
<1> QED
  BY <1>1, <1>2, <1>3

-----------------------------------------------------------------------------
(* The event bus *)

\* A call of publish: the handlers served and those still to be served are different,
\* and those that have stayed subscribed are among them.
DispatchSound(c) ==
    /\ c \in B!Dispatch
    /\ Distinct(c.served) /\ Distinct(c.todo)
    /\ Items(c.served) \intersect Items(c.todo) = {}
    /\ c.loyal \subseteq Items(c.served) \union Items(c.todo)
    /\ c.at = "running" => c.todo # <<>>
    /\ c.at \in {"returned", "raised"} => c.todo = <<>>
    /\ c.at = "returned" => c.failed = {}
    /\ c.at = "refused" => c.served = <<>>

\* Handlers are subscribed once, each by a handle that is active.
SubscriptionsSound(table, slips) ==
    \A t \in EventTypes :
        /\ table[t] \in Seq(Handlers) /\ Distinct(table[t])
        /\ \A h \in Items(table[t]) :
              \E s \in Handles : slips[s] = [type |-> t, handler |-> h, active |-> TRUE]

BusInv ==
    /\ B!BusTypeOK
    /\ SubscriptionsSound(handlers, handle)
    /\ \A d \in Dispatches : dispatch[d] # None => DispatchSound(dispatch[d])

LEMMA SeqSets ==
    ASSUME NEW X, NEW s \in Seq(X)
    PROVE  /\ B!ToSet(s) = Items(s)
           /\ B!IsInjective(s) <=> Distinct(s)
           /\ L!ToSet(s) = Items(s)
           /\ L!IsInjective(s) <=> Distinct(s)
<1>1. DOMAIN s = 1..Len(s)
  OBVIOUS
<1> QED
  BY <1>1 DEF B!ToSet, B!IsInjective, L!ToSet, L!IsInjective, Items, Distinct

LEMMA AppendItems ==
    ASSUME NEW X, NEW s \in Seq(X), NEW x \in X
    PROVE  /\ Append(s, x) \in Seq(X)
           /\ Items(Append(s, x)) = Items(s) \union {x}
           /\ Distinct(s) /\ x \notin Items(s) => Distinct(Append(s, x))
<1> DEFINE t == Append(s, x)
<1>1. /\ t \in Seq(X) /\ Len(t) = Len(s) + 1 /\ Len(s) \in Nat
      /\ \A i \in 1..Len(s) : t[i] = s[i]
      /\ t[Len(s) + 1] = x
  OBVIOUS
<1> HIDE DEF t
<1>2. \A y : y \in Items(t) <=> y \in Items(s) \/ y = x
  <2> TAKE y
  <2>1. ASSUME y \in Items(t) PROVE y \in Items(s) \/ y = x
    <3>1. PICK i \in 1..Len(t) : y = t[i]
      BY <2>1 DEF Items
    <3>2. i \in 1..Len(s) \/ i = Len(s) + 1
      BY <1>1
    <3> QED
      BY <1>1, <3>1, <3>2 DEF Items
  <2>2. ASSUME y \in Items(s) PROVE y \in Items(t)
    <3>1. PICK i \in 1..Len(s) : y = s[i]
      BY <2>2 DEF Items
    <3>2. i \in 1..Len(t) /\ t[i] = y
      BY <1>1, <3>1
    <3> QED
      BY <3>2 DEF Items
  <2>3. x \in Items(t)
    <3>1. Len(s) + 1 \in 1..Len(t)
      BY <1>1
    <3> QED
      BY <1>1, <3>1 DEF Items
  <2> QED
    BY <2>1, <2>2, <2>3
<1>3. ASSUME Distinct(s), x \notin Items(s) PROVE Distinct(t)
  <2>1. \A i \in 1..Len(s) : s[i] # x
    BY <1>3 DEF Items
  <2>2. ASSUME NEW i \in 1..Len(t), NEW j \in 1..Len(t), t[i] = t[j] PROVE i = j
    <3>1. i \in 1..Len(s) \/ i = Len(s) + 1
      BY <1>1
    <3>2. j \in 1..Len(s) \/ j = Len(s) + 1
      BY <1>1
    <3> QED
      BY <1>1, <1>3, <2>1, <2>2, <3>1, <3>2 DEF Distinct
  <2> QED
    BY <2>2 DEF Distinct
<1> QED
  BY <1>1, <1>2, <1>3 DEF t

LEMMA TailItems ==
    ASSUME NEW X, NEW s \in Seq(X), s # <<>>, Distinct(s)
    PROVE  /\ Tail(s) \in Seq(X) /\ Distinct(Tail(s)) /\ Head(s) \in X
           /\ Items(Tail(s)) = Items(s) \ {Head(s)} /\ Head(s) \in Items(s)
<1> DEFINE t == Tail(s)
           x == Head(s)
<1>1. /\ t \in Seq(X) /\ Len(t) = Len(s) - 1 /\ Len(s) \in Nat /\ Len(s) > 0
      /\ \A i \in 1..Len(t) : t[i] = s[i + 1]
      /\ x = s[1] /\ x \in X
  OBVIOUS
<1> HIDE DEF t, x
<1>2. Distinct(t)
  <2> SUFFICES ASSUME NEW i \in 1..Len(t), NEW j \in 1..Len(t), t[i] = t[j] PROVE i = j
    BY DEF Distinct
  <2>1. i + 1 \in 1..Len(s) /\ j + 1 \in 1..Len(s) /\ s[i + 1] = s[j + 1]
    BY <1>1
  <2>2. i + 1 = j + 1
    BY <2>1 DEF Distinct
  <2> QED
    BY <2>2
<1>3. \A y : y \in Items(t) <=> y \in Items(s) /\ y # x
  <2> TAKE y
  <2>1. ASSUME y \in Items(t) PROVE y \in Items(s) /\ y # x
    <3>1. PICK i \in 1..Len(t) : y = t[i]
      BY <2>1 DEF Items
    <3>2. i + 1 \in 1..Len(s) /\ y = s[i + 1] /\ 1 \in 1..Len(s) /\ i + 1 # 1
      BY <1>1, <3>1
    <3> QED
      BY <1>1, <3>2 DEF Items, Distinct
  <2>2. ASSUME y \in Items(s), y # x PROVE y \in Items(t)
    <3>1. PICK i \in 1..Len(s) : y = s[i]
      BY <2>2 DEF Items
    <3>2. i - 1 \in 1..Len(t) /\ (i - 1) + 1 = i
      BY <1>1, <2>2, <3>1
    <3>3. t[i - 1] = y
      BY <1>1, <3>1, <3>2
    <3> QED
      BY <3>2, <3>3 DEF Items
  <2> QED
    BY <2>1, <2>2
<1>4. x \in Items(s)
  <2>1. 1 \in 1..Len(s)
    BY <1>1
  <2> QED
    BY <1>1, <2>1 DEF Items
<1> QED
  BY <1>1, <1>2, <1>3, <1>4 DEF t, x

LEMMA ItemsTyped ==
    ASSUME NEW X, NEW s \in Seq(X)
    PROVE  Items(s) \subseteq X
  BY DEF Items

LEMMA NoItems == Items(<<>>) = {} /\ Distinct(<<>>)
  BY DEF Items, Distinct

LEMMA DispatchFields ==
    ASSUME NEW c \in B!Dispatch
    PROVE  /\ c = [type |-> c.type, at |-> c.at, todo |-> c.todo, served |-> c.served,
                   failed |-> c.failed, loyal |-> c.loyal]
           /\ c.type \in EventTypes /\ c.todo \in Seq(Handlers) /\ c.served \in Seq(Handlers)
           /\ c.failed \subseteq Handlers /\ c.loyal \subseteq Handlers
           /\ c.at \in {"running", "returned", "raised", "refused", "cancelled"}
  BY DEF B!Dispatch

\* _detach
LEMMA DetachKeeps ==
    ASSUME BusInv, NEW gone, B!Detach(gone)
    PROVE  /\ \A t \in EventTypes :
                 /\ handlers'[t] \in Seq(Handlers) /\ Distinct(handlers'[t])
                 /\ Items(handlers'[t]) = {h \in Items(handlers[t]) : <<t, h>> \notin gone}
           /\ handlers' \in [EventTypes -> Seq(Handlers)]
           /\ dispatch' \in [Dispatches -> B!Dispatch \union {None}]
           /\ \A d \in Dispatches : dispatch'[d] # None => DispatchSound(dispatch'[d])
<1>1. ASSUME NEW t \in EventTypes
      PROVE  /\ handlers'[t] \in Seq(Handlers) /\ Distinct(handlers'[t])
             /\ Items(handlers'[t]) = {h \in Items(handlers[t]) : <<t, h>> \notin gone}
  <2> DEFINE S == {h \in Handlers : <<t, h>> \notin gone}
             list == handlers[t]
  <2>1. handlers'[t] = Only(list, S)
    BY DEF B!Detach, B!Only, Only
  <2>2. list \in Seq(Handlers) /\ Distinct(list)
    BY DEF BusInv, SubscriptionsSound
  <2>3. Items(list) \subseteq Handlers
    BY <2>2 DEF Items
  <2>4. Items(list) \intersect S = {h \in Items(list) : <<t, h>> \notin gone}
    BY <2>3
  <2> HIDE DEF S, list
  <2>5. /\ Only(list, S) \in Seq(Handlers)
        /\ Items(Only(list, S)) = Items(list) \intersect S
        /\ Distinct(Only(list, S))
    BY <2>2, OnlyKeeps
  <2> QED
    BY <2>1, <2>4, <2>5 DEF list
<1>2. handlers' \in [EventTypes -> Seq(Handlers)]
  BY <1>1 DEF B!Detach
<1>3. dispatch' = [d \in Dispatches |->
          IF dispatch[d] = None THEN None
          ELSE [dispatch[d] EXCEPT
                  !.loyal = {h \in dispatch[d].loyal : <<dispatch[d].type, h>> \notin gone}]]
  BY DEF B!Detach
<1>4. ASSUME NEW d \in Dispatches, dispatch[d] # None
      PROVE  DispatchSound(dispatch'[d])
  <2> DEFINE c == dispatch[d]
             stays == {h \in c.loyal : <<c.type, h>> \notin gone}
             new == [type |-> c.type, at |-> c.at, todo |-> c.todo, served |-> c.served,
                     failed |-> c.failed, loyal |-> stays]
  <2>1. DispatchSound(c) /\ c \in B!Dispatch
    BY <1>4 DEF BusInv, DispatchSound
  <2>2. dispatch'[d] = [c EXCEPT !.loyal = stays]
    BY <1>3, <1>4
  <2>3. stays \subseteq c.loyal
    OBVIOUS
  <2> HIDE DEF c, stays
  <2>4. [c EXCEPT !.loyal = stays] = new
    BY <2>1, DispatchFields
  <2>5. new \in B!Dispatch
    BY <2>1, <2>3, DispatchFields DEF B!Dispatch
  <2>6. DispatchSound(new)
    BY <2>1, <2>3, <2>5 DEF DispatchSound
  <2> QED
    BY <2>2, <2>4, <2>6
<1>5. ASSUME NEW d \in Dispatches
      PROVE  /\ dispatch'[d] \in B!Dispatch \union {None}
             /\ dispatch'[d] # None => DispatchSound(dispatch'[d])
  <2>1. CASE dispatch[d] = None
    BY <1>3, <2>1
  <2>2. CASE dispatch[d] # None
    BY <1>4, <2>2 DEF DispatchSound
  <2> QED
    BY <2>1, <2>2
<1>6. dispatch' \in [Dispatches -> B!Dispatch \union {None}]
  BY <1>3, <1>5
<1> QED
  BY <1>1, <1>2, <1>5, <1>6

\* A call goes on: Settled gives it its state.
LEMMA SettledSound ==
    ASSUME NEW c \in B!Dispatch,
           Distinct(c.served), Distinct(c.todo),
           Items(c.served) \intersect Items(c.todo) = {},
           c.loyal \subseteq Items(c.served) \union Items(c.todo)
    PROVE  DispatchSound(B!Settled(c))
<1> DEFINE at == IF c.todo # <<>> THEN "running"
                 ELSE IF c.failed = {} THEN "returned" ELSE "raised"
           new == [type |-> c.type, at |-> at, todo |-> c.todo, served |-> c.served,
                   failed |-> c.failed, loyal |-> c.loyal]
<1>1. B!Settled(c) = new
  BY DispatchFields DEF B!Settled
<1>2. new \in B!Dispatch
  BY DispatchFields DEF B!Dispatch
<1>3. DispatchSound(new)
  BY <1>2 DEF DispatchSound
<1> QED
  BY <1>1, <1>3

\* A subscription adds a handler that the type does not have, and an active handle.
LEMMA SubscribeKeeps ==
    ASSUME BusInv, NEW s \in Handles, NEW t \in EventTypes, NEW h \in Handlers,
           B!Subscribe(s, t, h)
    PROVE  BusInv'
<1> DEFINE list == handlers[t]
           slip == [type |-> t, handler |-> h, active |-> TRUE]
<1>1. list \in Seq(Handlers) /\ Distinct(list)
  BY DEF BusInv, SubscriptionsSound
<1>2. h \notin Items(list)
  <2> SUFFICES ASSUME h \in Items(list) PROVE FALSE
    OBVIOUS
  <2>1. PICK i \in 1..Len(list) : list[i] = h
    BY DEF Items
  <2>2. B!Contains(list, h)
    <3> HIDE DEF list
    <3> QED
      BY <1>1, <2>1 DEF B!Contains
  <2> QED
    BY <2>2 DEF B!Subscribe, B!Subscribed
<1>3. ~B!Contains(list, h)
  <2> HIDE DEF list
  <2> QED
    BY <1>1, <1>2 DEF B!Contains, Items
<1>4. handlers' = [handlers EXCEPT ![t] = Append(list, h)]
  BY <1>3 DEF B!Subscribe, B!Subscribed
<1>5. /\ Append(list, h) \in Seq(Handlers)
      /\ Items(Append(list, h)) = Items(list) \union {h}
      /\ Distinct(Append(list, h))
  <2> HIDE DEF list
  <2> QED
    BY <1>1, <1>2, AppendItems
<1>6. /\ handlers \in [EventTypes -> Seq(Handlers)]
      /\ handle \in [Handles -> B!Handle \union {None}]
      /\ handle[s] = None /\ slip \in B!Handle
      /\ handle' = [handle EXCEPT ![s] = slip]
      /\ UNCHANGED <<version, hooked, dispatch>>
  BY DEF BusInv, B!BusTypeOK, B!Subscribe, B!Handle
<1>7. B!BusTypeOK'
  <2> HIDE DEF list, slip
  <2>1. handlers' \in [EventTypes -> Seq(Handlers)]
    BY <1>4, <1>5, <1>6
  <2>2. handle' \in [Handles -> B!Handle \union {None}]
    BY <1>6
  <2> QED
    BY <1>6, <2>1, <2>2 DEF BusInv, B!BusTypeOK
<1>8. ASSUME NEW u \in Handles, handle[u] # None PROVE handle'[u] = handle[u]
  <2> HIDE DEF slip
  <2> QED
    BY <1>6, <1>8
<1>9. handle'[s] = slip
  <2> HIDE DEF slip
  <2> QED
    BY <1>6
<1>10. ASSUME NEW type \in EventTypes
       PROVE  /\ handlers'[type] \in Seq(Handlers) /\ Distinct(handlers'[type])
              /\ \A x \in Items(handlers'[type]) : \E u \in Handles :
                    handle'[u] = [type |-> type, handler |-> x, active |-> TRUE]
  <2>1. /\ handlers[type] \in Seq(Handlers) /\ Distinct(handlers[type])
        /\ \A x \in Items(handlers[type]) : \E u \in Handles :
              handle[u] = [type |-> type, handler |-> x, active |-> TRUE]
    BY DEF BusInv, SubscriptionsSound
  <2>2. \A x \in Items(handlers[type]) : \E u \in Handles :
              handle'[u] = [type |-> type, handler |-> x, active |-> TRUE]
    <3> TAKE x \in Items(handlers[type])
    <3>1. PICK u \in Handles : handle[u] = [type |-> type, handler |-> x, active |-> TRUE]
      BY <2>1
    <3>2. x \in Handlers
      BY <2>1 DEF Items
    <3>3. handle[u] \in B!Handle
      BY <3>1, <3>2 DEF B!Handle
    <3>4. handle[u] # None
      BY <3>3, NullAssumption
    <3> QED
      BY <1>8, <3>1, <3>4
  <2>3. CASE type = t
    <3>1. handlers'[type] = Append(list, h)
      <4> HIDE DEF list
      <4> QED
        BY <1>4, <1>6, <2>3
    <3>2. \A x \in Items(list) \union {h} : \E u \in Handles :
              handle'[u] = [type |-> type, handler |-> x, active |-> TRUE]
      BY <1>9, <2>2, <2>3
    <3> HIDE DEF list
    <3> QED
      BY <1>5, <3>1, <3>2
  <2>4. CASE type # t
    <3>1. handlers'[type] = handlers[type]
      BY <1>4, <1>6, <2>4
    <3> QED
      BY <2>1, <2>2, <3>1
  <2> QED
    BY <2>3, <2>4
<1>11. SubscriptionsSound(handlers, handle)'
  BY <1>10 DEF SubscriptionsSound
<1>12. \A d \in Dispatches : dispatch'[d] # None => DispatchSound(dispatch'[d])
  BY <1>6 DEF BusInv
<1> QED
  BY <1>7, <1>11, <1>12 DEF BusInv

\* Handlers are taken off by handles that are cancelled with them, or by nobody's.
LEMMA DetachedSound ==
    ASSUME BusInv, NEW gone, B!Detach(gone), UNCHANGED <<version, hooked>>,
           handle' \in [Handles -> B!Handle \union {None}],
           \A s \in Handles : handle'[s] # handle[s] =>
               <<handle[s].type, handle[s].handler>> \in gone
    PROVE  BusInv'
<1>1. /\ \A t \in EventTypes :
            /\ handlers'[t] \in Seq(Handlers) /\ Distinct(handlers'[t])
            /\ Items(handlers'[t]) = {h \in Items(handlers[t]) : <<t, h>> \notin gone}
      /\ handlers' \in [EventTypes -> Seq(Handlers)]
      /\ dispatch' \in [Dispatches -> B!Dispatch \union {None}]
      /\ \A d \in Dispatches : dispatch'[d] # None => DispatchSound(dispatch'[d])
  BY DetachKeeps
<1>2. B!BusTypeOK'
  BY <1>1 DEF BusInv, B!BusTypeOK
<1>3. ASSUME NEW t \in EventTypes, NEW h \in Items(handlers'[t])
      PROVE  \E s \in Handles : handle'[s] = [type |-> t, handler |-> h, active |-> TRUE]
  <2>1. h \in Items(handlers[t]) /\ <<t, h>> \notin gone
    BY <1>1, <1>3
  <2>2. PICK s \in Handles : handle[s] = [type |-> t, handler |-> h, active |-> TRUE]
    BY <2>1 DEF BusInv, SubscriptionsSound
  <2>3. handle[s].type = t /\ handle[s].handler = h
    BY <2>2
  <2>4. handle'[s] = handle[s]
    BY <2>1, <2>3
  <2> QED
    BY <2>2, <2>4
<1>4. SubscriptionsSound(handlers, handle)'
  BY <1>1, <1>3 DEF SubscriptionsSound
<1> QED
  BY <1>1, <1>2, <1>4 DEF BusInv

LEMMA UnsubscribeKeeps ==
    ASSUME BusInv, NEW t \in EventTypes, NEW h \in Handlers, B!Unsubscribe(t, h)
    PROVE  BusInv'
<1>1. /\ B!Detach({<<t, h>>}) /\ UNCHANGED <<version, hooked>> /\ handle' = handle
      /\ handle \in [Handles -> B!Handle \union {None}]
  BY DEF B!Unsubscribe, BusInv, B!BusTypeOK
<1> QED
  BY <1>1, DetachedSound

LEMMA CancelKeeps ==
    ASSUME BusInv, NEW S \in SUBSET Handles, B!Cancel(S)
    PROVE  BusInv'
<1> DEFINE live == {s \in S : handle[s] # None /\ handle[s].active}
           gone == {<<handle[s].type, handle[s].handler>> : s \in live}
<1>1. /\ handle' = [s \in Handles |->
                        IF s \in live THEN [handle[s] EXCEPT !.active = FALSE] ELSE handle[s]]
      /\ B!Detach(gone) /\ UNCHANGED <<version, hooked>>
  BY DEF B!Cancel
<1>2. handle \in [Handles -> B!Handle \union {None}]
  BY DEF BusInv, B!BusTypeOK
<1>3. ASSUME NEW s \in Handles PROVE handle'[s] \in B!Handle \union {None}
  <2>1. CASE s \in live
    <3>1. handle[s] \in B!Handle
      BY <1>2, <2>1
    <3>2. handle'[s] = [handle[s] EXCEPT !.active = FALSE]
      <4> HIDE DEF live
      <4> QED
        BY <1>1, <2>1
    <3> QED
      BY <3>1, <3>2 DEF B!Handle
  <2>2. CASE s \notin live
    <3> HIDE DEF live
    <3> QED
      BY <1>1, <1>2, <2>2
  <2> QED
    BY <2>1, <2>2
<1>4. \A s \in Handles : handle'[s] # handle[s] =>
          <<handle[s].type, handle[s].handler>> \in gone
  <2> TAKE s \in Handles
  <2> HAVE handle'[s] # handle[s]
  <2>1. s \in live
    <3> HIDE DEF live
    <3> QED
      BY <1>1
  <2> HIDE DEF live
  <2> QED
    BY <2>1
<1>5. handle' \in [Handles -> B!Handle \union {None}]
  <2> HIDE DEF live
  <2> QED
    BY <1>1, <1>3
<1> HIDE DEF live, gone
<1> QED
  BY <1>1, <1>4, <1>5, DetachedSound

\* One call changes.
LEMMA CallKeeps ==
    ASSUME BusInv, NEW d \in Dispatches, NEW c, DispatchSound(c),
           dispatch' = [dispatch EXCEPT ![d] = c],
           UNCHANGED <<version, hooked, handlers, handle>>
    PROVE  BusInv'
<1>1. dispatch \in [Dispatches -> B!Dispatch \union {None}] /\ c \in B!Dispatch
  BY DEF BusInv, B!BusTypeOK, DispatchSound
<1>2. dispatch' \in [Dispatches -> B!Dispatch \union {None}]
  BY <1>1
<1>3. \A e \in Dispatches : dispatch'[e] # None => DispatchSound(dispatch'[e])
  BY <1>1 DEF BusInv
<1> QED
  BY <1>2, <1>3 DEF BusInv, B!BusTypeOK, SubscriptionsSound

\* A call begins with the handlers of its type, each of them once.
LEMMA PublishKeeps ==
    ASSUME BusInv, NEW d \in Dispatches, NEW t \in EventTypes, NEW v, B!Publish(d, t, v)
    PROVE  BusInv'
<1> DEFINE list == handlers[t]
           begun == [type |-> t, at |-> "refused", todo |-> list, served |-> <<>>,
                    failed |-> {}, loyal |-> B!ToSet(list)]
           new == IF B!Accepts(t, v) THEN B!Settled(begun) ELSE begun
<1>1. list \in Seq(Handlers) /\ Distinct(list)
  BY DEF BusInv, SubscriptionsSound
<1>2. /\ dispatch' = [dispatch EXCEPT ![d] = new]
      /\ UNCHANGED <<version, hooked, handlers, handle>>
  BY DEF B!Publish
<1>3. B!ToSet(list) = Items(list) /\ Items(list) \subseteq Handlers
  <2> HIDE DEF list
  <2> QED
    BY <1>1, SeqSets DEF Items
<1> HIDE DEF list
<1>4. begun \in B!Dispatch
  BY <1>1, <1>3 DEF B!Dispatch
<1>5. /\ Distinct(begun.served) /\ Distinct(begun.todo)
      /\ Items(begun.served) \intersect Items(begun.todo) = {}
      /\ begun.loyal \subseteq Items(begun.served) \union Items(begun.todo)
      /\ begun.served = <<>> /\ begun.at = "refused"
  BY <1>1, <1>3, NoItems
<1> HIDE DEF begun
<1>6. DispatchSound(B!Settled(begun))
  BY <1>4, <1>5, SettledSound
<1>7. DispatchSound(begun)
  BY <1>4, <1>5 DEF DispatchSound
<1>8. DispatchSound(new)
  BY <1>6, <1>7
<1> HIDE DEF new
<1> QED
  BY <1>2, <1>8, CallKeeps

\* The next handler moves from those to be served to those served.
LEMMA DeliverKeeps ==
    ASSUME BusInv, NEW d \in Dispatches, NEW raises \in BOOLEAN, B!Deliver(d, raises)
    PROVE  BusInv'
<1> DEFINE c == dispatch[d]
           h == Head(c.todo)
           rest == Tail(c.todo)
           done == Append(c.served, h)
           bad == IF raises /\ ~hooked THEN c.failed \union {h} ELSE c.failed
           moved == [type |-> c.type, at |-> c.at, todo |-> rest, served |-> done,
                    failed |-> bad, loyal |-> c.loyal]
<1>1. /\ c # None /\ c.at = "running"
      /\ dispatch' = [dispatch EXCEPT ![d] =
              B!Settled([c EXCEPT !.todo = rest, !.served = done, !.failed = bad])]
      /\ UNCHANGED <<version, hooked, handlers, handle>>
  BY DEF B!Deliver, B!Rest
<1>2. DispatchSound(c) /\ c \in B!Dispatch /\ c.todo # <<>>
  BY <1>1 DEF BusInv, DispatchSound
<1> HIDE DEF c
<1>3. /\ rest \in Seq(Handlers) /\ Distinct(rest) /\ h \in Handlers
      /\ Items(rest) = Items(c.todo) \ {h} /\ h \in Items(c.todo)
  BY <1>2, TailItems DEF DispatchSound, B!Dispatch
<1> HIDE DEF h, rest
<1>4. h \notin Items(c.served)
  BY <1>2, <1>3 DEF DispatchSound
<1>5. done \in Seq(Handlers) /\ Items(done) = Items(c.served) \union {h} /\ Distinct(done)
  BY <1>2, <1>3, <1>4, AppendItems DEF DispatchSound, B!Dispatch
<1>6. bad \subseteq Handlers
  BY <1>2, <1>3, DispatchFields
<1> HIDE DEF done, bad
<1>7. [c EXCEPT !.todo = rest, !.served = done, !.failed = bad] = moved
  <2> DEFINE one == [type |-> c.type, at |-> c.at, todo |-> rest, served |-> c.served,
                     failed |-> c.failed, loyal |-> c.loyal]
             two == [type |-> c.type, at |-> c.at, todo |-> rest, served |-> done,
                     failed |-> c.failed, loyal |-> c.loyal]
  <2>1. [c EXCEPT !.todo = rest] = one
    BY <1>2, DispatchFields
  <2>2. [one EXCEPT !.served = done] = two
    OBVIOUS
  <2>3. [two EXCEPT !.failed = bad] = moved
    OBVIOUS
  <2> QED
    BY <2>1, <2>2, <2>3
<1>8. moved \in B!Dispatch
  BY <1>2, <1>3, <1>5, <1>6, DispatchFields DEF B!Dispatch
<1>9. /\ Distinct(moved.served) /\ Distinct(moved.todo)
      /\ Items(moved.served) \intersect Items(moved.todo) = {}
      /\ moved.loyal \subseteq Items(moved.served) \union Items(moved.todo)
  BY <1>2, <1>3, <1>5 DEF DispatchSound
<1> HIDE DEF moved
<1>10. DispatchSound(B!Settled(moved))
  BY <1>8, <1>9, SettledSound
<1> QED
  BY <1>1, <1>7, <1>10, CallKeeps

LEMMA AbandonKeeps ==
    ASSUME BusInv, NEW d \in Dispatches, B!Abandon(d)
    PROVE  BusInv'
<1> DEFINE c == dispatch[d]
           new == [type |-> c.type, at |-> "cancelled", todo |-> c.todo, served |-> c.served,
                   failed |-> c.failed, loyal |-> c.loyal]
<1>1. c # None /\ UNCHANGED <<version, hooked, handlers, handle>>
  BY DEF B!Abandon
<1>2. DispatchSound(c) /\ c \in B!Dispatch
  BY <1>1 DEF BusInv, DispatchSound
<1>3. dispatch' = [dispatch EXCEPT ![d] = [c EXCEPT !.at = "cancelled"]]
  BY DEF B!Abandon
<1> HIDE DEF c
<1>4. [c EXCEPT !.at = "cancelled"] = new
  BY <1>2, DispatchFields
<1>5. new \in B!Dispatch
  BY <1>2, DispatchFields DEF B!Dispatch
<1>6. DispatchSound(new)
  BY <1>2, <1>5 DEF DispatchSound
<1> HIDE DEF new
<1> QED
  BY <1>1, <1>3, <1>4, <1>6, CallKeeps

\* The invariant of the bus is inductive, and implies what the run checks.
LEMMA BusInductive ==
    /\ ProcessInit => BusInv
    /\ BusInv /\ [ProcessNext]_processVars => BusInv'
    /\ BusInv => EventsServed
<1>1. ASSUME ProcessInit PROVE BusInv
  <2>1. /\ version = [t \in EventTypes |-> None] /\ hooked \in BOOLEAN
        /\ handlers = [t \in EventTypes |-> <<>>]
        /\ handle = [s \in Handles |-> None]
        /\ dispatch = [d \in Dispatches |-> None]
    BY <1>1 DEF ProcessInit, B!BusInit
  <2>2. B!BusTypeOK
    BY <2>1 DEF B!BusTypeOK
  <2>3. SubscriptionsSound(handlers, handle)
    BY <2>1, NoItems DEF SubscriptionsSound
  <2> QED
    BY <2>1, <2>2, <2>3 DEF BusInv
<1>2. ASSUME BusInv, [ProcessNext]_processVars PROVE BusInv'
  <2>1. CASE UNCHANGED busVars
    BY <1>2, <2>1 DEF BusInv, busVars, B!BusTypeOK, SubscriptionsSound
  <2>2. CASE B!BusNext
    <3>1. ASSUME NEW t \in EventTypes, NEW v \in Versions, B!RegisterType(t, v) PROVE BusInv'
      BY <1>2, <3>1 DEF BusInv, B!BusTypeOK, SubscriptionsSound, B!RegisterType
    <3> QED
      BY <1>2, <2>2, <3>1, SubscribeKeeps, UnsubscribeKeeps, CancelKeeps, PublishKeeps,
         DeliverKeeps, AbandonKeeps DEF B!BusNext
  <2> QED
    BY <1>2, <2>1, <2>2 DEF ProcessNext, Hub, processVars
<1>3. ASSUME BusInv PROVE EventsServed
  <2>1. ASSUME NEW d \in Dispatches, dispatch[d] # None
        PROVE  /\ B!IsInjective(dispatch[d].served)
               /\ dispatch[d].at \in {"returned", "raised"} =>
                     dispatch[d].loyal \subseteq B!ToSet(dispatch[d].served)
               /\ dispatch[d].at = "returned" => dispatch[d].failed = {}
               /\ dispatch[d].at = "refused" => dispatch[d].served = <<>>
    <3> DEFINE c == dispatch[d]
    <3>1. DispatchSound(c) /\ c \in B!Dispatch
      BY <1>3, <2>1 DEF BusInv, DispatchSound
    <3> HIDE DEF c
    <3>2. c.served \in Seq(Handlers)
      BY <3>1 DEF B!Dispatch
    <3>3. B!ToSet(c.served) = Items(c.served) /\ (B!IsInjective(c.served) <=> Distinct(c.served))
      BY <3>2, SeqSets
    <3>4. c.at \in {"returned", "raised"} => c.loyal \subseteq Items(c.served)
      BY <3>1, NoItems DEF DispatchSound
    <3>5. /\ Distinct(c.served)
          /\ c.at = "returned" => c.failed = {}
          /\ c.at = "refused" => c.served = <<>>
      BY <3>1 DEF DispatchSound
    <3> QED
      BY <3>3, <3>4, <3>5 DEF c
  <2>2. ASSUME NEW t \in EventTypes, NEW h \in B!ToSet(handlers[t])
        PROVE  \E s \in Handles : handle[s] = [type |-> t, handler |-> h, active |-> TRUE]
    <3> DEFINE list == handlers[t]
    <3>1. list \in Seq(Handlers)
      BY <1>3 DEF BusInv, SubscriptionsSound
    <3>2. B!ToSet(list) = Items(list)
      <4> HIDE DEF list
      <4> QED
        BY <3>1, SeqSets
    <3>3. h \in Items(handlers[t])
      BY <2>2, <3>2
    <3> QED
      BY <1>3, <3>3 DEF BusInv, SubscriptionsSound
  <2> QED
    BY <2>1, <2>2 DEF EventsServed, B!Served
<1> QED
  BY <1>1, <1>2, <1>3

-----------------------------------------------------------------------------
(* The module loader *)

\* The parts of a concatenation give its items.
LEMMA FlattenTyped ==
    ASSUME NEW X, NEW parts \in Seq(Seq(X))
    PROVE  L!FlattenSeq(parts) \in Seq(X)
<1> DEFINE Value(f, n) == IF n = 1 THEN parts[n] ELSE f[n - 1] \o parts[n]
           Solves(f, k) == f = [n \in 1..k |-> Value(f, n)]
           Sound(f, k) == Solves(f, k) /\ \A n \in 1..k : f[n] \in Seq(X)
           Solvable(k) == \E f : Sound(f, k)
           Bad == {k \in 1..Len(parts) : ~Solvable(k)}
<1>0. Len(parts) \in Nat
  OBVIOUS
<1>1. Bad = {}
  <2> SUFFICES ASSUME Bad # {} PROVE FALSE
    OBVIOUS
  <2> HIDE DEF Solvable
  <2>0. Bad \in SUBSET Nat
    BY <1>0
  <2>1. PICK k \in Bad : \A m \in Bad : k <= m
    <3> HIDE DEF Bad
    <3> QED
      BY <2>0, Least
  <2>2. k \in Nat /\ 1 <= k /\ k <= Len(parts) /\ ~Solvable(k)
    BY <1>0, <2>1
  <2>3. CASE k = 1
    <3> DEFINE g == [n \in 1..1 |-> parts[1]]
    <3>1. Solves(g, 1)
      OBVIOUS
    <3>2. \A n \in 1..1 : g[n] \in Seq(X)
      BY <1>0, <2>2, <2>3
    <3>3. Sound(g, 1)
      BY <3>1, <3>2
    <3> HIDE DEF Sound, g
    <3> QED
      BY <2>2, <2>3, <3>3 DEF Solvable
  <2>4. CASE k # 1
    <3>1. k - 1 \in 1..Len(parts) /\ k - 1 \notin Bad
      BY <1>0, <2>1, <2>2, <2>4
    <3>2. PICK f : Sound(f, k - 1)
      <4>1. Solvable(k - 1)
        BY <3>1
      <4> QED
        BY <4>1 DEF Solvable
    <3> DEFINE g == [n \in 1..k |-> IF n = k THEN Value(f, k) ELSE f[n]]
    <3>3. k - 1 \in 1..(k - 1) /\ k - 1 \in 1..k /\ k - 1 # k
      BY <2>2, <2>4
    <3>4. ASSUME NEW n \in 1..k PROVE g[n] = Value(g, n) /\ g[n] \in Seq(X)
      <4>1. CASE n = k
        <5>1. g[k - 1] = f[k - 1] /\ f[k - 1] \in Seq(X) /\ parts[k] \in Seq(X)
          BY <1>0, <2>2, <3>2, <3>3
        <5>2. g[k] = f[k - 1] \o parts[k]
          <6>1. g[k] = Value(f, k)
            <7> HIDE DEF Value
            <7> QED
              BY <2>2
          <6>2. Value(f, k) = f[k - 1] \o parts[k]
            BY <2>4, Zenon
          <6> HIDE DEF Value, g
          <6> QED
            BY <6>1, <6>2
        <5>3. f[k - 1] \o parts[k] \in Seq(X)
          BY <5>1
        <5> HIDE DEF g
        <5> QED
          BY <2>2, <2>4, <4>1, <5>1, <5>2, <5>3
      <4>2. CASE n # k
        <5>1. n \in 1..(k - 1)
          BY <4>2, <2>2
        <5>2. f[n] = Value(f, n) /\ g[n] = f[n] /\ f[n] \in Seq(X)
          BY <3>2, <4>2, <5>1
        <5>3. CASE n = 1
          BY <5>2, <5>3
        <5>4. CASE n # 1
          <6>1. n - 1 \in 1..k /\ n - 1 # k
            BY <5>1, <5>4, <2>2
          <6>2. g[n - 1] = f[n - 1]
            BY <6>1
          <6> QED
            BY <5>2, <5>4, <6>2
        <5> QED
          BY <5>3, <5>4
      <4> QED
        BY <4>1, <4>2
    <3>5. Solves(g, k)
      BY <3>4
    <3>6. \A n \in 1..k : g[n] \in Seq(X)
      BY <3>4
    <3>7. Sound(g, k)
      <4> HIDE DEF Solves, g
      <4> QED
        BY <3>5, <3>6
    <3> QED
      <4> HIDE DEF Sound, g
      <4> QED
        BY <2>2, <3>7 DEF Solvable
  <2> QED
    BY <2>3, <2>4
<1>2. CASE Len(parts) = 0
  <2>1. L!FlattenSeq(parts) = parts
    BY <1>2 DEF L!FlattenSeq
  <2>2. parts = <<>>
    BY <1>2
  <2> QED
    BY <2>1, <2>2
<1>3. CASE Len(parts) # 0
  <2> DEFINE N == Len(parts)
             F == CHOOSE f : Solves(f, N)
  <2>0. N \in 1..Len(parts)
    BY <1>0, <1>3
  <2>1. PICK f0 : Sound(f0, N)
    <3>1. Solvable(N)
      <4> HIDE DEF Solvable
      <4> QED
        BY <1>1, <2>0
    <3> QED
      BY <3>1
  <2>2. Solves(F, N)
    BY <2>1
  <2>3. L!FlattenSeq(parts) = F[N]
    BY <1>3 DEF L!FlattenSeq
  <2> HIDE DEF F
  <2> DEFINE G == {n \in 0..N : n = 0 \/ F[n] \in Seq(X)}
  <2>4. \A n \in 1..N : F[n] = Value(F, n) /\ parts[n] \in Seq(X)
    <3>1. \A n \in 1..N : F[n] = Value(F, n)
      <4> HIDE DEF Value
      <4> QED
        BY <2>2
    <3> HIDE DEF Value
    <3> QED
      BY <1>0, <3>1
  <2>5. ASSUME NEW n \in 1..N, n - 1 \in G PROVE n \in G
    <3>1. CASE n = 1
      BY <2>4, <3>1
    <3>2. CASE n # 1
      <4>1. F[n - 1] \in Seq(X) /\ parts[n] \in Seq(X)
        BY <2>4, <2>5, <3>2
      <4>2. F[n - 1] \o parts[n] \in Seq(X)
        BY <4>1
      <4>3. F[n] = F[n - 1] \o parts[n]
        BY <2>4, <3>2, Zenon
      <4>4. F[n] \in Seq(X)
        BY <4>2, <4>3, Zenon
      <4> QED
        BY <1>0, <4>4
    <3> QED
      BY <3>1, <3>2
  <2>6. 0 \in G
    BY <1>0
  <2>7. N \in G
    <3> HIDE DEF G
    <3>1. \A n \in 1..N : n - 1 \in G => n \in G
      BY <2>5
    <3>2. \A n \in 0..N : n \in G
      BY <1>0, <2>6, <3>1, Induct
    <3> QED
      BY <1>0, <3>2
  <2> QED
    BY <1>3, <2>3, <2>7
<1> QED
  BY <1>2, <1>3

KindSet == {"commands", "queries", "jobs", "event_handlers", "routers", "migrations", "modules"}

LEMMA KindsAre ==
    /\ Len(L!Kinds) = 7 /\ DOMAIN L!Kinds = 1..7
    /\ L!ToSet(L!Kinds) = KindSet
    /\ \A n \in 1..7 : L!Kinds[n] \in KindSet
    /\ \A n, m \in 1..7 : L!Kinds[n] = L!Kinds[m] => n = m
    /\ \A k \in KindSet : \E n \in 1..7 : L!Kinds[n] = k
<1>1. Len(L!Kinds) = 7 /\ DOMAIN L!Kinds = 1..7
  BY DEF L!Kinds
<1>2. /\ L!Kinds[1] = "commands" /\ L!Kinds[2] = "queries" /\ L!Kinds[3] = "jobs"
      /\ L!Kinds[4] = "event_handlers" /\ L!Kinds[5] = "routers"
      /\ L!Kinds[6] = "migrations" /\ L!Kinds[7] = "modules"
  BY DEF L!Kinds
<1>3. \A n \in 1..7 : n \in {1, 2, 3, 4, 5, 6, 7}
  OBVIOUS
<1>4. \A n \in 1..7 : L!Kinds[n] \in KindSet
  BY <1>2, <1>3 DEF KindSet
<1>5. \A n, m \in 1..7 : L!Kinds[n] = L!Kinds[m] => n = m
  BY <1>2, <1>3
<1>6. \A k \in KindSet : \E n \in 1..7 : L!Kinds[n] = k
  <2>1. \A n \in {1, 2, 3, 4, 5, 6, 7} : n \in 1..7
    OBVIOUS
  <2> QED
    BY <1>2, <2>1 DEF KindSet
<1>7. L!ToSet(L!Kinds) = {L!Kinds[n] : n \in 1..7}
  BY <1>1 DEF L!ToSet
<1>8. {L!Kinds[n] : n \in 1..7} = KindSet
  BY <1>4, <1>6
<1> QED
  BY <1>1, <1>4, <1>5, <1>6, <1>7, <1>8

\* Keys and ids.
Named == Keys \union ModuleIds

LEMMA ContributedTyped ==
    ASSUME NEW loaded \in Seq(Manifests), NEW k \in KindSet
    PROVE  L!Contributed(loaded, k) \in Seq(Named)
<1> DEFINE part_(i) == IF k = "modules" THEN <<loaded[i].id>> ELSE loaded[i][k]
           parts == [i \in DOMAIN loaded |-> part_(i)]
<1>1. DOMAIN loaded = 1..Len(loaded) /\ Len(loaded) \in Nat
  OBVIOUS
<1>2. ASSUME NEW i \in 1..Len(loaded) PROVE part_(i) \in Seq(Named)
  <2> DEFINE man == loaded[i]
  <2>1. man \in L!Manifest
    <3>1. man \in Manifests
      OBVIOUS
    <3> QED
      BY <3>1, ManifestAssumption
  <2> HIDE DEF man
  <2>2. \A s \in Seq(Keys) : s \in Seq(Named)
    BY DEF Named
  <2>3. /\ man["commands"] \in Seq(Keys) /\ man["queries"] \in Seq(Keys)
        /\ man["jobs"] \in Seq(Keys) /\ man["event_handlers"] \in Seq(Keys)
        /\ man["routers"] \in Seq(Keys) /\ man["migrations"] \in Seq(Keys)
        /\ man.id \in ModuleIds
    BY <2>1 DEF L!Manifest
  <2>4. k # "modules" => man[k] \in Seq(Keys)
    BY <2>3 DEF KindSet
  <2>5. <<man.id>> \in Seq(Named)
    <3>1. man.id \in Named
      BY <2>3 DEF Named
    <3> QED
      BY <3>1
  <2> QED
    BY <2>2, <2>4, <2>5 DEF man
<1>3. parts \in Seq(Seq(Named))
  <2> HIDE DEF part_
  <2> QED
    BY <1>1, <1>2
<1>4. L!Contributed(loaded, k) = L!FlattenSeq(parts)
  BY DEF L!Contributed
<1> HIDE DEF parts
<1> QED
  BY <1>3, <1>4, FlattenTyped

\* What single-owner validation has seen.
OneOwner(loaded) ==
    \A k \in {"commands", "queries", "jobs", "modules"} : Distinct(L!Contributed(loaded, k))

\* Nothing is registered before the manifests are valid as a set; then the passes in
\* front of the current one have registered all there is of their kinds.
LoaderInv ==
    /\ boot \in [at : {"start", "discovered", "registering", "refused", "up"}, pass : 1..7,
                 loaded : Seq(Manifests)]
    /\ registered = [k \in KindSet |-> registered[k]]
    /\ boot.at \in {"start", "discovered"} => boot.pass = 1
    /\ boot.at \in {"start", "discovered", "refused"} =>
          \A k \in KindSet : registered[k] = <<>>
    /\ boot.at \in {"registering", "up"} =>
          /\ OneOwner(boot.loaded)
          /\ \A n \in 1..7 : registered[L!Kinds[n]] =
                IF n < boot.pass \/ boot.at = "up" THEN L!Contributed(boot.loaded, L!Kinds[n])
                ELSE <<>>

LEMMA DiscoverKeeps ==
    ASSUME LoaderInv, L!Discover
    PROVE  LoaderInv'
<1>1. /\ boot.at = "start" /\ boot.pass = 1 /\ registered' = registered
      /\ boot \in [at : {"start", "discovered", "registering", "refused", "up"}, pass : 1..7,
                   loaded : Seq(Manifests)]
      /\ \A k \in KindSet : registered[k] = <<>>
      /\ registered = [k \in KindSet |-> registered[k]]
  BY DEF LoaderInv, L!Discover
<1>2. CASE \E loaded \in L!SeqOf(Manifests, MaxManifests) :
              boot' = [boot EXCEPT !.at = "discovered", !.loaded = loaded]
  <2>1. PICK loaded \in L!SeqOf(Manifests, MaxManifests) :
              boot' = [boot EXCEPT !.at = "discovered", !.loaded = loaded]
    BY <1>2
  <2>2. loaded \in Seq(Manifests)
    <3>1. PICK m \in 0..MaxManifests : loaded \in [1..m -> Manifests]
      BY DEF L!SeqOf
    <3>2. m \in Nat
      BY <3>1
    <3> QED
      BY <3>1, <3>2
  <2>3. boot' = [at |-> "discovered", pass |-> 1, loaded |-> loaded]
    BY <1>1, <2>1
  <2> QED
    BY <1>1, <2>2, <2>3 DEF LoaderInv
<1>3. CASE boot' = [boot EXCEPT !.at = "refused"]
  <2>1. boot' = [at |-> "refused", pass |-> 1, loaded |-> boot.loaded]
    BY <1>1, <1>3
  <2> QED
    BY <1>1, <2>1 DEF LoaderInv
<1> QED
  BY <1>2, <1>3 DEF L!Discover

LEMMA ValidOwners ==
    ASSUME NEW loaded \in Seq(Manifests), L!Valid(loaded)
    PROVE  OneOwner(loaded)
<1> SUFFICES ASSUME NEW k \in {"commands", "queries", "jobs", "modules"}
             PROVE  Distinct(L!Contributed(loaded, k))
  BY DEF OneOwner
<1> DEFINE c == L!Contributed(loaded, k)
<1>1. L!IsInjective(c)
  BY DEF L!Valid, L!SingleOwner
<1>2. k \in KindSet
  BY DEF KindSet
<1>3. c \in Seq(Named)
  BY <1>2, ContributedTyped
<1> HIDE DEF c
<1>4. Distinct(c)
  BY <1>1, <1>3, SeqSets
<1> QED
  BY <1>4 DEF c

LEMMA ValidateKeeps ==
    ASSUME LoaderInv, L!Validate
    PROVE  LoaderInv'
<1>1. /\ boot.at = "discovered" /\ boot.pass = 1 /\ registered' = registered
      /\ boot \in [at : {"start", "discovered", "registering", "refused", "up"}, pass : 1..7,
                   loaded : Seq(Manifests)]
      /\ \A k \in KindSet : registered[k] = <<>>
      /\ registered = [k \in KindSet |-> registered[k]]
      /\ boot' = [boot EXCEPT !.at = IF L!Valid(boot.loaded) THEN "registering" ELSE "refused"]
  BY DEF LoaderInv, L!Validate
<1>2. \A n \in 1..7 : registered[L!Kinds[n]] = <<>>
  BY <1>1, KindsAre
<1>3. boot.loaded \in Seq(Manifests)
  BY <1>1
<1>4. CASE L!Valid(boot.loaded)
  <2>1. OneOwner(boot.loaded)
    BY <1>3, <1>4, ValidOwners
  <2>2. boot' = [at |-> "registering", pass |-> 1, loaded |-> boot.loaded]
    BY <1>1, <1>4
  <2>3. \A n \in 1..7 : ~(n < 1)
    OBVIOUS
  <2>4. boot'.at = "registering" /\ boot'.pass = 1 /\ boot'.loaded = boot.loaded
    BY <2>2
  <2>5. OneOwner(boot.loaded)'
    BY <2>1, <2>4 DEF OneOwner, L!Contributed
  <2>6. \A n \in 1..7 : registered'[L!Kinds[n]] =
            IF n < boot'.pass \/ boot'.at = "up" THEN L!Contributed(boot'.loaded, L!Kinds[n])
            ELSE <<>>
    BY <1>1, <1>2, <2>3, <2>4
  <2>7. boot' \in [at : {"start", "discovered", "registering", "refused", "up"}, pass : 1..7,
                   loaded : Seq(Manifests)]
    BY <1>3, <2>2
  <2>8. registered' = [k \in KindSet |-> registered'[k]]
    BY <1>1
  <2> QED
    BY <2>4, <2>5, <2>6, <2>7, <2>8 DEF LoaderInv
<1>5. CASE ~L!Valid(boot.loaded)
  <2>1. boot' = [at |-> "refused", pass |-> 1, loaded |-> boot.loaded]
    BY <1>1, <1>5
  <2> QED
    BY <1>1, <1>3, <2>1 DEF LoaderInv
<1> QED
  BY <1>4, <1>5

\* A pass that starts with nothing of its kind is refused no key.
LEMMA RegisterKeeps ==
    ASSUME LoaderInv, L!Register
    PROVE  LoaderInv'
<1> DEFINE n == boot.pass
           k == L!Kinds[n]
           adds == L!Contributed(boot.loaded, k)
           before(i) == registered[k] \o SubSeq(adds, 1, i - 1)
           bad == {i \in DOMAIN adds : L!Refuses(k, before(i), adds[i])}
<1>1. /\ boot.at = "registering"
      /\ boot \in [at : {"start", "discovered", "registering", "refused", "up"}, pass : 1..7,
                   loaded : Seq(Manifests)]
      /\ registered = [kind \in KindSet |-> registered[kind]]
      /\ OneOwner(boot.loaded)
      /\ \A m \in 1..7 : registered[L!Kinds[m]] =
            IF m < n THEN L!Contributed(boot.loaded, L!Kinds[m]) ELSE <<>>
  BY DEF LoaderInv, L!Register
<1>2. n \in 1..7 /\ boot.loaded \in Seq(Manifests) /\ k \in KindSet
  BY <1>1, KindsAre
<1>3. registered[k] = <<>>
  BY <1>1, <1>2
<1>4. adds \in Seq(Named)
  BY <1>2, ContributedTyped
<1>5. k \in {"commands", "queries", "modules"} => Distinct(adds)
  BY <1>1 DEF OneOwner
<1>6. bad = {}
  <2> SUFFICES ASSUME NEW i \in DOMAIN adds, L!Refuses(k, before(i), adds[i]) PROVE FALSE
    OBVIOUS
  <2>1. k \in {"commands", "queries", "modules"} /\ L!Contains(before(i), adds[i])
    BY DEF L!Refuses
  <2> DEFINE head == SubSeq(adds, 1, i - 1)
  <2> HIDE DEF adds
  <2>2. i \in 1..Len(adds) /\ Len(adds) \in Nat
    BY <1>4
  <2>3. /\ head \in Seq(Named) /\ Len(head) = i - 1
        /\ \A j \in 1..(i - 1) : head[j] = adds[j] /\ j \in 1..Len(adds) /\ j # i
    BY <1>4, <2>2
  <2>4. before(i) = head
    <3>1. before(i) = <<>> \o head
      BY <1>3
    <3> HIDE DEF head
    <3>2. <<>> \o head = head
      BY <2>3
    <3> QED
      BY <3>1, <3>2
  <2>5. PICK j \in 1..Len(head) : head[j] = adds[i]
    <3> HIDE DEF before
    <3> QED
      BY <2>1, <2>4 DEF L!Contains
  <2> QED
    BY <1>5, <2>1, <2>2, <2>3, <2>5 DEF Distinct
<1>7. /\ registered' = [registered EXCEPT ![k] = registered[k] \o adds]
      /\ boot' = IF boot.pass = Len(L!Kinds) THEN [boot EXCEPT !.at = "up"]
                 ELSE [boot EXCEPT !.pass = boot.pass + 1]
  BY <1>6 DEF L!Register
<1>8. registered[k] \o adds = adds
  <2> HIDE DEF adds
  <2> QED
    BY <1>3, <1>4
<1>9. registered' = [registered EXCEPT ![k] = adds]
  BY <1>7, <1>8
<1>10. ASSUME NEW m \in 1..7
       PROVE  registered'[L!Kinds[m]] =
                IF m < n \/ m = n THEN L!Contributed(boot.loaded, L!Kinds[m]) ELSE <<>>
  <2>1. CASE m = n
    <3>1. registered'[k] = adds
      <4> HIDE DEF k, adds
      <4> QED
        BY <1>1, <1>2, <1>9
    <3> QED
      BY <2>1, <3>1
  <2>2. CASE m # n
    <3>1. L!Kinds[m] \in KindSet /\ L!Kinds[m] # k
      BY <1>2, <2>2, KindsAre
    <3>2. registered'[L!Kinds[m]] = registered[L!Kinds[m]]
      <4> HIDE DEF k, adds
      <4> QED
        BY <1>1, <1>2, <1>9, <3>1
    <3> QED
      BY <1>1, <2>2, <3>2
  <2> QED
    BY <2>1, <2>2
<1>11. registered' = [kind \in KindSet |-> registered'[kind]]
  <2> HIDE DEF k, adds
  <2> QED
    BY <1>1, <1>2, <1>9
<1> HIDE DEF k, adds, bad, before
<1>12. CASE n = 7
  <2>1. boot' = [at |-> "up", pass |-> n, loaded |-> boot.loaded]
    BY <1>1, <1>7, <1>12, KindsAre
  <2>2. boot'.at = "up" /\ boot'.pass = n /\ boot'.loaded = boot.loaded
    BY <2>1
  <2>3. \A m \in 1..7 : registered'[L!Kinds[m]] =
            IF m < boot'.pass \/ boot'.at = "up" THEN L!Contributed(boot'.loaded, L!Kinds[m])
            ELSE <<>>
    <3>1. \A m \in 1..7 : m < n \/ m = n
      BY <1>12
    <3> HIDE DEF n
    <3> QED
      BY <1>10, <2>2, <3>1
  <2>4. OneOwner(boot.loaded)'
    BY <1>1, <2>2 DEF OneOwner, L!Contributed
  <2>5. boot' \in [at : {"start", "discovered", "registering", "refused", "up"}, pass : 1..7,
                   loaded : Seq(Manifests)]
    BY <1>2, <2>1
  <2> QED
    BY <1>11, <2>2, <2>3, <2>4, <2>5 DEF LoaderInv
<1>13. CASE n # 7
  <2> DEFINE up == n + 1
  <2>0. up \in 1..7 /\ \A m \in 1..7 : m < up <=> m < n \/ m = n
    BY <1>2, <1>13
  <2>1. boot' = [boot EXCEPT !.pass = up]
    BY <1>7, <1>13, KindsAre
  <2> HIDE DEF up
  <2>2. boot' = [at |-> "registering", pass |-> up, loaded |-> boot.loaded]
    BY <1>1, <2>1
  <2>3. boot'.at = "registering" /\ boot'.pass = up /\ boot'.loaded = boot.loaded
    BY <2>2
  <2>4. \A m \in 1..7 : registered'[L!Kinds[m]] =
            IF m < boot'.pass \/ boot'.at = "up" THEN L!Contributed(boot'.loaded, L!Kinds[m])
            ELSE <<>>
    <3> HIDE DEF n
    <3> QED
      BY <1>10, <2>0, <2>3
  <2>5. OneOwner(boot.loaded)'
    BY <1>1, <2>3 DEF OneOwner, L!Contributed
  <2>6. boot' \in [at : {"start", "discovered", "registering", "refused", "up"}, pass : 1..7,
                   loaded : Seq(Manifests)]
    BY <1>2, <2>0, <2>2
  <2> QED
    BY <1>11, <2>3, <2>4, <2>5, <2>6 DEF LoaderInv
<1> QED
  BY <1>12, <1>13

\* The invariant of the loader is inductive, and implies what the run checks.
LEMMA LoaderInductive ==
    /\ ProcessInit => LoaderInv
    /\ LoaderInv /\ [ProcessNext]_processVars => LoaderInv'
    /\ LoaderInv => LoadedWhole
<1>1. ASSUME ProcessInit PROVE LoaderInv
  <2>1. /\ boot = [at |-> "start", pass |-> 1, loaded |-> <<>>]
        /\ registered = [k \in L!ToSet(L!Kinds) |-> <<>>]
    BY <1>1 DEF ProcessInit, L!LoaderInit
  <2>2. registered = [k \in KindSet |-> <<>>]
    BY <2>1, KindsAre
  <2> QED
    BY <2>1, <2>2 DEF LoaderInv
<1>2. ASSUME LoaderInv, [ProcessNext]_processVars PROVE LoaderInv'
  <2>1. CASE UNCHANGED loaderVars
    BY <1>2, <2>1 DEF LoaderInv, loaderVars, OneOwner, L!Contributed
  <2>2. CASE L!LoaderNext
    BY <1>2, <2>2, DiscoverKeeps, ValidateKeeps, RegisterKeeps DEF L!LoaderNext
  <2> QED
    BY <1>2, <2>1, <2>2 DEF ProcessNext, Hub, processVars
<1>3. ASSUME LoaderInv PROVE LoadedWhole
  <2>1. boot.at # "failed"
    BY <1>3 DEF LoaderInv
  <2>2. ASSUME boot.at = "refused" PROVE \A k \in L!ToSet(L!Kinds) : registered[k] = <<>>
    BY <1>3, <2>2, KindsAre DEF LoaderInv
  <2>3. ASSUME boot.at = "up"
        PROVE  /\ \A k \in L!ToSet(L!Kinds) :
                     L!ToSet(registered[k]) = L!ToSet(L!Contributed(boot.loaded, k))
               /\ \A k \in {"commands", "queries", "jobs"} : L!IsInjective(registered[k])
    <3>1. ASSUME NEW k \in KindSet PROVE registered[k] = L!Contributed(boot.loaded, k)
      <4>1. PICK n \in 1..7 : L!Kinds[n] = k
        BY KindsAre
      <4> QED
        BY <1>3, <2>3, <4>1 DEF LoaderInv
    <3>2. ASSUME NEW k \in {"commands", "queries", "jobs"} PROVE L!IsInjective(registered[k])
      <4> DEFINE c == L!Contributed(boot.loaded, k)
      <4>1. k \in KindSet
        BY DEF KindSet
      <4>2. c \in Seq(Named)
        <5>1. boot.loaded \in Seq(Manifests)
          BY <1>3 DEF LoaderInv
        <5> QED
          BY <4>1, <5>1, ContributedTyped
      <4>3. Distinct(c)
        BY <1>3, <2>3 DEF LoaderInv, OneOwner
      <4> HIDE DEF c
      <4>4. L!IsInjective(c)
        BY <4>2, <4>3, SeqSets
      <4> QED
        BY <3>1, <4>1, <4>4 DEF c
    <3> QED
      BY <3>1, <3>2, KindsAre
  <2> QED
    BY <2>1, <2>2, <2>3 DEF LoadedWhole, L!AllOrNothing
<1> QED
  BY <1>1, <1>2, <1>3

-----------------------------------------------------------------------------
(* The realtime hub *)

\* The waiting calls that have a subscriber to serve, and their positions.
Held(s, calls) == {m \in Calls : calls[m].at = "waiting" /\ s \in Items(calls[m].rest)}

Positions(s, calls) == {calls[m].position : m \in Held(s, calls)}

Here(r) == r.got \o r.queue

\* A call waits for the first of its queues, which is crowded, and for nobody new.
CallSound(c, subs) ==
    c.at = "waiting" =>
        /\ Distinct(c.rest) /\ c.rest # <<>>
        /\ subs[Head(c.rest)].crowded
        /\ \A s \in Items(c.rest) : subs[s].state # "new"

\* A subscriber of the record r has the positions up to n, but for those in P, which
\* the calls of U hold.
StreamSound(r, U, P, n) ==
    /\ IsFiniteSet(U)
    /\ Items(Here(r)) \union P = (r.from + 1)..n
    /\ Len(Here(r)) + Cardinality(U) = n - r.from

InOrder(r) == \A i \in 1..Len(Here(r)) : Here(r)[i] = r.from + i

\* The last positions are kept for replay, as many as there is room for.
ReplaySound(kept, n) ==
    /\ kept \in Seq(Nat)
    /\ Len(kept) = Smaller(n, ReplayCapacity)
    /\ \A i \in 1..Len(kept) : kept[i] = n - Len(kept) + i

HubTyped ==
    /\ position \in Nat
    /\ call \in [Calls -> Call]
    /\ sub \in [Subscribers -> Sub]

HubInv ==
    /\ HubTyped
    /\ ReplaySound(replay, position)
    /\ order \in Seq(Subscribers) /\ Distinct(order) /\ Items(order) = Live
    /\ IsFiniteSet(Live)
    /\ \A m \in Calls : CallSound(call[m], sub)
    /\ \A s \in Subscribers : sub[s].state = "new" => sub[s].got = <<>>
    /\ \A s \in Live : StreamSound(sub[s], Held(s, call), Positions(s, call), position)
    /\ (\A q \in Subscribers : ~sub[q].crowded) => \A s \in Live : InOrder(sub[s])

\* The record q of a subscriber differs from r in who waits for room only, or has one
\* more message in its queue.
Alike(r, q) ==
    /\ q.state = r.state /\ q.got = r.got /\ q.from = r.from /\ q.queue = r.queue
    /\ r.crowded => q.crowded

Fed(r, q, p) ==
    /\ q.state = r.state /\ q.got = r.got /\ q.from = r.from
    /\ q.queue = Append(r.queue, p)
    /\ r.crowded => q.crowded

LEMMA SubFields ==
    ASSUME NEW r \in Sub
    PROVE  /\ r = [state |-> r.state, queue |-> r.queue, putters |-> r.putters,
                   woken |-> r.woken, got |-> r.got, from |-> r.from, crowded |-> r.crowded]
           /\ r.state \in {"new", "live", "closed"} /\ r.queue \in Seq(Nat)
           /\ r.putters \in Seq(Calls) /\ r.woken \in Seq(Calls) /\ r.got \in Seq(Nat)
           /\ r.from \in Nat /\ r.crowded \in BOOLEAN
  BY DEF Sub

LEMMA ReceivedIs ==
    ASSUME NEW r \in Sub, NEW p \in Nat
    PROVE  Received(r, p) \in Sub /\ Fed(r, Received(r, p), p)
<1> DEFINE longer == Append(r.queue, p)
           new == [state |-> r.state, queue |-> longer, putters |-> r.putters,
                   woken |-> r.woken, got |-> r.got, from |-> r.from, crowded |-> r.crowded]
<1>1. longer \in Seq(Nat)
  BY SubFields
<1>2. Received(r, p) = [r EXCEPT !.queue = longer]
  BY DEF Received
<1> HIDE DEF longer
<1>3. [r EXCEPT !.queue = longer] = new
  BY SubFields
<1>4. new \in Sub
  BY <1>1, SubFields DEF Sub
<1>5. new.state = r.state /\ new.got = r.got /\ new.from = r.from /\ new.queue = longer
      /\ new.crowded = r.crowded
  OBVIOUS
<1> HIDE DEF new
<1>6. Fed(r, new, p)
  BY <1>5 DEF Fed, longer
<1> QED
  BY <1>2, <1>3, <1>4, <1>6

LEMMA CrowdedIs ==
    ASSUME NEW r \in Sub, NEW m \in Calls
    PROVE  Crowded(r, m) \in Sub /\ Alike(r, Crowded(r, m)) /\ Crowded(r, m).crowded
<1> DEFINE line == Append(r.putters, m)
           new == [r EXCEPT !.putters = line, !.crowded = TRUE]
<1>1. line \in Seq(Calls)
  BY SubFields
<1>2. Crowded(r, m) = new
  BY DEF Crowded
<1> HIDE DEF line
<1>3. new \in Sub
  BY <1>1 DEF Sub
<1>4. /\ new.state = r.state /\ new.got = r.got /\ new.from = r.from /\ new.queue = r.queue
      /\ new.crowded
  BY DEF Sub
<1> HIDE DEF new
<1> QED
  BY <1>2, <1>3, <1>4 DEF Alike

LEMMA AwakeIs ==
    ASSUME NEW r \in Sub, r.woken # <<>>
    PROVE  [r EXCEPT !.woken = Tail(@)] \in Sub /\ Alike(r, [r EXCEPT !.woken = Tail(@)])
<1> DEFINE line == Tail(r.woken)
           new == [r EXCEPT !.woken = line]
<1>1. line \in Seq(Calls)
  BY SubFields
<1>2. [r EXCEPT !.woken = Tail(@)] = new
  OBVIOUS
<1> HIDE DEF line
<1>3. new \in Sub
  BY <1>1 DEF Sub
<1>4. /\ new.state = r.state /\ new.got = r.got /\ new.from = r.from /\ new.queue = r.queue
      /\ new.crowded = r.crowded
  BY DEF Sub
<1> HIDE DEF new
<1> QED
  BY <1>2, <1>3, <1>4 DEF Alike

LEMMA AlikeThen ==
    ASSUME NEW r, NEW q, NEW z, NEW p
    PROVE  /\ Alike(r, r)
           /\ Alike(r, q) /\ Alike(q, z) => Alike(r, z)
           /\ Alike(r, q) /\ Fed(q, z, p) => Fed(r, z, p)
           /\ Fed(r, q, p) /\ Alike(q, z) => Fed(r, z, p)
  BY DEF Alike, Fed

\* The call m, of position p, waits for the queues in left, or is done.
Moves(m, p, left) ==
    call' = [call EXCEPT ![m] = [at |-> IF left = <<>> THEN "done" ELSE "waiting",
                                 position |-> p, rest |-> left]]

Numbered(m, p) == call[m].at = "waiting" => call[m].position = p

\* The loop of publish: it serves the queues in front of the first full one.
Serves(m, p, rest, before, left) ==
    /\ left \in Seq(Subscribers) /\ Distinct(left) /\ Items(left) \subseteq Items(rest)
    /\ call' = [call EXCEPT ![m] = [at |-> IF left = <<>> THEN "done" ELSE "waiting",
                                    position |-> p, rest |-> left]]
    /\ sub' \in [Subscribers -> Sub]
    /\ \A s \in Subscribers : IF s \in Items(rest) \ Items(left) THEN Fed(before[s], sub'[s], p)
                              ELSE Alike(before[s], sub'[s])
    /\ left # <<>> => Head(left) \in Items(left) /\ sub'[Head(left)].crowded

LEMMA FanOutServes ==
    ASSUME NEW m \in Calls, NEW p \in Nat, NEW rest \in Seq(Subscribers), Distinct(rest),
           NEW before \in [Subscribers -> Sub], FanOut(m, p, rest, before)
    PROVE  \E left : Serves(m, p, rest, before, left)
<1> DEFINE roomy == {s \in Subscribers : ~Full(s)}
           k == Leading(rest, roomy)
           served == {rest[i] : i \in 1..k}
           left == Behind(rest, roomy)
           After(s) == IF s \in served THEN Received(before[s], p) ELSE before[s]
           after == [s \in Subscribers |-> After(s)]
<1>1. IF left = <<>>
      THEN /\ call' = [call EXCEPT ![m] = [at |-> "done", position |-> p, rest |-> left]]
           /\ sub' = after
      ELSE /\ call' = [call EXCEPT ![m] = [at |-> "waiting", position |-> p, rest |-> left]]
           /\ sub' = [after EXCEPT ![Head(left)] = Crowded(after[Head(left)], m)]
  BY DEF FanOut
<1>2. k \in 0..Len(rest)
  <2> HIDE DEF roomy
  <2> QED
    BY LeadingItems
<1>3. left = SubSeq(rest, k + 1, Len(rest))
  BY DEF Behind
<1> HIDE DEF roomy, k, left
<1>4. /\ left \in Seq(Subscribers) /\ Len(left) = Len(rest) - k
      /\ \A i \in 1..Len(left) : left[i] = rest[k + i] /\ k + i \in 1..Len(rest)
  BY <1>2, <1>3, Suffix
<1>5. Len(rest) \in Nat /\ Len(left) \in Nat
  BY <1>4
<1>6. Distinct(left)
  <2> SUFFICES ASSUME NEW i \in 1..Len(left), NEW j \in 1..Len(left), left[i] = left[j]
               PROVE  i = j
    BY DEF Distinct
  <2>1. k + i = k + j
    BY <1>4 DEF Distinct
  <2> QED
    BY <1>2, <1>5, <2>1
<1>7. \A s : s \in Items(rest) <=> s \in served \/ s \in Items(left)
  <2> TAKE s
  <2>1. ASSUME s \in Items(rest) PROVE s \in served \/ s \in Items(left)
    <3>1. PICK i \in 1..Len(rest) : s = rest[i]
      BY <2>1 DEF Items
    <3>2. CASE i <= k
      BY <1>2, <1>5, <3>1, <3>2
    <3>3. CASE i > k
      <4>1. i - k \in 1..Len(left) /\ k + (i - k) = i
        BY <1>2, <1>4, <1>5, <3>3
      <4>2. left[i - k] = s
        BY <1>4, <3>1, <4>1
      <4> QED
        BY <4>1, <4>2 DEF Items
    <3> QED
      BY <1>2, <1>5, <3>2, <3>3
  <2>2. ASSUME s \in served PROVE s \in Items(rest)
    <3>1. PICK i \in 1..k : s = rest[i]
      BY <2>2
    <3>2. i \in 1..Len(rest)
      BY <1>2, <1>5
    <3> QED
      BY <3>1, <3>2 DEF Items
  <2>3. ASSUME s \in Items(left) PROVE s \in Items(rest)
    BY <1>4, <2>3 DEF Items
  <2> QED
    BY <2>1, <2>2, <2>3
<1>8. ASSUME NEW s \in served PROVE s \notin Items(left)
  <2> SUFFICES ASSUME s \in Items(left) PROVE FALSE
    OBVIOUS
  <2>1. PICK i \in 1..k : s = rest[i]
    OBVIOUS
  <2>2. PICK j \in 1..Len(left) : s = left[j]
    BY DEF Items
  <2>3. i \in 1..Len(rest) /\ k + j \in 1..Len(rest) /\ rest[i] = rest[k + j] /\ i # k + j
    BY <1>2, <1>4, <1>5, <2>1, <2>2
  <2> QED
    BY <2>3 DEF Distinct
<1> HIDE DEF served
<1>9. \A s \in Subscribers : After(s) \in Sub /\
          IF s \in Items(rest) \ Items(left) THEN Fed(before[s], After(s), p)
          ELSE Alike(before[s], After(s))
  <2> TAKE s \in Subscribers
  <2>1. before[s] \in Sub
    OBVIOUS
  <2>2. CASE s \in served
    <3>1. Received(before[s], p) \in Sub /\ Fed(before[s], Received(before[s], p), p)
      BY <2>1, ReceivedIs
    <3> QED
      BY <1>7, <1>8, <2>2, <3>1
  <2>3. CASE s \notin served
    BY <1>7, <2>1, <2>3, AlikeThen
  <2> QED
    BY <2>2, <2>3
<1> HIDE DEF After
<1>10. CASE left = <<>>
  <2>1. Serves(m, p, rest, before, left)
    <3>1. sub' = after
      BY <1>1, <1>10
    <3>2. call' = [call EXCEPT ![m] = [at |-> IF left = <<>> THEN "done" ELSE "waiting",
                                       position |-> p, rest |-> left]]
      BY <1>1, <1>10
    <3>3. Items(left) \subseteq Items(rest)
      BY <1>7
    <3>4. sub' \in [Subscribers -> Sub] /\ \A s \in Subscribers : sub'[s] = After(s)
      BY <1>9, <3>1
    <3>5. \A s \in Subscribers :
              IF s \in Items(rest) \ Items(left) THEN Fed(before[s], sub'[s], p)
              ELSE Alike(before[s], sub'[s])
      BY <1>9, <3>4
    <3> QED
      BY <1>4, <1>6, <1>10, <3>2, <3>3, <3>4, <3>5 DEF Serves
  <2> QED
    BY <2>1
<1>11. CASE left # <<>>
  <2> DEFINE h == Head(left)
             new == Crowded(after[h], m)
  <2>1. h \in Items(left) /\ h \in Subscribers
    <3>1. h = left[1] /\ 1 \in 1..Len(left)
      BY <1>4, <1>11
    <3> QED
      BY <1>4, <3>1 DEF Items
  <2>2. sub' = [after EXCEPT ![h] = new]
    BY <1>1, <1>11
  <2>3. call' = [call EXCEPT ![m] = [at |-> IF left = <<>> THEN "done" ELSE "waiting",
                                     position |-> p, rest |-> left]]
    BY <1>1, <1>11
  <2>4. after \in [Subscribers -> Sub] /\ \A s \in Subscribers : after[s] = After(s)
    BY <1>9
  <2> HIDE DEF after, h
  <2>5. new \in Sub /\ Alike(after[h], new) /\ new.crowded
    BY <2>1, <2>4, CrowdedIs
  <2> HIDE DEF new
  <2>6. sub' \in [Subscribers -> Sub] /\ sub'[h] = new
        /\ \A s \in Subscribers : s # h => sub'[s] = after[s]
    BY <2>1, <2>2, <2>4, <2>5
  <2>7. ASSUME NEW s \in Subscribers
        PROVE  IF s \in Items(rest) \ Items(left) THEN Fed(before[s], sub'[s], p)
               ELSE Alike(before[s], sub'[s])
    <3>1. CASE s = h
      <4>1. Alike(before[s], after[s])
        BY <1>9, <2>1, <2>4, <3>1
      <4>2. Alike(before[s], sub'[s])
        BY <2>5, <2>6, <3>1, <4>1, AlikeThen
      <4> QED
        BY <2>1, <3>1, <4>2
    <3>2. CASE s # h
      BY <1>9, <2>4, <2>6, <3>2
    <3> QED
      BY <3>1, <3>2
  <2>8. Items(left) \subseteq Items(rest)
    BY <1>7
  <2>9. Serves(m, p, rest, before, left)
    BY <1>4, <1>6, <2>1, <2>3, <2>5, <2>6, <2>7, <2>8 DEF Serves, h
  <2> QED
    BY <2>9
<1> QED
  BY <1>10, <1>11

\* Who holds the messages of a subscriber when one call has gone on.
LEMMA HeldAfter ==
    ASSUME HubTyped, NEW m \in Calls, NEW p \in Nat, NEW left \in Seq(Subscribers), NEW s,
           Moves(m, p, left)
    PROVE  /\ call' \in [Calls -> Call]
           /\ call'[m] = [at |-> IF left = <<>> THEN "done" ELSE "waiting",
                          position |-> p, rest |-> left]
           /\ \A x \in Calls : x # m => call'[x] = call[x]
           /\ s \in Items(left) => Held(s, call') = Held(s, call) \union {m}
           /\ s \notin Items(left) => Held(s, call') = Held(s, call) \ {m}
<1> DEFINE new == [at |-> IF left = <<>> THEN "done" ELSE "waiting",
                   position |-> p, rest |-> left]
<1>1. new \in Call
  BY DEF Call
<1>2. new.rest = left /\ (new.at = "waiting" <=> left # <<>>)
  OBVIOUS
<1> HIDE DEF new
<1>3. call' = [call EXCEPT ![m] = new]
  BY DEF new, Moves
<1>4. call' \in [Calls -> Call] /\ call'[m] = new /\ \A x \in Calls : x # m => call'[x] = call[x]
  BY <1>1, <1>3 DEF HubTyped
<1>5. s \in Items(left) => left # <<>>
  BY NoItems
<1>6. \A x \in Calls : x # m => (x \in Held(s, call') <=> x \in Held(s, call))
  BY <1>4 DEF Held
<1>7. m \in Held(s, call') <=> s \in Items(left)
  BY <1>2, <1>4, <1>5 DEF Held
<1>8. Held(s, call') \subseteq Calls /\ Held(s, call) \subseteq Calls
  BY DEF Held
<1>9. s \in Items(left) => Held(s, call') = Held(s, call) \union {m}
  BY <1>6, <1>7, <1>8
<1>10. s \notin Items(left) => Held(s, call') = Held(s, call) \ {m}
  BY <1>6, <1>7, <1>8
<1> QED
  BY <1>4, <1>9, <1>10 DEF new

LEMMA HereIs ==
    ASSUME NEW r \in Sub, NEW q \in Sub
    PROVE  /\ Here(r) \in Seq(Nat) /\ Len(Here(r)) \in Nat
           /\ Alike(r, q) => Here(q) = Here(r)
           /\ \A p \in Nat : Fed(r, q, p) => Here(q) = Append(Here(r), p)
<1> DEFINE a == r.got
           b == r.queue
<1>1. a \in Seq(Nat) /\ b \in Seq(Nat)
  BY SubFields
<1>2. Here(r) = a \o b
  BY DEF Here
<1>3. Alike(r, q) => Here(q) = Here(r)
  BY DEF Alike, Here
<1>4. \A p \in Nat : Fed(r, q, p) => Here(q) = a \o Append(b, p)
  BY DEF Fed, Here
<1> HIDE DEF a, b
<1>5. a \o b \in Seq(Nat) /\ Len(a \o b) \in Nat
  BY <1>1
<1>6. \A p \in Nat : a \o Append(b, p) = Append(a \o b, p)
  BY <1>1
<1> QED
  BY <1>2, <1>3, <1>4, <1>5, <1>6

LEMMA HereFed ==
    ASSUME NEW r \in Sub, NEW q \in Sub, NEW p \in Nat, Fed(r, q, p)
    PROVE  /\ Items(Here(q)) = Items(Here(r)) \union {p}
           /\ Len(Here(q)) = Len(Here(r)) + 1
           /\ \A i \in 1..Len(Here(r)) : Here(q)[i] = Here(r)[i]
           /\ Here(q)[Len(Here(r)) + 1] = p
           /\ q.from = r.from
<1> DEFINE h == Here(r)
<1>1. h \in Seq(Nat) /\ Here(q) = Append(h, p)
  BY HereIs
<1> HIDE DEF h
<1>2. Items(Append(h, p)) = Items(h) \union {p}
  BY <1>1, AppendItems
<1>3. /\ Len(Append(h, p)) = Len(h) + 1
      /\ \A i \in 1..Len(h) : Append(h, p)[i] = h[i]
      /\ Append(h, p)[Len(h) + 1] = p
  BY <1>1
<1> QED
  BY <1>1, <1>2, <1>3 DEF h, Fed

LEMMA RangeGrows ==
    ASSUME NEW a \in Nat, NEW b \in Nat, a <= b
    PROVE  ((a + 1)..b) \union {b + 1} = (a + 1)..(b + 1)
  OBVIOUS

\* What becomes of a stream when its subscriber is served, passed over, or served late.
LEMMA StreamServed ==
    ASSUME NEW r \in Sub, NEW q \in Sub, NEW n \in Nat, NEW U, NEW P,
           StreamSound(r, U, P, n), Fed(r, q, n + 1)
    PROVE  StreamSound(q, U, P, n + 1)
<1> DEFINE f == r.from
<1>1. Cardinality(U) \in Nat
  BY FS_CardinalityType DEF StreamSound
<1>2. f \in Nat /\ Len(Here(r)) \in Nat
  BY SubFields, HereIs
<1>3. Items(Here(r)) \union P = (f + 1)..n /\ Len(Here(r)) + Cardinality(U) = n - f
  BY DEF StreamSound
<1>4. Items(Here(q)) = Items(Here(r)) \union {n + 1} /\ Len(Here(q)) = Len(Here(r)) + 1
      /\ q.from = f
  <2>1. n + 1 \in Nat
    OBVIOUS
  <2> QED
    BY <2>1, HereFed
<1> HIDE DEF f
<1>5. ((f + 1)..n) \union {n + 1} = (f + 1)..(n + 1)
  <2>1. f <= n
    BY <1>1, <1>2, <1>3
  <2> QED
    BY <1>2, <2>1, RangeGrows
<1>6. Items(Here(q)) \union P = (q.from + 1)..(n + 1)
  BY <1>3, <1>4, <1>5
<1>7. Len(Here(q)) + Cardinality(U) = (n + 1) - q.from
  BY <1>1, <1>2, <1>3, <1>4
<1> QED
  BY <1>6, <1>7 DEF StreamSound

LEMMA StreamHeld ==
    ASSUME NEW r \in Sub, NEW q \in Sub, NEW n \in Nat, NEW U, NEW P, NEW m,
           StreamSound(r, U, P, n), Alike(r, q), m \notin U
    PROVE  StreamSound(q, U \union {m}, P \union {n + 1}, n + 1)
<1> DEFINE f == r.from
<1>1. Cardinality(U) \in Nat
  BY FS_CardinalityType DEF StreamSound
<1>2. f \in Nat /\ Len(Here(r)) \in Nat
  BY SubFields, HereIs
<1>3. Items(Here(r)) \union P = (f + 1)..n /\ Len(Here(r)) + Cardinality(U) = n - f
  BY DEF StreamSound
<1>4. Here(q) = Here(r) /\ q.from = f
  BY HereIs DEF Alike
<1> HIDE DEF f
<1>5. ((f + 1)..n) \union {n + 1} = (f + 1)..(n + 1)
  <2>1. f <= n
    BY <1>1, <1>2, <1>3
  <2> QED
    BY <1>2, <2>1, RangeGrows
<1>6. IsFiniteSet(U \union {m}) /\ Cardinality(U \union {m}) = Cardinality(U) + 1
  <2>1. IsFiniteSet(U)
    BY DEF StreamSound
  <2> QED
    BY <2>1, FS_AddElement
<1>7. Items(Here(q)) \union (P \union {n + 1}) = (q.from + 1)..(n + 1)
  BY <1>3, <1>4, <1>5
<1>8. Len(Here(q)) + Cardinality(U \union {m}) = (n + 1) - q.from
  BY <1>1, <1>2, <1>3, <1>4, <1>6
<1> QED
  BY <1>6, <1>7, <1>8 DEF StreamSound

LEMMA StreamLate ==
    ASSUME NEW r \in Sub, NEW q \in Sub, NEW n \in Nat, NEW U, NEW P, NEW m \in U,
           NEW p \in Nat, NEW T, P = T \union {p},
           StreamSound(r, U, P, n), Fed(r, q, p)
    PROVE  StreamSound(q, U \ {m}, T, n)
<1> DEFINE f == r.from
<1>1. Cardinality(U) \in Nat
  BY FS_CardinalityType DEF StreamSound
<1>2. f \in Nat /\ Len(Here(r)) \in Nat
  BY SubFields, HereIs
<1>3. Items(Here(r)) \union P = (f + 1)..n /\ Len(Here(r)) + Cardinality(U) = n - f
  BY DEF StreamSound
<1>4. Items(Here(q)) = Items(Here(r)) \union {p} /\ Len(Here(q)) = Len(Here(r)) + 1
      /\ q.from = f
  BY HereFed
<1> HIDE DEF f
<1>6. IsFiniteSet(U \ {m}) /\ Cardinality(U \ {m}) = Cardinality(U) - 1
  <2>1. IsFiniteSet(U)
    BY DEF StreamSound
  <2> QED
    BY <2>1, FS_RemoveElement
<1>7. Items(Here(q)) \union T = (q.from + 1)..n
  BY <1>3, <1>4
<1>8. Len(Here(q)) + Cardinality(U \ {m}) = n - q.from
  BY <1>1, <1>2, <1>3, <1>4, <1>6
<1> QED
  BY <1>6, <1>7, <1>8 DEF StreamSound

LEMMA StreamAlike ==
    ASSUME NEW r \in Sub, NEW q \in Sub, NEW n, NEW U, NEW P,
           StreamSound(r, U, P, n), Alike(r, q)
    PROVE  StreamSound(q, U, P, n)
<1>1. Here(q) = Here(r) /\ q.from = r.from
  BY HereIs DEF Alike
<1> QED
  BY <1>1 DEF StreamSound

\* The positions in the hands of waiting calls when one of them, of position p, has
\* gone on.
LEMMA PositionsAfter ==
    ASSUME HubTyped, NEW m \in Calls, NEW p \in Nat, NEW left \in Seq(Subscribers), NEW s,
           Moves(m, p, left), Numbered(m, p)
    PROVE  /\ s \in Items(left) /\ m \notin Held(s, call) =>
                 Positions(s, call') = Positions(s, call) \union {p}
           /\ s \in Items(left) /\ m \in Held(s, call) =>
                 Positions(s, call') = Positions(s, call)
           /\ s \notin Items(left) /\ m \notin Held(s, call) =>
                 Positions(s, call') = Positions(s, call)
           /\ s \notin Items(left) /\ m \in Held(s, call) =>
                 Positions(s, call) = Positions(s, call') \union {p}
<1> DEFINE H == Held(s, call)
           K == Held(s, call')
<1>1. /\ call'[m] = [at |-> IF left = <<>> THEN "done" ELSE "waiting",
                     position |-> p, rest |-> left]
      /\ \A x \in Calls : x # m => call'[x] = call[x]
      /\ s \in Items(left) => K = H \union {m}
      /\ s \notin Items(left) => K = H \ {m}
  BY HeldAfter
<1>2. call'[m].position = p
  BY <1>1
<1>3. m \in H => call[m].position = p
  BY DEF Held, Numbered
<1>4. H \subseteq Calls
  BY DEF Held
<1>5. Positions(s, call) = {call[x].position : x \in H}
      /\ Positions(s, call') = {call'[x].position : x \in K}
  BY DEF Positions
<1> HIDE DEF H, K
<1>6. \A x \in H : x # m => call'[x].position = call[x].position
  BY <1>1, <1>4
<1>7. s \in Items(left) /\ m \notin H =>
          {call'[x].position : x \in K} = {call[x].position : x \in H} \union {p}
  BY <1>1, <1>2, <1>6
<1>8. s \in Items(left) /\ m \in H =>
          {call'[x].position : x \in K} = {call[x].position : x \in H}
  BY <1>1, <1>2, <1>3, <1>6
<1>9. s \notin Items(left) /\ m \notin H =>
          {call'[x].position : x \in K} = {call[x].position : x \in H}
  BY <1>1, <1>6
<1>10. s \notin Items(left) /\ m \in H =>
          {call[x].position : x \in H} = {call'[x].position : x \in K} \union {p}
  BY <1>1, <1>3, <1>6
<1> QED
  BY <1>5, <1>7, <1>8, <1>9, <1>10 DEF H

\* Waiting calls stay sound: nobody becomes new or less crowded.
LEMMA CallsStay ==
    ASSUME NEW c \in Call, NEW before \in [Subscribers -> Sub], NEW after, CallSound(c, before),
           \A s \in Subscribers : before[s].state # "new" => after[s].state # "new",
           \A s \in Subscribers : before[s].crowded => after[s].crowded
    PROVE  CallSound(c, after)
<1> SUFFICES ASSUME c.at = "waiting"
             PROVE  /\ Distinct(c.rest) /\ c.rest # <<>>
                    /\ after[Head(c.rest)].crowded
                    /\ \A s \in Items(c.rest) : after[s].state # "new"
  BY DEF CallSound
<1>1. /\ Distinct(c.rest) /\ c.rest # <<>> /\ before[Head(c.rest)].crowded
      /\ \A s \in Items(c.rest) : before[s].state # "new"
  BY DEF CallSound
<1>2. c.rest \in Seq(Subscribers)
  BY DEF Call
<1>3. Head(c.rest) \in Subscribers /\ Items(c.rest) \subseteq Subscribers
  BY <1>1, <1>2, TailItems, ItemsTyped
<1> QED
  BY <1>1, <1>3

\* The deque of the last positions.
LEMMA KeptSound ==
    ASSUME NEW n \in Nat, ReplaySound(replay, n)
    PROVE  ReplaySound(Kept(n + 1), n + 1)
<1> DEFINE all == Append(replay, n + 1)
           len == Len(replay)
           from == Larger(1, (len + 1) - ReplayCapacity + 1)
           kept == SubSeq(all, from, len + 1)
<1>1. /\ replay \in Seq(Nat) /\ len \in Nat /\ len = Smaller(n, ReplayCapacity)
      /\ \A i \in 1..len : replay[i] = n - len + i
  BY DEF ReplaySound
<1>2. /\ all \in Seq(Nat) /\ Len(all) = len + 1
      /\ \A i \in 1..(len + 1) : all[i] = n - len + i
  <2>1. n + 1 \in Nat
    OBVIOUS
  <2>2. /\ all \in Seq(Nat) /\ Len(all) = len + 1
        /\ \A i \in 1..len : all[i] = replay[i]
        /\ all[len + 1] = n + 1
    BY <1>1, <2>1
  <2> HIDE DEF all, len
  <2>3. ASSUME NEW i \in 1..(len + 1) PROVE all[i] = n - len + i
    <3>1. CASE i = len + 1
      BY <1>1, <2>2, <3>1
    <3>2. CASE i # len + 1
      <4>1. i \in 1..len
        BY <1>1, <3>2
      <4> QED
        BY <1>1, <2>2, <4>1
    <3> QED
      BY <3>1, <3>2
  <2> QED
    BY <2>2, <2>3
<1>3. Kept(n + 1) = kept
  BY <1>2 DEF Kept, LastOf
<1> HIDE DEF all, len
<1>4. from \in 1..(len + 2) /\ (len + 1) - from + 1 = Smaller(n + 1, ReplayCapacity)
  BY <1>1, HubAssumption DEF Smaller, Larger
<1> HIDE DEF from
<1> DEFINE k == from - 1
<1>5. k \in 0..Len(all) /\ from = k + 1
  BY <1>1, <1>2, <1>4, HubAssumption DEF Smaller
<1> HIDE DEF k
<1>6. kept = SubSeq(all, k + 1, Len(all))
  BY <1>2, <1>5
<1> HIDE DEF kept
<1>7. /\ kept \in Seq(Nat) /\ Len(kept) = Len(all) - k
      /\ \A i \in 1..Len(kept) : kept[i] = all[k + i] /\ k + i \in 1..Len(all)
  <2>1. all \in Seq(Nat)
    BY <1>2
  <2>2. k \in 0..Len(all)
    BY <1>5
  <2> QED
    BY <1>6, <2>1, <2>2, Suffix
<1>8. Len(kept) = Smaller(n + 1, ReplayCapacity)
  BY <1>1, <1>2, <1>4, <1>5, <1>7
<1>9. ASSUME NEW i \in 1..Len(kept) PROVE kept[i] = (n + 1) - Len(kept) + i
  <2>1. kept[i] = n - len + (k + i)
    BY <1>2, <1>7
  <2>2. Len(kept) = (len + 1) - k
    BY <1>2, <1>7
  <2>3. i \in Nat /\ k \in Nat /\ len \in Nat
    BY <1>1, <1>2, <1>5
  <2>4. n - len + (k + i) = (n + 1) - ((len + 1) - k) + i
    BY <2>3
  <2> QED
    BY <2>1, <2>2, <2>4
<1> QED
  BY <1>3, <1>7, <1>8, <1>9 DEF ReplaySound

\* The effect of a step on who is live.
LEMMA LiveAfter ==
    ASSUME \A s \in Subscribers : sub'[s].state = sub[s].state
    PROVE  Live' = Live
  BY DEF Live

\* publish: the queues it serves get the new position, the others will from the call.
LEMMA PublishStays ==
    ASSUME HubInv, NEW m \in Calls, Publish(m)
    PROVE  HubInv'
<1> DEFINE p == position + 1
<1>1. /\ call[m].at = "new" /\ position' = p /\ replay' = Kept(p)
      /\ FanOut(m, p, order, sub) /\ order' = order
  BY DEF Publish
<1>2. /\ position \in Nat /\ call \in [Calls -> Call] /\ sub \in [Subscribers -> Sub]
      /\ HubTyped /\ ReplaySound(replay, position)
      /\ order \in Seq(Subscribers) /\ Distinct(order) /\ Items(order) = Live
      /\ IsFiniteSet(Live)
  BY DEF HubInv, HubTyped
<1>3. p \in Nat
  BY <1>2
<1>4. ReplaySound(replay, position)'
  <2>1. ReplaySound(Kept(position + 1), position + 1)
    BY <1>2, KeptSound
  <2> QED
    BY <1>1, <2>1
<1>5. PICK left : Serves(m, p, order, sub, left)
  <2> HIDE DEF p
  <2> QED
    BY <1>1, <1>2, <1>3, FanOutServes
<1>6. /\ left \in Seq(Subscribers) /\ Distinct(left) /\ Items(left) \subseteq Live
      /\ Moves(m, p, left)
      /\ sub' \in [Subscribers -> Sub]
      /\ \A s \in Subscribers : IF s \in Items(order) \ Items(left) THEN Fed(sub[s], sub'[s], p)
                                ELSE Alike(sub[s], sub'[s])
      /\ left # <<>> => Head(left) \in Items(left) /\ sub'[Head(left)].crowded
  BY <1>2, <1>5 DEF Serves, Moves
<1>7. \A s \in Subscribers : /\ sub'[s].state = sub[s].state /\ sub'[s].got = sub[s].got
                             /\ sub[s].crowded => sub'[s].crowded
  BY <1>6 DEF Alike, Fed
<1>8. Live' = Live
  BY <1>7, LiveAfter
<1> HIDE DEF p
<1>9. ASSUME NEW s
      PROVE  /\ call' \in [Calls -> Call]
             /\ call'[m] = [at |-> IF left = <<>> THEN "done" ELSE "waiting",
                            position |-> p, rest |-> left]
             /\ \A x \in Calls : x # m => call'[x] = call[x]
             /\ s \in Items(left) => Held(s, call') = Held(s, call) \union {m}
             /\ s \notin Items(left) => Held(s, call') = Held(s, call) \ {m}
  BY <1>2, <1>3, <1>6, HeldAfter
<1>10. \A s : m \notin Held(s, call)
  BY <1>1 DEF Held
<1>19. ASSUME NEW s
       PROVE  /\ s \in Items(left) /\ m \notin Held(s, call) =>
                    Positions(s, call') = Positions(s, call) \union {p}
              /\ s \notin Items(left) /\ m \notin Held(s, call) =>
                    Positions(s, call') = Positions(s, call)
  <2>1. Moves(m, p, left)
    BY <1>6
  <2>2. Numbered(m, p)
    BY <1>1 DEF Numbered
  <2>3. left \in Seq(Subscribers)
    BY <1>6
  <2>4. HubTyped
    BY <1>2
  <2> QED
    BY <1>3, <2>1, <2>2, <2>3, <2>4, PositionsAfter
<1>11. ASSUME NEW x \in Calls PROVE CallSound(call'[x], sub')
  <2>1. CASE x = m
    <3>1. \A s \in Items(left) : sub'[s].state # "new"
      <4>1. \A s \in Live : s \in Subscribers /\ sub[s].state = "live"
        BY DEF Live
      <4> QED
        BY <1>6, <1>7, <4>1
    <3>2. call'[x].rest = left /\ (call'[x].at = "waiting" => left # <<>>)
      BY <1>9, <2>1
    <3> QED
      BY <1>6, <3>1, <3>2 DEF CallSound
  <2>2. CASE x # m
    <3>1. call'[x] = call[x] /\ call[x] \in Call /\ CallSound(call[x], sub)
      BY <1>2, <1>9, <2>2 DEF HubInv
    <3>2. CallSound(call[x], sub')
      <4> DEFINE c == call[x]
      <4>1. c \in Call /\ CallSound(c, sub)
        BY <3>1
      <4> HIDE DEF c
      <4>2. \A s \in Subscribers : sub[s].state # "new" => sub'[s].state # "new"
        BY <1>7
      <4>3. \A s \in Subscribers : sub[s].crowded => sub'[s].crowded
        BY <1>7
      <4>4. CallSound(c, sub')
        BY <1>2, <4>1, <4>2, <4>3, CallsStay
      <4> QED
        BY <4>4 DEF c
    <3> QED
      BY <3>1, <3>2
  <2> QED
    BY <2>1, <2>2
<1>12. ASSUME NEW s \in Live
       PROVE  StreamSound(sub'[s], Held(s, call'), Positions(s, call'), p)
  <2> DEFINE r == sub[s]
             q == sub'[s]
             U == Held(s, call)
             P == Positions(s, call)
  <2>1. r \in Sub /\ q \in Sub /\ s \in Subscribers /\ StreamSound(r, U, P, position)
    BY <1>2, <1>6 DEF Live, HubInv
  <2>2. m \notin U
    BY <1>10
  <2>3. CASE s \in Items(left)
    <3>1. Held(s, call') = U \union {m}
      BY <1>9, <2>3
    <3>2. Positions(s, call') = P \union {p}
      BY <1>19, <2>2, <2>3
    <3>3. Alike(r, q)
      BY <1>6, <2>1, <2>3
    <3> HIDE DEF r, q, U, P
    <3>4. StreamSound(q, U \union {m}, P \union {position + 1}, position + 1)
      BY <1>2, <2>1, <2>2, <3>3, StreamHeld
    <3> QED
      BY <3>1, <3>2, <3>4 DEF p, q
  <2>4. CASE s \notin Items(left)
    <3>1. Held(s, call') = U
      BY <1>9, <2>2, <2>4
    <3>2. Positions(s, call') = P
      BY <1>19, <2>2, <2>4
    <3>3. Fed(r, q, position + 1)
      BY <1>2, <1>6, <2>1, <2>4 DEF p
    <3> HIDE DEF r, q, U, P
    <3>4. StreamSound(q, U, P, position + 1)
      BY <1>2, <2>1, <3>3, StreamServed
    <3> QED
      BY <3>1, <3>2, <3>4 DEF p, q
  <2> QED
    BY <2>3, <2>4
<1>13. ASSUME \A q \in Subscribers : ~sub'[q].crowded, NEW s \in Live PROVE InOrder(sub'[s])
  <2>1. \A q \in Subscribers : ~sub[q].crowded
    BY <1>7, <1>13
  <2>2. left = <<>>
    <3>1. Items(left) \subseteq Subscribers
      BY <1>6 DEF Live
    <3> QED
      BY <1>6, <1>13, <3>1
  <2> DEFINE r == sub[s]
             q == sub'[s]
  <2>3. /\ r \in Sub /\ q \in Sub /\ s \in Subscribers
        /\ StreamSound(r, Held(s, call), Positions(s, call), position)
        /\ InOrder(r)
    BY <1>2, <1>6, <2>1 DEF Live, HubInv
  <2>4. Held(s, call) = {}
    <3> SUFFICES ASSUME NEW x \in Held(s, call) PROVE FALSE
      OBVIOUS
    <3>1. x \in Calls /\ call[x].at = "waiting" /\ CallSound(call[x], sub) /\ call[x] \in Call
      BY <1>2 DEF Held, HubInv
    <3>2. call[x].rest \in Seq(Subscribers) /\ call[x].rest # <<>>
          /\ sub[Head(call[x].rest)].crowded
      BY <3>1 DEF CallSound, Call
    <3>3. Head(call[x].rest) \in Subscribers
      BY <3>2
    <3> QED
      BY <2>1, <3>2, <3>3
  <2>5. Fed(r, q, p)
    BY <1>2, <1>6, <2>2, <2>3, NoItems
  <2> HIDE DEF r, q
  <2>6. Len(Here(r)) = position - r.from /\ r.from \in Nat
    <3>1. Cardinality(Held(s, call)) = 0
      BY <2>4, FS_EmptySet
    <3>2. Len(Here(r)) + 0 = position - r.from
      BY <2>3, <3>1 DEF StreamSound
    <3>3. Len(Here(r)) \in Nat /\ r.from \in Nat
      BY <2>3, HereIs, SubFields
    <3> QED
      BY <3>2, <3>3
  <2>7. /\ Len(Here(q)) = Len(Here(r)) + 1
        /\ \A i \in 1..Len(Here(r)) : Here(q)[i] = Here(r)[i]
        /\ Here(q)[Len(Here(r)) + 1] = p
        /\ q.from = r.from
    BY <1>3, <2>3, <2>5, HereFed
  <2>8. Len(Here(r)) \in Nat
    BY <2>3, HereIs
  <2>9. \A i \in 1..Len(Here(q)) : Here(q)[i] = q.from + i
    <3> TAKE i \in 1..Len(Here(q))
    <3>1. CASE i = Len(Here(r)) + 1
      BY <1>2, <2>6, <2>7, <2>8, <3>1 DEF p
    <3>2. CASE i # Len(Here(r)) + 1
      <4>1. i \in 1..Len(Here(r))
        BY <2>7, <2>8, <3>2
      <4> QED
        BY <2>3, <2>7, <4>1 DEF InOrder
    <3> QED
      BY <3>1, <3>2
  <2> QED
    BY <2>9 DEF InOrder, q
<1>14. \A s \in Subscribers : sub'[s].state = "new" => sub'[s].got = <<>>
  BY <1>7 DEF HubInv
<1>15. HubTyped'
  BY <1>1, <1>3, <1>6, <1>9 DEF HubTyped
<1>16. order' \in Seq(Subscribers) /\ Distinct(order)' /\ Items(order)' = Live' /\ IsFiniteSet(Live)'
  BY <1>1, <1>2, <1>8
<1>17. \A s \in Live' : StreamSound(sub'[s], Held(s, call'), Positions(s, call'), position')
  BY <1>1, <1>8, <1>12
<1>18. (\A q \in Subscribers : ~sub'[q].crowded) => \A s \in Live' : InOrder(sub'[s])
  BY <1>8, <1>13
<1> QED
  BY <1>4, <1>11, <1>14, <1>15, <1>16, <1>17, <1>18 DEF HubInv

\* A step that leaves what a subscriber has, and who serves it, as it is.
Even(r, q) ==
    /\ q.state = r.state /\ q.from = r.from /\ Here(q) = Here(r)
    /\ r.crowded => q.crowded
    /\ r.state = "new" => q.got = r.got

LEMMA QuietStays ==
    ASSUME HubInv, UNCHANGED <<position, replay, order, call>>,
           sub' \in [Subscribers -> Sub],
           \A s \in Subscribers : Even(sub[s], sub'[s])
    PROVE  HubInv'
<1>1. \A s \in Subscribers :
          /\ sub'[s].state = sub[s].state /\ sub'[s].from = sub[s].from
          /\ Here(sub'[s]) = Here(sub[s])
          /\ sub[s].crowded => sub'[s].crowded
          /\ sub[s].state = "new" => sub'[s].got = sub[s].got
  BY DEF Even
<1>2. Live' = Live
  BY <1>1, LiveAfter
<1>3. /\ position \in Nat /\ call \in [Calls -> Call] /\ sub \in [Subscribers -> Sub]
      /\ ReplaySound(replay, position)
      /\ order \in Seq(Subscribers) /\ Distinct(order) /\ Items(order) = Live
      /\ IsFiniteSet(Live)
  BY DEF HubInv, HubTyped
<1>4. ASSUME NEW x \in Calls PROVE CallSound(call'[x], sub')
  <2> DEFINE c == call[x]
  <2>1. c \in Call /\ CallSound(c, sub) /\ call'[x] = c
    BY <1>3 DEF HubInv
  <2> HIDE DEF c
  <2>2. \A s \in Subscribers : sub[s].state # "new" => sub'[s].state # "new"
    BY <1>1
  <2>3. \A s \in Subscribers : sub[s].crowded => sub'[s].crowded
    BY <1>1
  <2>4. CallSound(c, sub')
    BY <1>3, <2>1, <2>2, <2>3, CallsStay
  <2> QED
    BY <2>1, <2>4
<1>5. ASSUME NEW s \in Live
      PROVE  StreamSound(sub'[s], Held(s, call), Positions(s, call), position)
  <2>1. StreamSound(sub[s], Held(s, call), Positions(s, call), position) /\ s \in Subscribers
    BY DEF HubInv, Live
  <2> QED
    BY <1>1, <2>1 DEF StreamSound
<1>6. ASSUME \A q \in Subscribers : ~sub'[q].crowded, NEW s \in Live PROVE InOrder(sub'[s])
  <2>1. InOrder(sub[s]) /\ s \in Subscribers
    BY <1>1, <1>6 DEF HubInv, Live
  <2> QED
    BY <1>1, <2>1 DEF InOrder
<1>7. \A s \in Subscribers : sub'[s].state = "new" => sub'[s].got = <<>>
  BY <1>1 DEF HubInv
<1>8. HubTyped'
  BY <1>3 DEF HubTyped
<1>9. \A s \in Live' : StreamSound(sub'[s], Held(s, call'), Positions(s, call'), position')
  BY <1>2, <1>5
<1>10. (\A q \in Subscribers : ~sub'[q].crowded) => \A s \in Live' : InOrder(sub'[s])
  BY <1>2, <1>6
<1>11. /\ ReplaySound(replay, position)' /\ order' \in Seq(Subscribers)
       /\ Distinct(order)' /\ Items(order)' = Live' /\ IsFiniteSet(Live)'
  BY <1>2, <1>3
<1> QED
  BY <1>4, <1>7, <1>8, <1>9, <1>10, <1>11 DEF HubInv

LEMMA AlikeIsEven ==
    ASSUME NEW r \in Sub, NEW q \in Sub, Alike(r, q)
    PROVE  Even(r, q)
<1>1. Here(q) = Here(r)
  BY HereIs
<1> QED
  BY <1>1 DEF Alike, Even

\* A waiting call that goes on.
LEMMA LateServed ==
    ASSUME HubInv, NEW m \in Calls, NEW left,
           call[m].at = "waiting",
           Serves(m, call[m].position, call[m].rest, sub, left),
           UNCHANGED <<position, replay, order>>
    PROVE  HubInv'
<1> DEFINE p == call[m].position
           rest == call[m].rest
<1>1. /\ position \in Nat /\ call \in [Calls -> Call] /\ sub \in [Subscribers -> Sub]
      /\ HubTyped /\ ReplaySound(replay, position)
      /\ order \in Seq(Subscribers) /\ Distinct(order) /\ Items(order) = Live
      /\ IsFiniteSet(Live)
  BY DEF HubInv, HubTyped
<1>2. p \in Nat /\ rest \in Seq(Subscribers)
  BY <1>1 DEF Call
<1>3. /\ Distinct(rest) /\ rest # <<>> /\ sub[Head(rest)].crowded
      /\ \A s \in Items(rest) : sub[s].state # "new"
  BY DEF HubInv, CallSound
<1>4. \A s : m \in Held(s, call) <=> s \in Items(rest)
  BY DEF Held
<1>5. Numbered(m, p)
  BY DEF Numbered
<1>6. /\ left \in Seq(Subscribers) /\ Distinct(left) /\ Items(left) \subseteq Items(rest)
      /\ Moves(m, p, left)
      /\ sub' \in [Subscribers -> Sub]
      /\ \A s \in Subscribers : IF s \in Items(rest) \ Items(left) THEN Fed(sub[s], sub'[s], p)
                                ELSE Alike(sub[s], sub'[s])
      /\ left # <<>> => Head(left) \in Items(left) /\ sub'[Head(left)].crowded
  BY DEF Serves, Moves
<1> HIDE DEF p, rest
<1>7. \A s \in Subscribers : /\ sub'[s].state = sub[s].state /\ sub'[s].got = sub[s].got
                             /\ sub[s].crowded => sub'[s].crowded
  BY <1>6 DEF Alike, Fed
<1>8. Live' = Live
  BY <1>7, LiveAfter
<1>9. ASSUME NEW s
      PROVE  /\ call' \in [Calls -> Call]
             /\ call'[m] = [at |-> IF left = <<>> THEN "done" ELSE "waiting",
                            position |-> p, rest |-> left]
             /\ \A x \in Calls : x # m => call'[x] = call[x]
             /\ s \in Items(left) => Held(s, call') = Held(s, call) \union {m}
             /\ s \notin Items(left) => Held(s, call') = Held(s, call) \ {m}
  BY <1>1, <1>2, <1>6, HeldAfter
<1>10. ASSUME NEW s
       PROVE  /\ s \in Items(left) /\ m \in Held(s, call) =>
                    Positions(s, call') = Positions(s, call)
              /\ s \notin Items(left) /\ m \notin Held(s, call) =>
                    Positions(s, call') = Positions(s, call)
              /\ s \notin Items(left) /\ m \in Held(s, call) =>
                    Positions(s, call) = Positions(s, call') \union {p}
  <2>1. Moves(m, p, left)
    BY <1>6
  <2>2. left \in Seq(Subscribers)
    BY <1>6
  <2>3. HubTyped
    BY <1>1
  <2>4. p \in Nat
    BY <1>2
  <2> QED
    BY <1>5, <2>1, <2>2, <2>3, <2>4, PositionsAfter
<1>11. ASSUME NEW x \in Calls PROVE CallSound(call'[x], sub')
  <2>1. CASE x = m
    <3>1. \A s \in Items(left) : sub'[s].state # "new"
      <4>1. Items(rest) \subseteq Subscribers
        BY <1>2, ItemsTyped
      <4> QED
        BY <1>3, <1>6, <1>7, <4>1
    <3>2. call'[x].rest = left /\ (call'[x].at = "waiting" => left # <<>>)
      BY <1>9, <2>1
    <3> QED
      BY <1>6, <3>1, <3>2 DEF CallSound
  <2>2. CASE x # m
    <3> DEFINE c == call[x]
    <3>1. call'[x] = c /\ c \in Call /\ CallSound(c, sub)
      BY <1>1, <1>9, <2>2 DEF HubInv
    <3> HIDE DEF c
    <3>2. \A s \in Subscribers : sub[s].state # "new" => sub'[s].state # "new"
      BY <1>7
    <3>3. \A s \in Subscribers : sub[s].crowded => sub'[s].crowded
      BY <1>7
    <3>4. CallSound(c, sub')
      BY <1>1, <3>1, <3>2, <3>3, CallsStay
    <3> QED
      BY <3>1, <3>4
  <2> QED
    BY <2>1, <2>2
<1>12. ASSUME NEW s \in Live
       PROVE  StreamSound(sub'[s], Held(s, call'), Positions(s, call'), position)
  <2> DEFINE r == sub[s]
             q == sub'[s]
             U == Held(s, call)
             P == Positions(s, call)
             T == Positions(s, call')
  <2>1. r \in Sub /\ q \in Sub /\ s \in Subscribers /\ StreamSound(r, U, P, position)
    BY <1>1, <1>6 DEF Live, HubInv
  <2>2. CASE s \in Items(left)
    <3>1. m \in U
      BY <1>4, <1>6, <2>2
    <3>2. Held(s, call') = U
      BY <1>9, <2>2, <3>1
    <3>3. T = P
      BY <1>10, <2>2, <3>1
    <3>4. Alike(r, q)
      BY <1>6, <2>1, <2>2
    <3> HIDE DEF r, q, U, P, T
    <3>5. StreamSound(q, U, P, position)
      BY <2>1, <3>4, StreamAlike
    <3> QED
      BY <3>2, <3>3, <3>5 DEF q, T
  <2>3. CASE s \in Items(rest) \ Items(left)
    <3>1. m \in U
      BY <1>4, <2>3
    <3>2. Held(s, call') = U \ {m}
      BY <1>9, <2>3
    <3>3. P = T \union {p}
      BY <1>10, <2>3, <3>1
    <3>4. Fed(r, q, p)
      BY <1>6, <2>1, <2>3
    <3> HIDE DEF r, q, U, P, T
    <3>5. StreamSound(q, U \ {m}, T, position)
      <4>1. p \in Nat /\ position \in Nat
        BY <1>1, <1>2
      <4> QED
        BY <2>1, <3>1, <3>3, <3>4, <4>1, StreamLate
    <3> QED
      BY <3>2, <3>5 DEF q, T
  <2>4. CASE s \notin Items(rest)
    <3>0. s \notin Items(left)
      BY <1>6, <2>4
    <3>1. m \notin U
      BY <1>4, <2>4
    <3>2. Held(s, call') = U
      BY <1>9, <3>0, <3>1
    <3>3. T = P
      BY <1>10, <3>0, <3>1
    <3>4. Alike(r, q)
      BY <1>6, <2>1, <2>4
    <3> HIDE DEF r, q, U, P, T
    <3>5. StreamSound(q, U, P, position)
      BY <2>1, <3>4, StreamAlike
    <3> QED
      BY <3>2, <3>3, <3>5 DEF q, T
  <2> QED
    BY <2>2, <2>3, <2>4
<1>13. ~(\A q \in Subscribers : ~sub'[q].crowded)
  <2>1. Head(rest) \in Subscribers
    BY <1>2, <1>3
  <2> QED
    BY <1>3, <1>7, <2>1
<1>14. \A s \in Subscribers : sub'[s].state = "new" => sub'[s].got = <<>>
  BY <1>7 DEF HubInv
<1>15. HubTyped'
  BY <1>1, <1>6, <1>9 DEF HubTyped
<1>16. /\ order' \in Seq(Subscribers) /\ Distinct(order)' /\ Items(order)' = Live'
       /\ IsFiniteSet(Live)' /\ ReplaySound(replay, position)'
  BY <1>1, <1>8
<1>17. \A s \in Live' : StreamSound(sub'[s], Held(s, call'), Positions(s, call'), position')
  BY <1>8, <1>12
<1> QED
  BY <1>11, <1>13, <1>14, <1>15, <1>16, <1>17 DEF HubInv

\* A woken call finds room, or waits again.
LEMMA ResumeStays ==
    ASSUME HubInv, NEW m \in Calls, Resume(m)
    PROVE  HubInv'
<1> DEFINE p == call[m].position
           rest == call[m].rest
           s0 == Head(rest)
           up == [sub[s0] EXCEPT !.woken = Tail(@)]
           awake == [sub EXCEPT ![s0].woken = Tail(@)]
<1>1. /\ call[m].at = "waiting" /\ sub[s0].woken # <<>>
      /\ UNCHANGED <<position, replay, order>>
  BY DEF Resume
<1>2. call \in [Calls -> Call] /\ sub \in [Subscribers -> Sub]
  BY DEF HubInv, HubTyped
<1>3. p \in Nat /\ rest \in Seq(Subscribers)
  BY <1>2 DEF Call
<1>4. Distinct(rest) /\ rest # <<>>
  BY <1>1 DEF HubInv, CallSound
<1>5. s0 \in Subscribers /\ s0 \in Items(rest) /\ Tail(rest) \in Seq(Subscribers)
      /\ Distinct(Tail(rest)) /\ Items(Tail(rest)) = Items(rest) \ {s0}
  <2> HIDE DEF rest
  <2> QED
    BY <1>3, <1>4, TailItems
<1>6. IF Full(s0)
      THEN sub' = [awake EXCEPT ![s0] = Crowded(awake[s0], m)] /\ call' = call
      ELSE FanOut(m, p, Tail(rest), [awake EXCEPT ![s0] = Received(awake[s0], p)])
  BY DEF Resume
<1>7. awake = [sub EXCEPT ![s0] = up]
  OBVIOUS
<1>8. up \in Sub /\ Alike(sub[s0], up)
  <2> DEFINE r == sub[s0]
  <2>1. r \in Sub /\ r.woken # <<>>
    BY <1>1, <1>2, <1>5
  <2> HIDE DEF r
  <2>2. [r EXCEPT !.woken = Tail(@)] \in Sub /\ Alike(r, [r EXCEPT !.woken = Tail(@)])
    BY <2>1, AwakeIs
  <2> QED
    BY <2>2 DEF r
<1> HIDE DEF up
<1>9. awake \in [Subscribers -> Sub] /\ awake[s0] = up
      /\ \A s \in Subscribers : s # s0 => awake[s] = sub[s]
  BY <1>2, <1>5, <1>7, <1>8
<1> HIDE DEF awake, s0, rest, p
<1>10. CASE Full(s0)
  <2> DEFINE new == Crowded(up, m)
  <2>1. new \in Sub /\ Alike(up, new)
    BY <1>8, CrowdedIs
  <2>2. sub' = [awake EXCEPT ![s0] = new] /\ call' = call
    BY <1>6, <1>9, <1>10
  <2> HIDE DEF new
  <2>3. /\ sub' \in [Subscribers -> Sub] /\ sub'[s0] = new
        /\ \A s \in Subscribers : s # s0 => sub'[s] = sub[s]
    BY <1>5, <1>9, <2>1, <2>2
  <2>4. ASSUME NEW s \in Subscribers PROVE Even(sub[s], sub'[s])
    <3>1. sub[s] \in Sub /\ sub'[s] \in Sub
      BY <1>2, <2>3
    <3>2. Alike(sub[s], sub'[s])
      BY <1>8, <2>1, <2>3, AlikeThen
    <3> QED
      BY <3>1, <3>2, AlikeIsEven
  <2> QED
    BY <1>1, <2>2, <2>3, <2>4, QuietStays
<1>11. CASE ~Full(s0)
  <2> DEFINE new == Received(up, p)
             before == [awake EXCEPT ![s0] = new]
  <2>1. new \in Sub /\ Fed(up, new, p)
    BY <1>3, <1>8, ReceivedIs
  <2>2. FanOut(m, p, Tail(rest), before)
    BY <1>6, <1>9, <1>11
  <2> HIDE DEF new
  <2>3. /\ before \in [Subscribers -> Sub] /\ before[s0] = new
        /\ \A s \in Subscribers : s # s0 => before[s] = sub[s]
    BY <1>5, <1>9, <2>1
  <2> HIDE DEF before
  <2>4. PICK left : Serves(m, p, Tail(rest), before, left)
    BY <1>3, <1>5, <2>2, <2>3, FanOutServes
  <2>5. /\ left \in Seq(Subscribers) /\ Distinct(left)
        /\ Items(left) \subseteq Items(Tail(rest))
        /\ call' = [call EXCEPT ![m] = [at |-> IF left = <<>> THEN "done" ELSE "waiting",
                                        position |-> p, rest |-> left]]
        /\ sub' \in [Subscribers -> Sub]
        /\ \A s \in Subscribers :
              IF s \in Items(Tail(rest)) \ Items(left) THEN Fed(before[s], sub'[s], p)
              ELSE Alike(before[s], sub'[s])
        /\ left # <<>> => Head(left) \in Items(left) /\ sub'[Head(left)].crowded
    BY <2>4 DEF Serves
  <2>6. ASSUME NEW s \in Subscribers
        PROVE  IF s \in Items(rest) \ Items(left) THEN Fed(sub[s], sub'[s], p)
               ELSE Alike(sub[s], sub'[s])
    <3>1. CASE s = s0
      <4>1. Alike(new, sub'[s])
        BY <1>5, <2>3, <2>5, <3>1
      <4>2. Fed(sub[s], new, p)
        BY <1>8, <2>1, <3>1, AlikeThen
      <4>3. Fed(sub[s], sub'[s], p)
        BY <4>1, <4>2, AlikeThen
      <4> QED
        BY <1>5, <2>5, <3>1, <4>3
    <3>2. CASE s # s0
      BY <1>5, <2>3, <2>5, <3>2
    <3> QED
      BY <3>1, <3>2
  <2>7. Serves(m, p, rest, sub, left)
    BY <1>5, <2>5, <2>6 DEF Serves
  <2> QED
    BY <1>1, <2>7, LateServed DEF p, rest
<1> QED
  BY <1>10, <1>11

\* A consumer takes the first message of its queue.
LEMMA TakeStays ==
    ASSUME HubInv, NEW s \in Subscribers, Take(s)
    PROVE  HubInv'
<1> DEFINE r == sub[s]
           line == r.putters
           got == Append(r.got, Head(r.queue))
           queue == Tail(r.queue)
           putters == IF line = <<>> THEN r.putters ELSE Tail(r.putters)
           woken == IF line = <<>> THEN r.woken ELSE Append(r.woken, Head(line))
           new == [r EXCEPT !.got = got, !.queue = queue, !.putters = putters,
                            !.woken = woken]
<1>1. sub \in [Subscribers -> Sub] /\ r \in Sub
  BY DEF HubInv, HubTyped
<1>2. /\ r.state = "live" /\ r.queue # <<>> /\ UNCHANGED <<position, replay, order, call>>
  BY DEF Take, Live
<1>3. sub' = [sub EXCEPT ![s] = new]
  BY <1>1 DEF Take
<1> HIDE DEF r
<1>4. /\ got \in Seq(Nat) /\ queue \in Seq(Nat) /\ putters \in Seq(Calls) /\ woken \in Seq(Calls)
      /\ got \o queue = r.got \o r.queue
  <2> DEFINE a == r.got
             b == r.queue
             c == r.putters
             d == r.woken
  <2>1. a \in Seq(Nat) /\ b \in Seq(Nat) /\ b # <<>> /\ c \in Seq(Calls) /\ d \in Seq(Calls)
    BY <1>1, <1>2, SubFields
  <2> HIDE DEF a, b, c, d
  <2>2. Head(b) \in Nat /\ Tail(b) \in Seq(Nat) /\ b = <<Head(b)>> \o Tail(b)
    BY <2>1
  <2>3. Append(a, Head(b)) \in Seq(Nat)
    BY <2>1, <2>2
  <2>4. Append(a, Head(b)) \o Tail(b) = a \o b
    BY <2>1
  <2>5. c # <<>> => Tail(c) \in Seq(Calls) /\ Append(d, Head(c)) \in Seq(Calls)
    BY <2>1
  <2> QED
    BY <2>1, <2>2, <2>3, <2>4, <2>5 DEF a, b, c, d
<1> HIDE DEF got, queue, putters, woken
<1>5. new \in Sub
  BY <1>1, <1>4 DEF Sub
<1>6. /\ new.state = r.state /\ new.from = r.from /\ new.crowded = r.crowded
      /\ new.got = got /\ new.queue = queue
  BY <1>1 DEF Sub
<1> HIDE DEF new
<1>7. Even(r, new)
  BY <1>2, <1>4, <1>6 DEF Even, Here
<1>8. sub' \in [Subscribers -> Sub] /\ sub'[s] = new
      /\ \A x \in Subscribers : x # s => sub'[x] = sub[x]
  BY <1>1, <1>3, <1>5
<1>9. ASSUME NEW x \in Subscribers PROVE Even(sub[x], sub'[x])
  <2>1. CASE x = s
    BY <1>7, <1>8, <2>1 DEF r
  <2>2. CASE x # s
    <3>1. sub'[x] = sub[x]
      BY <1>8, <2>2
    <3> QED
      BY <3>1 DEF Even
  <2> QED
    BY <2>1, <2>2
<1> QED
  BY <1>2, <1>8, <1>9, QuietStays

\* The hub forgets a subscriber, and calls keep it.
LEMMA UnsubscribeStays ==
    ASSUME HubInv, NEW s \in Subscribers, Unsubscribe(s)
    PROVE  HubInv'
<1> DEFINE new == [sub[s] EXCEPT !.state = "closed"]
<1>1. /\ position \in Nat /\ call \in [Calls -> Call] /\ sub \in [Subscribers -> Sub]
      /\ HubTyped /\ ReplaySound(replay, position)
      /\ order \in Seq(Subscribers) /\ Distinct(order) /\ Items(order) = Live
      /\ IsFiniteSet(Live)
  BY DEF HubInv, HubTyped
<1>2. /\ s \in Live /\ order' = Only(order, Subscribers \ {s})
      /\ UNCHANGED <<position, replay, call>>
      /\ sub' = [sub EXCEPT ![s] = new]
  BY DEF Unsubscribe
<1>3. new \in Sub /\ new.state = "closed" /\ new.crowded = sub[s].crowded
  <2> DEFINE r == sub[s]
  <2>1. r \in Sub
    BY <1>1
  <2> HIDE DEF r
  <2>2. [r EXCEPT !.state = "closed"] \in Sub
    BY <2>1 DEF Sub
  <2>3. /\ [r EXCEPT !.state = "closed"].state = "closed"
        /\ [r EXCEPT !.state = "closed"].crowded = r.crowded
    BY <2>1 DEF Sub
  <2> QED
    BY <2>2, <2>3 DEF r
<1> HIDE DEF new
<1>4. /\ sub' \in [Subscribers -> Sub] /\ sub'[s] = new
      /\ \A x \in Subscribers : x # s => sub'[x] = sub[x]
  BY <1>1, <1>2, <1>3
<1>5. Live' = Live \ {s}
  BY <1>3, <1>4 DEF Live
<1>6. order' \in Seq(Subscribers) /\ Distinct(order') /\ Items(order') = Live'
  <2> DEFINE S == Subscribers \ {s}
  <2>1. Live \intersect S = Live \ {s}
    BY DEF Live
  <2> HIDE DEF S
  <2>2. /\ Only(order, S) \in Seq(Subscribers) /\ Distinct(Only(order, S))
        /\ Items(Only(order, S)) = Items(order) \intersect S
    BY <1>1, OnlyKeeps
  <2> QED
    BY <1>1, <1>2, <1>5, <2>1, <2>2 DEF S
<1>7. IsFiniteSet(Live')
  BY <1>1, <1>5, FS_RemoveElement
<1>8. ASSUME NEW x \in Calls PROVE CallSound(call'[x], sub')
  <2> DEFINE c == call[x]
  <2>1. call'[x] = c /\ c \in Call /\ CallSound(c, sub)
    BY <1>1, <1>2 DEF HubInv
  <2> HIDE DEF c
  <2>2. \A y \in Subscribers : sub[y].state # "new" => sub'[y].state # "new"
    BY <1>3, <1>4
  <2>3. \A y \in Subscribers : sub[y].crowded => sub'[y].crowded
    BY <1>3, <1>4
  <2>4. CallSound(c, sub')
    BY <1>1, <2>1, <2>2, <2>3, CallsStay
  <2> QED
    BY <2>1, <2>4
<1>9. ASSUME NEW x \in Live'
      PROVE  /\ StreamSound(sub'[x], Held(x, call'), Positions(x, call'), position')
             /\ (\A q \in Subscribers : ~sub'[q].crowded) => InOrder(sub'[x])
  <2>1. x \in Live /\ sub'[x] = sub[x]
    BY <1>4, <1>5 DEF Live
  <2>2. StreamSound(sub[x], Held(x, call), Positions(x, call), position)
    BY <2>1 DEF HubInv
  <2>3. (\A q \in Subscribers : ~sub'[q].crowded) => (\A q \in Subscribers : ~sub[q].crowded)
    BY <1>3, <1>4
  <2>4. (\A q \in Subscribers : ~sub'[q].crowded) => InOrder(sub[x])
    BY <2>1, <2>3 DEF HubInv
  <2> QED
    BY <1>2, <2>1, <2>2, <2>4
<1>10. \A x \in Subscribers : sub'[x].state = "new" => sub'[x].got = <<>>
  BY <1>3, <1>4 DEF HubInv
<1>11. HubTyped' /\ ReplaySound(replay, position)'
  BY <1>1, <1>2, <1>4 DEF HubTyped
<1> QED
  BY <1>6, <1>7, <1>8, <1>9, <1>10, <1>11 DEF HubInv

\* What is put into a new queue: all the positions behind the one asked for, or behind
\* the first one that replay and the queue have room for.
LEMMA ReplayedIs ==
    ASSUME NEW n \in Nat, ReplaySound(replay, n), position = n, NEW after \in 0..n,
           NEW from, from = Larger(after, n - Smaller(Len(replay), Capacity))
    PROVE  /\ from \in 0..n /\ Replayed(after) \in Seq(Nat)
           /\ Len(Replayed(after)) = n - from
           /\ \A i \in 1..Len(Replayed(after)) : Replayed(after)[i] = from + i
<1> DEFINE S == (after + 1)..n
           size == Len(replay)
           k == Larger(0, after - n + size)
           part0 == Only(replay, S)
<1>1. /\ replay \in Seq(Nat) /\ size \in Nat /\ size <= n
      /\ \A i \in 1..size : replay[i] = n - size + i
  BY HubAssumption DEF ReplaySound, Smaller
<1>2. after \in Nat /\ after <= n
  OBVIOUS
<1>3. k \in 0..size
  <2> HIDE DEF size
  <2> QED
    BY <1>1, <1>2 DEF Larger
<1>4. \A i \in 1..size : replay[i] \in S <=> i > k
  <2> HIDE DEF size
  <2> QED
    BY <1>1, <1>2 DEF Larger
<1> HIDE DEF S
<1>5. part0 = SubSeq(replay, k + 1, size)
  <2> HIDE DEF k
  <2> QED
    BY <1>1, <1>3, <1>4, OnlySuffix
<1>6. k = Larger(0, after - n + size)
  OBVIOUS
<1> HIDE DEF k, part0
<1>7. /\ part0 \in Seq(Nat) /\ Len(part0) = size - k
      /\ \A i \in 1..Len(part0) : part0[i] = replay[k + i] /\ k + i \in 1..size
  BY <1>1, <1>3, <1>5, Suffix
<1> DEFINE len == Len(part0)
           start == Larger(1, len - Capacity + 1)
           kept == SubSeq(part0, start, len)
<1>8. Replayed(after) = kept
  BY DEF Replayed, LastOf, part0, S
<1>9. len \in Nat /\ len = size - k
  BY <1>7
<1> HIDE DEF size, len
<1>10. start \in 1..(len + 1) /\ len - start + 1 = Smaller(len, Capacity)
  BY <1>9, HubAssumption DEF Larger, Smaller
<1> DEFINE j == start - 1
<1>11. j \in 0..len /\ start = j + 1
  BY <1>9, <1>10
<1> HIDE DEF start
<1>12. kept = SubSeq(part0, j + 1, Len(part0))
  BY <1>11 DEF len
<1> HIDE DEF kept, j
<1>13. /\ kept \in Seq(Nat) /\ Len(kept) = len - j
       /\ \A i \in 1..Len(kept) : kept[i] = part0[j + i] /\ j + i \in 1..len
  <2>1. part0 \in Seq(Nat)
    BY <1>7
  <2>2. j \in 0..Len(part0)
    BY <1>11 DEF len
  <2> QED
    BY <1>12, <2>1, <2>2, Suffix DEF len
<1>14. k \in Nat /\ k <= size /\ size \in Nat /\ size <= n /\ j \in Nat /\ j <= len
  BY <1>1, <1>3, <1>9, <1>11
<1>15. len - j = Smaller(len, Capacity)
  BY <1>9, <1>10, <1>11, <1>14
<1>16. from = Larger(after, n - Smaller(size, Capacity))
  BY DEF size
<1>17. from \in 0..n /\ len - j = n - from
  BY <1>2, <1>6, <1>9, <1>14, <1>15, <1>16, HubAssumption DEF Larger, Smaller
<1>18. ASSUME NEW i \in 1..Len(kept) PROVE kept[i] = from + i
  <2>1. kept[i] = part0[j + i] /\ j + i \in 1..len
    BY <1>13
  <2>2. part0[j + i] = replay[k + (j + i)] /\ k + (j + i) \in 1..size
    BY <1>7, <2>1 DEF len
  <2>3. replay[k + (j + i)] = n - size + (k + (j + i))
    BY <1>1, <2>2
  <2>4. i \in Nat /\ from \in Nat
    BY <1>13, <1>14, <1>17
  <2>5. n - size + (k + (j + i)) = from + i
    BY <1>9, <1>14, <1>17, <2>4
  <2> QED
    BY <2>1, <2>2, <2>3, <2>5
<1> QED
  BY <1>8, <1>13, <1>17, <1>18

\* A subscriber joins with what replay has for it; no call under way knows it.
LEMMA SubscribeStays ==
    ASSUME HubInv, NEW s \in Subscribers, NEW after \in 0..position, Subscribe(s, after)
    PROVE  HubInv'
<1> DEFINE r == sub[s]
           queue == Replayed(after)
           from == Larger(after, position - Smaller(Len(replay), Capacity))
           new == [r EXCEPT !.state = "live", !.queue = queue, !.from = from]
<1>1. /\ position \in Nat /\ call \in [Calls -> Call] /\ sub \in [Subscribers -> Sub]
      /\ HubTyped /\ ReplaySound(replay, position)
      /\ order \in Seq(Subscribers) /\ Distinct(order) /\ Items(order) = Live
      /\ IsFiniteSet(Live)
  BY DEF HubInv, HubTyped
<1>2. r \in Sub /\ r.state = "new" /\ r.got = <<>>
  BY <1>1 DEF Subscribe, HubInv
<1>3. order' \in Listings(Live \union {s}) /\ UNCHANGED <<position, replay, call>>
  BY DEF Subscribe
<1>4. sub' = [sub EXCEPT ![s] = new]
  BY <1>1 DEF Subscribe
<1> HIDE DEF r
<1>5. /\ from \in 0..position /\ queue \in Seq(Nat)
      /\ Len(queue) = position - from
      /\ \A i \in 1..Len(queue) : queue[i] = from + i
  BY <1>1, ReplayedIs
<1> HIDE DEF queue, from
<1>6. from \in Nat /\ from <= position
  BY <1>1, <1>5
<1>7. new \in Sub
  BY <1>2, <1>5, <1>6 DEF Sub
<1>8. /\ new.state = "live" /\ new.from = from /\ new.queue = queue
      /\ new.got = r.got /\ new.crowded = r.crowded
  BY <1>2 DEF Sub
<1> HIDE DEF new
<1>9. /\ sub' \in [Subscribers -> Sub] /\ sub'[s] = new
      /\ \A x \in Subscribers : x # s => sub'[x] = sub[x]
  BY <1>1, <1>4, <1>7
<1>10. Live' = Live \union {s} /\ s \notin Live
  BY <1>2, <1>8, <1>9 DEF Live, r
<1>11. IsFiniteSet(Live')
  BY <1>1, <1>10, FS_AddElement
<1>12. order' \in Seq(Subscribers) /\ Distinct(order') /\ Items(order') = Live'
  <2> DEFINE S == Live'
             N == Cardinality(S)
             f == order'
  <2>1. N \in Nat
    BY <1>11, FS_CardinalityType
  <2>2. f \in [1..N -> S] /\ {f[i] : i \in DOMAIN f} = S
    BY <1>3, <1>10 DEF Listings
  <2>3. S \subseteq Subscribers
    BY <1>10 DEF Live
  <2>4. IsFiniteSet(S)
    BY <1>11
  <2> HIDE DEF S, N, f
  <2>5. f \in Seq(Subscribers) /\ Len(f) = N /\ DOMAIN f = 1..N
    BY <2>1, <2>2, <2>3
  <2>6. IsFiniteSet(1..N) /\ Cardinality(1..N) = N
    BY <2>1, FS_Interval
  <2>7. f \in Surjection(1..N, S)
    BY <2>2, <2>5 DEF Surjection
  <2>8. f \in Injection(1..N, S)
    BY <2>6, <2>7, FS_SurjSameCardinalityImpliesInj DEF N
  <2>9. Distinct(f)
    BY <2>5, <2>8 DEF Injection, IsInjective, Distinct
  <2>10. Items(f) = S
    BY <2>2, <2>5 DEF Items
  <2> QED
    BY <2>5, <2>9, <2>10 DEF f, S
<1>13. ASSUME NEW x \in Calls PROVE CallSound(call'[x], sub')
  <2> DEFINE c == call[x]
  <2>1. call'[x] = c /\ c \in Call /\ CallSound(c, sub)
    BY <1>1, <1>3 DEF HubInv
  <2> HIDE DEF c
  <2>2. \A y \in Subscribers : sub[y].state # "new" => sub'[y].state # "new"
    BY <1>8, <1>9
  <2>3. \A y \in Subscribers : sub[y].crowded => sub'[y].crowded
    BY <1>8, <1>9 DEF r
  <2>4. CallSound(c, sub')
    BY <1>1, <2>1, <2>2, <2>3, CallsStay
  <2> QED
    BY <2>1, <2>4
<1>14. Held(s, call) = {} /\ Positions(s, call) = {}
  <2>1. Held(s, call) = {}
    <3> SUFFICES ASSUME NEW x \in Held(s, call) PROVE FALSE
      OBVIOUS
    <3>1. x \in Calls /\ call[x].at = "waiting" /\ s \in Items(call[x].rest)
      BY DEF Held
    <3>2. sub[s].state # "new"
      BY <3>1 DEF HubInv, CallSound
    <3> QED
      BY <1>2, <3>2 DEF r
  <2> QED
    BY <2>1 DEF Positions
<1>15. Here(new) = queue
  <2>1. <<>> \o queue = queue
    BY <1>5
  <2> QED
    BY <1>2, <1>8, <2>1 DEF Here
<1>16. InOrder(new)
  BY <1>5, <1>8, <1>15 DEF InOrder
<1>17. StreamSound(new, {}, {}, position)
  <2>1. Items(queue) = (from + 1)..position
    <3>1. ASSUME NEW x \in Items(queue) PROVE x \in (from + 1)..position
      <4>1. PICK i \in 1..Len(queue) : x = queue[i]
        BY DEF Items
      <4>2. x = from + i
        BY <1>5, <4>1
      <4> QED
        BY <1>1, <1>5, <1>6, <4>2
    <3>2. ASSUME NEW x \in (from + 1)..position PROVE x \in Items(queue)
      <4>1. x - from \in 1..Len(queue) /\ from + (x - from) = x
        BY <1>1, <1>5, <1>6
      <4>2. queue[x - from] = x
        BY <1>5, <4>1
      <4> QED
        BY <4>1, <4>2 DEF Items
    <3> QED
      BY <3>1, <3>2
  <2>2. IsFiniteSet({}) /\ Cardinality({}) = 0
    BY FS_EmptySet
  <2>3. Len(queue) + 0 = position - from
    BY <1>1, <1>5, <1>6
  <2> QED
    BY <1>8, <1>15, <2>1, <2>2, <2>3 DEF StreamSound
<1>18. ASSUME NEW x \in Live'
       PROVE  /\ StreamSound(sub'[x], Held(x, call'), Positions(x, call'), position')
              /\ (\A q \in Subscribers : ~sub'[q].crowded) => InOrder(sub'[x])
  <2>1. CASE x = s
    BY <1>3, <1>9, <1>14, <1>16, <1>17, <2>1
  <2>2. CASE x # s
    <3>1. x \in Live /\ sub'[x] = sub[x]
      BY <1>9, <1>10, <2>2 DEF Live
    <3>2. StreamSound(sub[x], Held(x, call), Positions(x, call), position)
      BY <3>1 DEF HubInv
    <3>3. (\A q \in Subscribers : ~sub'[q].crowded) => (\A q \in Subscribers : ~sub[q].crowded)
      BY <1>8, <1>9 DEF r
    <3>4. (\A q \in Subscribers : ~sub'[q].crowded) => InOrder(sub[x])
      BY <3>1, <3>3 DEF HubInv
    <3> QED
      BY <1>3, <3>1, <3>2, <3>4
  <2> QED
    BY <2>1, <2>2
<1>19. \A x \in Subscribers : sub'[x].state = "new" => sub'[x].got = <<>>
  BY <1>8, <1>9 DEF HubInv
<1>20. HubTyped' /\ ReplaySound(replay, position)'
  BY <1>1, <1>3, <1>9 DEF HubTyped
<1> QED
  BY <1>11, <1>12, <1>13, <1>18, <1>19, <1>20 DEF HubInv

\* The invariant of the hub is inductive, and implies what the run checks.
LEMMA HubInductive ==
    /\ ProcessInit => HubInv
    /\ HubInv /\ [ProcessNext]_processVars => HubInv'
    /\ HubInv => CompleteStream
<1>1. ASSUME ProcessInit PROVE HubInv
  <2>1. Init
    BY <1>1 DEF ProcessInit
  <2>2. position = 0 /\ replay = <<>> /\ order = <<>>
    BY <2>1 DEF Init
  <2>3. HubTyped
    BY <2>1 DEF Init, HubTyped, Call, Sub
  <2>4. /\ \A m \in Calls : call[m].at = "new"
        /\ \A s \in Subscribers : sub[s].state = "new" /\ sub[s].got = <<>>
    BY <2>1 DEF Init
  <2>5. Live = {}
    BY <2>4 DEF Live
  <2>6. ReplaySound(replay, position)
    BY <2>2, HubAssumption DEF ReplaySound, Smaller
  <2>7. IsFiniteSet(Live)
    BY <2>5, FS_EmptySet
  <2>8. \A m \in Calls : CallSound(call[m], sub)
    BY <2>4 DEF CallSound
  <2>9. order \in Seq(Subscribers) /\ Distinct(order) /\ Items(order) = Live
    BY <2>2, <2>5, NoItems
  <2> QED
    BY <2>3, <2>4, <2>5, <2>6, <2>7, <2>8, <2>9 DEF HubInv
<1>2. ASSUME HubInv, [ProcessNext]_processVars PROVE HubInv'
  <2>1. CASE UNCHANGED vars
    <3>1. UNCHANGED <<position, replay, order, call, sub>>
      BY <2>1 DEF vars
    <3>2. Live' = Live
      BY <3>1 DEF Live
    <3> QED
      BY <1>2, <3>1, <3>2 DEF HubInv, HubTyped
  <2>2. CASE Next
    BY <1>2, <2>2, PublishStays, ResumeStays, SubscribeStays, UnsubscribeStays, TakeStays
       DEF Next
  <2> QED
    BY <1>2, <2>1, <2>2 DEF ProcessNext, Hub, processVars
<1>3. ASSUME HubInv PROVE CompleteStream
  <2> SUFFICES ASSUME NEW s \in Live
               PROVE  /\ {Here(sub[s])[i] : i \in DOMAIN Here(sub[s])}
                            \union {call[m].position : m \in Underway(s)}
                              = (sub[s].from + 1)..position
                      /\ Len(Here(sub[s])) + Cardinality(Underway(s)) = position - sub[s].from
                      /\ (\A q \in Subscribers : ~sub[q].crowded) =>
                            \A i \in DOMAIN Here(sub[s]) : Here(sub[s])[i] = sub[s].from + i
    BY DEF CompleteStream, Here
  <2> DEFINE r == sub[s]
             h == Here(r)
  <2>1. /\ r \in Sub /\ StreamSound(r, Held(s, call), Positions(s, call), position)
        /\ (\A q \in Subscribers : ~sub[q].crowded) => InOrder(r)
    BY <1>3 DEF HubInv, HubTyped, Live
  <2>2. Underway(s) = Held(s, call)
    <3>1. ASSUME NEW m \in Calls
          PROVE  {call[m].rest[i] : i \in DOMAIN call[m].rest} = Items(call[m].rest)
      <4>1. call[m].rest \in Seq(Subscribers)
        BY <1>3 DEF HubInv, HubTyped, Call
      <4>2. DOMAIN call[m].rest = 1..Len(call[m].rest)
        BY <4>1
      <4> QED
        BY <4>2 DEF Items
    <3> QED
      BY <3>1 DEF Underway, Held
  <2>3. h \in Seq(Nat)
    BY <2>1, HereIs
  <2> HIDE DEF h
  <2>4. DOMAIN h = 1..Len(h)
    BY <2>3
  <2>5. {h[i] : i \in DOMAIN h} = Items(h)
    BY <2>4 DEF Items
  <2>6. /\ Items(h) \union Positions(s, call) = (r.from + 1)..position
        /\ Len(h) + Cardinality(Held(s, call)) = position - r.from
    BY <2>1 DEF StreamSound, h
  <2>7. {call[m].position : m \in Underway(s)} = Positions(s, call)
    BY <2>2 DEF Positions
  <2>8. (\A q \in Subscribers : ~sub[q].crowded) => \A i \in DOMAIN h : h[i] = r.from + i
    BY <2>1, <2>4 DEF InOrder, h
  <2> QED
    BY <2>2, <2>5, <2>6, <2>7, <2>8 DEF h
<1> QED
  BY <1>1, <1>2, <1>3

-----------------------------------------------------------------------------
(* The theorems *)

\* RealtimeHub.publish, subscribe, unsubscribe and the queues between them: whatever
\* the number of calls and subscribers and the two capacities, a live subscriber has
\* every position behind the one it asked for exactly once, received, queued or in the
\* hands of a call that waits for room; and in order while no call ever had to wait.
THEOREM StreamsAreComplete == ProcessSpec => []CompleteStream
<1>1. HubInv /\ [ProcessNext]_processVars => HubInv'
  BY HubInductive
<1> QED
  BY <1>1, HubInductive, PTL DEF ProcessSpec

\* InProcessEventBus: whoever subscribes, unsubscribes or raises during a publish, no
\* handler gets an event twice, a call that ends has served all who stayed subscribed,
\* and a handler that gets events has an active handle.
THEOREM EventsAreServed == ProcessSpec => []EventsServed
<1>1. BusInv /\ [ProcessNext]_processVars => BusInv'
  BY BusInductive
<1> QED
  BY <1>1, BusInductive, PTL DEF ProcessSpec

\* SlidingWindowRateLimiter.check and its middleware: for every limit, window, bound on
\* the keys tracked and resolution of a second, no client is admitted more often in a
\* window than the limit (unless it was forgotten), no more keys are tracked than may
\* be, and a client that does what it was told is admitted.
THEOREM LimitsAreKept == ProcessSpec => []LimitKept
<1>1. LimiterInv /\ [ProcessNext]_processVars => LimiterInv'
  BY LimiterInductive
<1> QED
  BY <1>1, LimiterInductive, PTL DEF ProcessSpec

\* ModuleLoader.bootstrap: for every set of manifests, the process is up with all they
\* contribute and one owner for each command, query and job, or nothing is registered:
\* a set that is found valid is never refused half way.
THEOREM ModulesLoadWhole == ProcessSpec => []LoadedWhole
<1>1. LoaderInv /\ [ProcessNext]_processVars => LoaderInv'
  BY LoaderInductive
<1> QED
  BY <1>1, LoaderInductive, PTL DEF ProcessSpec
=============================================================================
