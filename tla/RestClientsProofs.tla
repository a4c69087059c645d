-------------------------- MODULE RestClientsProofs --------------------------
(***************************************************************************)
(* What the pass over a list of ages computes, for every list and limit.   *)
(* Younger is a recursive function, so its definition is first shown to    *)
(* have a solution, and its result is then found by induction on the       *)
(* length of the part of the list that the pass has seen.                  *)
(***************************************************************************)
EXTENDS RestClients, FiniteSetTheorems, NaturalsInduction, WellFoundedInduction, TLAPS

(* How many entries of a list are not older than age. *)
Count(ages, age) == Cardinality({i \in DOMAIN ages : ages[i] <= age})

(* Induction over the natural numbers, for a set of numbers: the smallest   *)
(* number that is not in it would have a predecessor that is.               *)
LEMMA Induction ==
  ASSUME NEW T, 0 \in T, \A n \in Nat : n \in T => n + 1 \in T
  PROVE  \A n \in Nat : n \in T
  <1> DEFINE Others == Nat \ T
             Less == {p \in Nat \X Nat : p[1] < p[2]}
  <1>1. SUFFICES ASSUME Others # {}
                 PROVE  FALSE
    OBVIOUS
  <1>2. IsWellFoundedOn(Less, Nat)
    BY NatLessThanWellFounded DEF OpToRel
  <1>3. \A m, n \in Nat : m < n => <<m, n>> \in Less
    OBVIOUS
  <1> HIDE DEF Less
  <1>4. PICK n \in Others : \A m \in Others : <<m, n>> \notin Less
    BY <1>1, <1>2, WFMin
  <1>5. n \in Nat /\ n # 0
    BY <1>4
  <1>6. n - 1 \in Nat /\ <<n - 1, n>> \in Less
    BY <1>3, <1>5
  <1>7. n - 1 \in T
    BY <1>4, <1>6
  <1> QED BY <1>4, <1>6, <1>7

(* The pass over the first m ages: f[n] is what it has kept after n. *)
Pass(f, ages, limit, m) ==
  f = [n \in 0..m |->
         IF n = 0 THEN <<>>
         ELSE IF ages[n] < limit THEN Append(f[n - 1], ages[n]) ELSE f[n - 1]]

(* There is such a pass, and Younger is what it has kept in the end. *)
LEMMA YoungerIsPass ==
  ASSUME NEW ages, NEW limit, Len(ages) \in Nat
  PROVE  \E f : Pass(f, ages, limit, Len(ages)) /\ Younger(ages, limit) = f[Len(ages)]
  <1> DEFINE T == {m \in Nat : \E f : Pass(f, ages, limit, m)}
  <1>1. 0 \in T
    <2> DEFINE f == [n \in 0..0 |-> <<>>]
    <2>1. Pass(f, ages, limit, 0)
      BY DEF Pass
    <2> QED BY <2>1
  <1>2. ASSUME NEW m \in Nat, m \in T
        PROVE  m + 1 \in T
    <2>1. PICK f : Pass(f, ages, limit, m)
      BY <1>2
    <2> DEFINE last == IF ages[m + 1] < limit THEN Append(f[m], ages[m + 1]) ELSE f[m]
               g == [n \in 0..(m + 1) |-> IF n = m + 1 THEN last ELSE f[n]]
    <2>2. g[m + 1] = last /\ \A n \in 0..m : g[n] = f[n]
      OBVIOUS
    <2>3. \A n \in 0..m : f[n] =
            IF n = 0 THEN <<>>
            ELSE IF ages[n] < limit THEN Append(f[n - 1], ages[n]) ELSE f[n - 1]
      BY <2>1 DEF Pass
    <2>4. ASSUME NEW n \in 0..(m + 1)
          PROVE  g[n] = IF n = 0 THEN <<>>
                        ELSE IF ages[n] < limit THEN Append(g[n - 1], ages[n]) ELSE g[n - 1]
      <3>1. CASE n = m + 1
        <4>1. n # 0 /\ n - 1 = m /\ g[n - 1] = f[m]
          BY <2>2, <3>1
        <4> QED BY <2>2, <3>1, <4>1
      <3>2. CASE n = 0
        BY <2>2, <2>3, <3>2
      <3>3. CASE n \in 1..m
        <4>1. n - 1 \in 0..m /\ n \in 0..m /\ n # 0
          BY <3>3
        <4>2. g[n] = f[n] /\ g[n - 1] = f[n - 1]
          BY <2>2, <4>1
        <4> HIDE DEF g
        <4> QED BY <2>3, <4>1, <4>2
      <3> QED BY <3>1, <3>2, <3>3
    <2>5. Pass(g, ages, limit, m + 1)
      <3>1. g = [n \in 0..(m + 1) |-> g[n]]
        OBVIOUS
      <3> HIDE DEF g
      <3> QED BY <2>4, <3>1 DEF Pass
    <2> HIDE DEF g
    <2> QED BY <2>5
  <1>3. Len(ages) \in T
    <2> HIDE DEF T
    <2> QED BY <1>1, <1>2, Induction
  <1>4. Pass(CHOOSE f : Pass(f, ages, limit, Len(ages)), ages, limit, Len(ages))
    BY <1>3, Zenon
  <1> QED BY <1>4, Zenon DEF Younger, Pass
-----------------------------------------------------------------------------
(* Where the entries of a list lie. *)
LEMMA EntriesAreAges ==
  ASSUME NEW Ages, NEW ages \in Seq(Ages)
  PROVE  \A i \in DOMAIN ages : ages[i] \in Ages
  OBVIOUS

(* The positions of a list with a given property are finitely many. *)
LEMMA CountIsNat ==
  ASSUME NEW ages \in Seq(Int), NEW age \in Int
  PROVE  /\ IsFiniteSet({i \in DOMAIN ages : ages[i] <= age})
         /\ Count(ages, age) \in Nat
  <1>1. IsFiniteSet(1..Len(ages)) /\ DOMAIN ages = 1..Len(ages)
    BY FS_Interval
  <1>2. IsFiniteSet({i \in DOMAIN ages : ages[i] <= age})
    BY <1>1, FS_Subset
  <1> QED BY <1>2, FS_CardinalityType DEF Count

(* One more entry counts if it is young enough. *)
LEMMA CountAppend ==
  ASSUME NEW ages \in Seq(Int), NEW new \in Int, NEW age \in Int
  PROVE  Count(Append(ages, new), age)
           = IF new <= age THEN Count(ages, age) + 1 ELSE Count(ages, age)
  <1> DEFINE n == Len(ages) + 1
             I == {i \in DOMAIN ages : ages[i] <= age}
             J == {i \in DOMAIN Append(ages, new) : Append(ages, new)[i] <= age}
  <1>1. /\ DOMAIN Append(ages, new) = 1..n /\ DOMAIN ages = 1..(n - 1) /\ n \in Nat \ {0}
        /\ Append(ages, new)[n] = new
        /\ \A i \in 1..(n - 1) : Append(ages, new)[i] = ages[i]
    OBVIOUS
  <1>2. J = IF new <= age THEN I \cup {n} ELSE I
    <2> HIDE DEF n
    <2> QED BY <1>1
  <1>3. IsFiniteSet(I) /\ Cardinality(I) \in Nat /\ n \notin I
    <2>1. IsFiniteSet(I) /\ Cardinality(I) \in Nat
      BY CountIsNat, Zenon DEF Count
    <2>2. n \notin I
      BY <1>1
    <2> QED BY <2>1, <2>2
  <1> HIDE DEF I, J, n
  <1>4. Cardinality(I \cup {n}) = Cardinality(I) + 1
    BY <1>3, FS_AddElement
  <1> QED BY <1>2, <1>4 DEF Count, I, J

(* No entry, no count. *)
LEMMA CountEmpty ==
  ASSUME NEW age
  PROVE  Count(<<>>, age) = 0
  <1>1. {i \in DOMAIN << >> : << >>[i] <= age} = {}
    OBVIOUS
  <1> QED BY <1>1, FS_EmptySet DEF Count

(* In a list without older entries all are counted. *)
LEMMA CountAll ==
  ASSUME NEW ages \in Seq(Int), NEW age \in Int, \A i \in DOMAIN ages : ages[i] <= age
  PROVE  Count(ages, age) = Len(ages)
  <1>1. {i \in DOMAIN ages : ages[i] <= age} = 1..Len(ages) /\ Len(ages) \in Nat
    OBVIOUS
  <1>2. Cardinality(1..Len(ages)) = Len(ages)
    <2> DEFINE n == Len(ages)
    <2>1. n \in Int /\ n >= 0
      BY <1>1
    <2> HIDE DEF n
    <2>2. Cardinality(1..n) = IF 1 > n THEN 0 ELSE n - 1 + 1
      BY <2>1, FS_Interval
    <2>3. Cardinality(1..n) = n
      BY <2>1, <2>2
    <2> QED BY <2>3 DEF n
  <1> QED BY <1>1, <1>2 DEF Count

(* A tick later, what was younger by one is counted. *)
LEMMA CountLater ==
  ASSUME NEW ages \in Seq(Int), NEW later \in Seq(Int), NEW age \in Int,
         DOMAIN later = DOMAIN ages,
         \A i \in DOMAIN ages : later[i] <= age <=> ages[i] <= age - 1
  PROVE  Count(later, age) = Count(ages, age - 1)
  <1>1. {i \in DOMAIN later : later[i] <= age} = {i \in DOMAIN ages : ages[i] <= age - 1}
    OBVIOUS
  <1> QED BY <1>1 DEF Count

(* A higher age counts no fewer. *)
LEMMA CountMonotone ==
  ASSUME NEW ages \in Seq(Int), NEW m \in Int, NEW n \in Int, m <= n
  PROVE  Count(ages, m) <= Count(ages, n)
  <1> DEFINE M == {i \in DOMAIN ages : ages[i] <= m}
             N == {i \in DOMAIN ages : ages[i] <= n}
  <1>1. M \subseteq N
    OBVIOUS
  <1>2. IsFiniteSet(N)
    BY CountIsNat
  <1> HIDE DEF M, N
  <1>3. Cardinality(M) <= Cardinality(N)
    BY <1>1, <1>2, FS_Subset
  <1> QED BY <1>3 DEF Count, M, N

(* Nothing is counted below all entries. *)
LEMMA CountNone ==
  ASSUME NEW ages \in Seq(Int), NEW age \in Int, \A i \in DOMAIN ages : age < ages[i]
  PROVE  Count(ages, age) = 0
  <1>1. {i \in DOMAIN ages : ages[i] <= age} = {}
    OBVIOUS
  <1> QED BY <1>1, FS_EmptySet DEF Count

(* Younger drops every entry that is too old and loses no other, whatever   *)
(* the order of the list.                                                   *)
THEOREM YoungerIsFilter ==
  ASSUME NEW Ages, Ages \subseteq Int, NEW ages \in Seq(Ages), NEW limit \in Int
  PROVE  /\ Younger(ages, limit) \in Seq({a \in Ages : a < limit})
         /\ \A age \in Int : age < limit => Count(Younger(ages, limit), age) = Count(ages, age)
  <1> DEFINE Young == {a \in Ages : a < limit}
             Seen(n, age) == {i \in 1..n : ages[i] <= age}
  <1>1. PICK f : Pass(f, ages, limit, Len(ages)) /\ Younger(ages, limit) = f[Len(ages)]
    BY YoungerIsPass
  <1>2. /\ Len(ages) \in Nat /\ DOMAIN ages = 1..Len(ages) /\ Young \subseteq Int
        /\ \A i \in 1..Len(ages) : ages[i] \in Ages /\ ages[i] \in Int
    <2>1. Len(ages) \in Nat /\ DOMAIN ages = 1..Len(ages) /\ \A i \in DOMAIN ages : ages[i] \in Ages
      OBVIOUS
    <2> QED BY <2>1
  <1>3. /\ f[0] = <<>>
        /\ \A n \in 1..Len(ages) :
             f[n] = IF ages[n] < limit THEN Append(f[n - 1], ages[n]) ELSE f[n - 1]
    <2>1. \A n \in 0..Len(ages) : f[n] =
            IF n = 0 THEN <<>>
            ELSE IF ages[n] < limit THEN Append(f[n - 1], ages[n]) ELSE f[n - 1]
      BY <1>1, Zenon DEF Pass
    <2> QED BY <1>2, <2>1
  <1> DEFINE T == {n \in Nat : n <= Len(ages) =>
                     /\ f[n] \in Seq(Young)
                     /\ \A age \in Int : age < limit => Count(f[n], age) = Cardinality(Seen(n, age))}
  <1>4. 0 \in T
    <2>1. f[0] \in Seq(Young)
      BY <1>3
    <2>2. ASSUME NEW age \in Int
          PROVE  Count(f[0], age) = Cardinality(Seen(0, age))
      <3>1. Seen(0, age) = {}
        OBVIOUS
      <3> HIDE DEF Seen
      <3> QED BY <1>3, <3>1, CountEmpty, FS_EmptySet
    <2> QED BY <2>1, <2>2
  <1>5. ASSUME NEW n \in Nat, n \in T
        PROVE  n + 1 \in T
    <2> SUFFICES ASSUME n + 1 <= Len(ages)
                 PROVE  /\ f[n + 1] \in Seq(Young)
                        /\ \A age \in Int : age < limit =>
                             Count(f[n + 1], age) = Cardinality(Seen(n + 1, age))
      OBVIOUS
    <2>1. /\ n + 1 \in 1..Len(ages) /\ (n + 1) - 1 = n /\ ages[n + 1] \in Int /\ ages[n + 1] \in Ages
          /\ f[n] \in Seq(Young)
          /\ \A age \in Int : age < limit => Count(f[n], age) = Cardinality(Seen(n, age))
      BY <1>2, <1>5
    <2>2. f[n + 1] = IF ages[n + 1] < limit THEN Append(f[n], ages[n + 1]) ELSE f[n]
      BY <1>3, <2>1
    <2>3. f[n + 1] \in Seq(Young) /\ f[n] \in Seq(Int)
      BY <1>2, <2>1, <2>2
    <2>4. ASSUME NEW age \in Int, age < limit
          PROVE  Count(f[n + 1], age) = Cardinality(Seen(n + 1, age))
      <3>1. Seen(n + 1, age) = IF ages[n + 1] <= age THEN Seen(n, age) \cup {n + 1} ELSE Seen(n, age)
        BY <2>1
      <3>2. IsFiniteSet(Seen(n, age)) /\ n + 1 \notin Seen(n, age)
        <4>1. IsFiniteSet(1..n)
          BY FS_Interval
        <4> QED BY <4>1, FS_Subset
      <3> HIDE DEF Seen
      <3>3. Cardinality(Seen(n, age) \cup {n + 1}) = Cardinality(Seen(n, age)) + 1
        BY <3>2, FS_AddElement
      <3>4. Count(f[n], age) = Cardinality(Seen(n, age))
        BY <2>1, <2>4
      <3>5. CASE ages[n + 1] <= age
        <4>1. ages[n + 1] < limit
          BY <2>1, <2>4, <3>5
        <4>2. Count(f[n + 1], age) = Count(f[n], age) + 1
          BY <2>1, <2>2, <2>3, <3>5, <4>1, CountAppend
        <4> QED BY <3>1, <3>3, <3>4, <3>5, <4>2
      <3>6. CASE ~(ages[n + 1] <= age)
        <4>1. Count(f[n + 1], age) = Count(f[n], age)
          BY <2>1, <2>2, <2>3, <3>6, CountAppend
        <4> QED BY <3>1, <3>4, <3>6, <4>1
      <3> QED BY <3>5, <3>6
    <2> QED BY <2>3, <2>4
  <1>6. Len(ages) \in T
    <2> HIDE DEF T
    <2> QED BY <1>2, <1>4, <1>5, Induction
  <1>7. \A age \in Int : Count(ages, age) = Cardinality(Seen(Len(ages), age))
    BY <1>2, Zenon DEF Count
  <1>8. /\ f[Len(ages)] \in Seq(Young)
        /\ \A age \in Int : age < limit => Count(f[Len(ages)], age) = Cardinality(Seen(Len(ages), age))
    <2> HIDE DEF Young, Seen
    <2> QED BY <1>2, <1>6
  <1> HIDE DEF Seen
  <1> QED BY <1>1, <1>7, <1>8
=============================================================================
