------------------------ MODULE PeachRegistryProofs -------------------------
(***************************************************************************)
(* The counters of PeachRegistry are the sums over all streams, however    *)
(* many there are.  First what a sum over the streams is and how it        *)
(* changes with one term; then one lemma per entry point.                  *)
(***************************************************************************)
EXTENDS PeachStreamProofs, PeachRegistry, FiniteSetTheorems

----------------------------------------------------------------------------
(* Sums over all streams.  Total folds over the set of streams in the order of  *)
(* CHOOSE.  That this recursion defines a function, and what changes of its     *)
(* value when one term changes, is proved on the smallest set for which it      *)
(* would fail.                                                                  *)

\* The element that a sum over T takes first.
First(T) == CHOOSE x \in T : TRUE

\* it has, for every subset of U, the sum of f over it.
Sums(f, U, it) ==
    it = [T \in SUBSET U |-> IF T = {} THEN 0 ELSE f[First(T)] + it[T \ {First(T)}]]

Partial(f) == CHOOSE it : Sums(f, Streams, it)

\* Induction over the sets of streams: if some of them are bad, one of these has only
\* good proper subsets.
LEMMA LeastBad ==
    ASSUME NEW Bad \in SUBSET (SUBSET Streams), Bad # {}
    PROVE  \E T \in Bad : \A U \in SUBSET T : U # T => U \notin Bad
<1>1. IsWellFoundedOn(StrictSubsetOrdering(Streams), SUBSET Streams)
  BY FiniteStreamsAssumption, FS_StrictSubsetOrderingWellFounded, FS_FiniteSubsetsOfFinite, Zenon
<1>2. PICK T \in Bad : \A U \in Bad : ~ (<<U, T>> \in StrictSubsetOrdering(Streams))
  BY <1>1, WFMin, Zenon
<1>3. ASSUME NEW U \in SUBSET T, U # T, U \in Bad
      PROVE  FALSE
  <2>1. <<U, T>> \in StrictSubsetOrdering(Streams)
    BY <1>3, Zenon DEF StrictSubsetOrdering
  <2>. QED BY <1>2, <1>3, <2>1, Zenon
<1>. QED  BY <1>3, Zenon

\* A nonempty set is larger than what is left without its first element.
LEMMA FirstOf ==
    ASSUME NEW T, T # {}
    PROVE  First(T) \in T /\ T \ {First(T)} \in SUBSET T /\ T \ {First(T)} # T
<1>1. First(T) \in T
  BY Zenon DEF First
<1>. QED BY <1>1, Zenon

\* The sum over a nonempty set is its first term and the sum over the rest.
LEMMA SumsAt ==
    ASSUME NEW f, NEW U, NEW it, Sums(f, U, it), NEW T \in SUBSET U, T # {}
    PROVE  it[T] = f[First(T)] + it[T \ {First(T)}]
<1>1. it[T] = IF T = {} THEN 0 ELSE f[First(T)] + it[T \ {First(T)}]
  BY Zenon DEF Sums
<1>. QED  BY <1>1, Zenon

\* The sum over no streams.
LEMMA SumsAtEmpty ==
    ASSUME NEW f, NEW U, NEW it, Sums(f, U, it)
    PROVE  it[{}] = 0
<1>1. {} \in SUBSET U
  BY Zenon
<1>. QED  BY <1>1, Zenon DEF Sums

\* Two tables of sums agree where both are defined.
LEMMA SumsAgree ==
    ASSUME NEW f, NEW U \in SUBSET Streams, NEW V \in SUBSET Streams, NEW g, NEW h,
           Sums(f, U, g), Sums(f, V, h), NEW T \in SUBSET (U \cap V)
    PROVE  g[T] = h[T]
<1>. DEFINE Bad == {W \in SUBSET (U \cap V) : g[W] # h[W]}
<1>1. SUFFICES ASSUME Bad # {} PROVE FALSE
  BY Zenon
<1>2. PICK W \in Bad : \A X \in SUBSET W : X # W => X \notin Bad
  <2>1. Bad \in SUBSET (SUBSET Streams)
    BY Zenon
  <2>. HIDE DEF Bad
  <2>. QED  BY <1>1, <2>1, LeastBad, Zenon
<1>3. W \in SUBSET U /\ W \in SUBSET V /\ g[W] # h[W]
  BY Zenon
<1>4. W # {}
  BY <1>3, SumsAtEmpty, Zenon
<1>5. g[W \ {First(W)}] = h[W \ {First(W)}]
  <2>1. W \ {First(W)} \in SUBSET W /\ W \ {First(W)} # W
    BY <1>4, FirstOf, Zenon
  <2>. QED  BY <1>2, <1>3, <2>1, Zenon
<1>6. /\ g[W] = f[First(W)] + g[W \ {First(W)}]
      /\ h[W] = f[First(W)] + h[W \ {First(W)}]
  BY <1>3, <1>4, SumsAt
<1>. QED  BY <1>3, <1>5, <1>6, Zenon

\* There is a table of sums for every set of streams.
LEMMA SumsExist ==
    ASSUME NEW f, NEW V \in SUBSET Streams
    PROVE  \E it : Sums(f, V, it)
<1>. DEFINE Bad == {W \in SUBSET Streams : ~ \E it : Sums(f, W, it)}
<1>1. SUFFICES ASSUME Bad # {} PROVE FALSE
  BY Zenon
<1>2. PICK U \in Bad : \A X \in SUBSET U : X # U => X \notin Bad
  <2>1. Bad \in SUBSET (SUBSET Streams)
    BY Zenon
  <2>. HIDE DEF Bad
  <2>. QED  BY <1>1, <2>1, LeastBad, Zenon
<1>. DEFINE Of(W) == (CHOOSE it : Sums(f, W, it))[W]
            Rest(T) == T \ {First(T)}
            it == [T \in SUBSET U |-> IF T = {} THEN 0 ELSE f[First(T)] + Of(Rest(T))]
<1>3. ASSUME NEW W \in SUBSET U, W # U
      PROVE  Sums(f, W, CHOOSE g : Sums(f, W, g))
  <2>1. \E g : Sums(f, W, g)
    BY <1>2, <1>3, Zenon
  <2>. QED BY <2>1, Zenon
<1>4. ASSUME NEW W \in SUBSET U, W # U
      PROVE  it[W] = Of(W)
  <2>. DEFINE g == CHOOSE g : Sums(f, W, g)
  <2>1. Sums(f, W, g)
    BY <1>3, <1>4, Zenon
  <2>. HIDE DEF g
  <2>2. CASE W = {}
    <3>1. g[W] = 0
      BY <2>1, <2>2, SumsAtEmpty, Zenon
    <3>. QED BY <2>2, <3>1, Zenon DEF g
  <2>3. CASE W # {}
    <3>1. Rest(W) \in SUBSET W /\ Rest(W) \in SUBSET U /\ Rest(W) # U /\ First(W) \in W
      BY <1>4, <2>3, FirstOf, Zenon
    <3>. DEFINE h == CHOOSE h : Sums(f, Rest(W), h)
    <3>2. Sums(f, Rest(W), h)
      BY <3>1, <1>3, Zenon
    <3>. HIDE DEF h
    <3>3. g[Rest(W)] = h[Rest(W)]
      <4>. DEFINE R == Rest(W)
      <4>1. R \in SUBSET Streams /\ W \in SUBSET Streams /\ R \in SUBSET (W \cap R)
        BY <3>1, Zenon
      <4>2. Sums(f, R, h)
        BY <3>2, Zenon
      <4>. HIDE DEF R
      <4>3. g[R] = h[R]
        BY <2>1, <4>1, <4>2, SumsAgree
      <4>. QED BY <4>3, Zenon DEF R
    <3>4. g[W] = f[First(W)] + g[Rest(W)]
      <4>1. W \in SUBSET W
        BY Zenon
      <4>2. g[W] = f[First(W)] + g[W \ {First(W)}]
        BY <2>1, <2>3, <4>1, SumsAt
      <4>. QED BY <4>2, Zenon
    <3>5. it[W] = f[First(W)] + h[Rest(W)]
      BY <2>3, Zenon DEF h
    <3>. QED BY <3>3, <3>4, <3>5, Zenon DEF g
  <2>. QED BY <2>2, <2>3, Zenon
<1>5. Sums(f, U, it)
  <2>1. ASSUME NEW T \in SUBSET U, T # {}
        PROVE  Of(Rest(T)) = it[Rest(T)]
    <3>1. Rest(T) \in SUBSET U /\ Rest(T) # U
      BY <2>1, FirstOf, Zenon
    <3>. QED BY <3>1, <1>4, Zenon
  <2>2. it = [T \in SUBSET U |-> IF T = {} THEN 0 ELSE f[First(T)] + it[Rest(T)]]
    <3>. HIDE DEF Of, Rest
    <3>. QED BY <2>1, Zenon
  <2>. HIDE DEF it
  <2>. QED BY <2>2, Zenon DEF Sums
<1>. QED BY <1>2, <1>5, Zenon

\* The table behind Total has the sums.
LEMMA PartialSums ==
    ASSUME NEW f
    PROVE  Sums(f, Streams, Partial(f)) /\ Total(f) = Partial(f)[Streams]
<1>1. \E it : Sums(f, Streams, it)
  BY SumsExist, Zenon
<1>2. Sums(f, Streams, Partial(f))
  BY <1>1, Zenon DEF Partial
<1>3. Total(f) = Partial(f)[Streams]
  BY Zenon DEF Total, MapThenSumSet, MapThenFoldSet, Partial, Sums, First
<1>. QED  BY <1>2, <1>3, Zenon

\* Sums of naturals are naturals.
LEMMA PartialIsNat ==
    ASSUME NEW f \in [Streams -> Nat], NEW T \in SUBSET Streams
    PROVE  Partial(f)[T] \in Nat
<1>. DEFINE p == Partial(f)
            Bad == {W \in SUBSET Streams : p[W] \notin Nat}
<1>. HIDE DEF p
<1>1. SUFFICES ASSUME Bad # {} PROVE FALSE
  BY Zenon DEF p
<1>2. PICK W \in Bad : \A X \in SUBSET W : X # W => X \notin Bad
  <2>1. Bad \in SUBSET (SUBSET Streams)
    BY Zenon
  <2>. HIDE DEF Bad
  <2>. QED  BY <1>1, <2>1, LeastBad, Zenon
<1>3. W \in SUBSET Streams /\ Sums(f, Streams, p) /\ p[W] \notin Nat
  BY PartialSums, Zenon DEF p
<1>4. W # {} /\ p[W] = f[First(W)] + p[W \ {First(W)}]
  <2>1. W # {}
    BY <1>3, SumsAtEmpty
  <2>. QED  BY <1>3, <2>1, SumsAt
<1>5. /\ First(W) \in Streams
      /\ p[W \ {First(W)}] \in Nat
  <2>1. First(W) \in W /\ W \ {First(W)} \in SUBSET W /\ W \ {First(W)} # W
    BY <1>4, FirstOf, Zenon
  <2>. QED  BY <1>2, <2>1, Zenon
<1>. QED  BY <1>3, <1>4, <1>5

\* Tables that agree on T have the same sum over it.
LEMMA SameSum ==
    ASSUME NEW f, NEW g, NEW T \in SUBSET Streams, \A x \in T : f[x] = g[x]
    PROVE  Partial(f)[T] = Partial(g)[T]
<1>. DEFINE p == Partial(f)
            q == Partial(g)
            Bad == {W \in SUBSET T : p[W] # q[W]}
<1>0. Sums(f, Streams, p) /\ Sums(g, Streams, q)
  BY PartialSums, Zenon
<1>. HIDE DEF p, q
<1>1. SUFFICES ASSUME Bad # {} PROVE FALSE
  BY Zenon DEF p, q
<1>2. PICK W \in Bad : \A X \in SUBSET W : X # W => X \notin Bad
  <2>1. Bad \in SUBSET (SUBSET Streams)
    BY Zenon
  <2>. HIDE DEF Bad
  <2>. QED  BY <1>1, <2>1, LeastBad, Zenon
<1>3. W \in SUBSET Streams /\ p[W] # q[W]
  BY Zenon
<1>4. /\ W # {}
      /\ p[W] = f[First(W)] + p[W \ {First(W)}]
      /\ q[W] = g[First(W)] + q[W \ {First(W)}]
  <2>1. W # {}
    BY <1>0, <1>3, SumsAtEmpty, Zenon
  <2>2. p[W] = f[First(W)] + p[W \ {First(W)}]
    BY <1>0, <1>3, <2>1, SumsAt
  <2>3. q[W] = g[First(W)] + q[W \ {First(W)}]
    BY <1>0, <1>3, <2>1, SumsAt
  <2>. QED  BY <2>1, <2>2, <2>3, Zenon
<1>5. /\ f[First(W)] = g[First(W)]
      /\ p[W \ {First(W)}] = q[W \ {First(W)}]
  <2>1. First(W) \in W /\ W \ {First(W)} \in SUBSET W /\ W \ {First(W)} # W
    BY <1>4, FirstOf, Zenon
  <2>. QED  BY <1>2, <2>1, Zenon
<1>. QED  BY <1>3, <1>4, <1>5, Zenon

\* One term of a sum replaced.
LEMMA OneTerm ==
    ASSUME NEW f \in [Streams -> Nat], NEW g \in [Streams -> Nat],
           NEW s \in Streams, \A x \in Streams \ {s} : f[x] = g[x],
           NEW T \in SUBSET Streams, s \in T
    PROVE  Partial(g)[T] + f[s] = Partial(f)[T] + g[s]
<1>. DEFINE p == Partial(f)
            q == Partial(g)
            Bad == {W \in SUBSET Streams : s \in W /\ q[W] + f[s] # p[W] + g[s]}
<1>0. /\ Sums(f, Streams, p) /\ Sums(g, Streams, q)
      /\ \A W \in SUBSET Streams : p[W] \in Nat /\ q[W] \in Nat
      /\ \A W \in SUBSET Streams : s \notin W => p[W] = q[W]
  <2>1. Sums(f, Streams, p) /\ Sums(g, Streams, q)
    BY PartialSums, Zenon
  <2>2. \A W \in SUBSET Streams : p[W] \in Nat /\ q[W] \in Nat
    BY PartialIsNat, Zenon
  <2>3. ASSUME NEW W \in SUBSET Streams, s \notin W PROVE p[W] = q[W]
    <3>1. \A x \in W : f[x] = g[x]
      BY <2>3, Zenon
    <3>. QED  BY <3>1, SameSum, Zenon
  <2>. QED BY <2>1, <2>2, <2>3, Zenon
<1>. HIDE DEF p, q
<1>1. SUFFICES ASSUME Bad # {} PROVE FALSE
  BY Zenon DEF p, q
<1>2. PICK W \in Bad : \A X \in SUBSET W : X # W => X \notin Bad
  <2>1. Bad \in SUBSET (SUBSET Streams)
    BY Zenon
  <2>. HIDE DEF Bad
  <2>. QED  BY <1>1, <2>1, LeastBad, Zenon
<1>. DEFINE x == First(W)
            R == W \ {x}
<1>3. W # {} /\ W \in SUBSET Streams /\ s \in W /\ q[W] + f[s] # p[W] + g[s]
  BY Zenon
<1>. HIDE DEF Bad
<1>4. /\ p[W] = f[x] + p[R]
      /\ q[W] = g[x] + q[R]
  <2>1. p[W] = f[x] + p[R]
    <3>1. Sums(f, Streams, p) /\ W \in SUBSET Streams /\ W # {}
      BY <1>0, <1>3, Zenon
    <3>. QED  BY <3>1, SumsAt
  <2>2. q[W] = g[x] + q[R]
    <3>1. Sums(g, Streams, q) /\ W \in SUBSET Streams /\ W # {}
      BY <1>0, <1>3, Zenon
    <3>. QED  BY <3>1, SumsAt
  <2>. QED  BY <2>1, <2>2, Zenon
<1>5. x \in W /\ R \in SUBSET W /\ R # W
  BY <1>3, FirstOf, Zenon
<1>6. /\ p[R] \in Nat /\ q[R] \in Nat
      /\ f[x] \in Nat /\ g[x] \in Nat /\ f[s] \in Nat /\ g[s] \in Nat
  <2>1. R \in SUBSET Streams /\ x \in Streams
    BY <1>3, <1>5, Zenon
  <2>. HIDE DEF R, x
  <2>. QED BY <1>0, <2>1, Zenon
<1>7. CASE x = s
  <2>1. p[R] = q[R]
    BY <1>0, <1>3, <1>7, Zenon
  <2>. HIDE DEF R, x
  <2>. QED  BY <1>3, <1>4, <1>6, <1>7, <2>1
<1>8. CASE x # s
  <2>1. q[R] + f[s] = p[R] + g[s]
    BY <1>2, <1>3, <1>5, <1>8, Zenon DEF Bad
  <2>2. f[x] = g[x]
    BY <1>3, <1>5, <1>8, Zenon
  <2>. HIDE DEF R, x
  <2>3. (g[x] + q[R]) + f[s] = (f[x] + p[R]) + g[s]
    BY <1>6, <2>1, <2>2
  <2>. QED  BY <1>3, <1>4, <2>3, Zenon
<1>. QED  BY <1>7, <1>8, Zenon

\* What changes of a total when one entry changes.
LEMMA TotalUpdate ==
    ASSUME NEW f \in [Streams -> Nat], NEW s \in Streams, NEW v \in Nat
    PROVE  /\ Total(f) \in Nat
           /\ Total([f EXCEPT ![s] = v]) + f[s] = Total(f) + v
<1>. DEFINE g == [f EXCEPT ![s] = v]
<1>1. g \in [Streams -> Nat] /\ g[s] = v /\ \A x \in Streams \ {s} : f[x] = g[x]
  BY Zenon
<1>. HIDE DEF g
<1>2. Partial(g)[Streams] + f[s] = Partial(f)[Streams] + g[s]
  BY <1>1, OneTerm
<1>3. Total(f) = Partial(f)[Streams] /\ Total(g) = Partial(g)[Streams]
  BY PartialSums, Zenon
<1>4. Total(f) \in Nat
  BY <1>3, PartialIsNat, Zenon
<1>. QED  BY <1>1, <1>2, <1>3, <1>4, Zenon DEF g

\* A total of zeros.
LEMMA TotalOfZeros == Total([s \in Streams |-> 0]) = 0
<1>. DEFINE f == [s \in Streams |-> 0]
            p == Partial(f)
            Bad == {W \in SUBSET Streams : p[W] # 0}
<1>0. Sums(f, Streams, p) /\ Total(f) = p[Streams] /\ \A x \in Streams : f[x] = 0
  BY PartialSums, Zenon
<1>. HIDE DEF p, f
<1>1. SUFFICES ASSUME Bad # {} PROVE FALSE
  BY <1>0, Zenon DEF f
<1>2. PICK W \in Bad : \A X \in SUBSET W : X # W => X \notin Bad
  <2>1. Bad \in SUBSET (SUBSET Streams)
    BY Zenon
  <2>. HIDE DEF Bad
  <2>. QED  BY <1>1, <2>1, LeastBad, Zenon
<1>3. W \in SUBSET Streams /\ p[W] # 0
  BY Zenon
<1>4. W # {} /\ p[W] = f[First(W)] + p[W \ {First(W)}]
  <2>1. W # {}
    BY <1>0, <1>3, SumsAtEmpty, Zenon
  <2>. QED  BY <1>0, <1>3, <2>1, SumsAt
<1>5. /\ f[First(W)] = 0
      /\ p[W \ {First(W)}] = 0
  <2>1. First(W) \in W /\ W \ {First(W)} \in SUBSET W /\ W \ {First(W)} # W
    BY <1>4, FirstOf, Zenon
  <2>. QED  BY <1>0, <1>2, <2>1, Zenon
<1>. QED  BY <1>3, <1>4, <1>5

----------------------------------------------------------------------------
(* The registry's totals *)

\* What a call about stream s must do to the registry's counters for the totals to
\* stay right: count the record if it is new, add what its amount and its fees grew by.
LEMMA TotalsStep ==
    ASSUME TypeOK, TypeOK', RegistryTotals, NEW s \in Streams,
           \A t \in Streams \ {s} : record'[t] = record[t] /\ ledger'[t] = ledger[t],
           record'[s].status # RECORD_NONE,
           registry'.total_streams
             = registry.total_streams + IF record[s].status = RECORD_NONE THEN 1 ELSE 0,
           registry'.total_volume + record[s].total_amount
             = registry.total_volume + record'[s].total_amount,
           registry'.fee_treasury + registry'.fees_withdrawn + ledger[s].sui_fees
             = registry.fee_treasury + registry.fees_withdrawn + ledger'[s].sui_fees
    PROVE  RegistryTotals'
<1>. DEFINE Known == {t \in Streams : record[t].status # RECORD_NONE}
            amounts == [t \in Streams |-> record[t].total_amount]
            fees == [t \in Streams |-> ledger[t].sui_fees]
            amount == record'[s].total_amount
            fee == ledger'[s].sui_fees
<1>1. /\ record[s].total_amount \in Nat /\ amount \in Nat
      /\ ledger[s].sui_fees \in Nat /\ fee \in Nat
      /\ amounts \in [Streams -> Nat] /\ fees \in [Streams -> Nat]
  BY Zenon DEF TypeOK, RecordType, LedgerType
<1>2. /\ registry.total_streams \in Nat /\ registry'.total_streams \in Nat
      /\ registry.total_volume \in Nat /\ registry'.total_volume \in Nat
      /\ registry.fee_treasury + registry.fees_withdrawn \in Nat
      /\ registry'.fee_treasury + registry'.fees_withdrawn \in Nat
  BY DEF TypeOK, RegistryType
<1>3. registry'.total_streams = Cardinality(Known')
  <2>1. Known' = Known \cup {s}
    BY Zenon
  <2>2. s \in Known <=> record[s].status # RECORD_NONE
    BY Zenon
  <2>3. IsFiniteSet(Known)
    BY FiniteStreamsAssumption, FS_Subset, Zenon
  <2>4. registry.total_streams = Cardinality(Known)
    BY Zenon DEF RegistryTotals
  <2>. HIDE DEF Known
  <2>5. Cardinality(Known \cup {s})
          = IF s \in Known THEN Cardinality(Known) ELSE Cardinality(Known) + 1
    BY <2>3, FS_AddElement, Zenon
  <2>6. CASE s \in Known
    BY <1>2, <2>1, <2>2, <2>4, <2>5, <2>6
  <2>7. CASE s \notin Known
    BY <1>2, <2>1, <2>2, <2>4, <2>5, <2>7, Zenon
  <2>. QED  BY <2>6, <2>7, Zenon
<1>4. registry'.total_volume = Total([t \in Streams |-> record'[t].total_amount])
  <2>1. [t \in Streams |-> record'[t].total_amount] = [amounts EXCEPT ![s] = amount]
    BY Zenon
  <2>2. registry.total_volume = Total(amounts) /\ amounts[s] = record[s].total_amount
    BY Zenon DEF RegistryTotals
  <2>. HIDE DEF amounts, amount
  <2>3. /\ Total(amounts) \in Nat /\ Total([amounts EXCEPT ![s] = amount]) \in Nat
        /\ Total([amounts EXCEPT ![s] = amount]) + amounts[s] = Total(amounts) + amount
    BY <1>1, TotalUpdate, Zenon
  <2>4. registry'.total_volume + amounts[s] = Total(amounts) + amount
    BY <2>2, Zenon DEF amount
  <2>. QED  BY <1>1, <1>2, <2>1, <2>2, <2>3, <2>4
<1>5. registry'.fee_treasury + registry'.fees_withdrawn
        = Total([t \in Streams |-> ledger'[t].sui_fees])
  <2>1. [t \in Streams |-> ledger'[t].sui_fees] = [fees EXCEPT ![s] = fee]
    BY Zenon
  <2>2. /\ registry.fee_treasury + registry.fees_withdrawn = Total(fees)
        /\ fees[s] = ledger[s].sui_fees
    BY Zenon DEF RegistryTotals
  <2>. HIDE DEF fees, fee
  <2>3. /\ Total(fees) \in Nat /\ Total([fees EXCEPT ![s] = fee]) \in Nat
        /\ Total([fees EXCEPT ![s] = fee]) + fees[s] = Total(fees) + fee
    BY <1>1, TotalUpdate, Zenon
  <2>4. registry'.fee_treasury + registry'.fees_withdrawn + fees[s] = Total(fees) + fee
    BY <2>2, Zenon DEF fee
  <2>. QED  BY <1>1, <1>2, <2>1, <2>2, <2>3, <2>4
<1>. HIDE DEF amounts, fees
<1>. QED  BY <1>3, <1>4, <1>5, Zenon DEF RegistryTotals

\* The case of a call that neither registers a stream nor collects a fee.
LEMMA TotalsKept ==
    ASSUME TypeOK, TypeOK', RegistryTotals, NEW s \in Streams,
           \A t \in Streams \ {s} : record'[t] = record[t] /\ ledger'[t] = ledger[t],
           record[s].status # RECORD_NONE, record'[s].status # RECORD_NONE,
           record'[s].total_amount = record[s].total_amount,
           ledger'[s].sui_fees = ledger[s].sui_fees,
           registry' = registry
    PROVE  RegistryTotals'
<1>1. /\ registry.total_streams \in Nat
      /\ registry.total_streams
           = registry.total_streams + IF record[s].status = RECORD_NONE THEN 1 ELSE 0
  BY DEF TypeOK, RegistryType
<1>. QED  BY <1>1, TotalsStep, Zenon

\* create_stream registers the stream: one record more, with the deposit as its amount.
LEMMA CreateTotals ==
    ASSUME IndInv, IndInv', RegistryTotals, NEW s \in Streams, NEW o \in Offers,
           NEW sender \in Accounts, create_stream(s, o, sender)
    PROVE  RegistryTotals'
<1>1. /\ TypeOK /\ TypeOK' /\ record \in [Streams -> RecordType]
      /\ registry \in RegistryType /\ ledger' = ledger /\ record[s].status = RECORD_NONE
      /\ o.deposit \in Nat
  BY OfferAssumption, Zenon DEF IndInv, TypeOK, create_stream, register_stream
<1>2. record[s].total_amount = 0
  BY <1>1, IndInvPerStream, EmptyFields, Zenon DEF StreamInvAt, StreamInv, Bookkept
<1>3. /\ record'[s].status = STATUS_ACTIVE /\ record'[s].total_amount = o.deposit
      /\ \A t \in Streams \ {s} : record'[t] = record[t]
  BY <1>1, Zenon DEF create_stream, register_stream, NoRecord
<1>4. /\ registry'.total_streams = registry.total_streams + 1
      /\ registry'.total_volume = registry.total_volume + o.deposit
      /\ registry'.fee_treasury = registry.fee_treasury
      /\ registry'.fees_withdrawn = registry.fees_withdrawn
  BY <1>1, Zenon DEF create_stream, register_stream, RegistryType
<1>5. /\ registry.total_volume \in Nat /\ registry.total_streams \in Nat
      /\ registry'.total_volume + 0 = registry.total_volume + o.deposit
  BY <1>1, <1>4 DEF RegistryType
<1>. QED
  BY <1>1, <1>2, <1>3, <1>4, <1>5, TotalsStep, Zenon DEF RECORD_NONE, STATUS_ACTIVE

\* A live stream has a record.
LEMMA LiveIsRecorded ==
    ASSUME IndInv, NEW s \in Streams, s \in live
    PROVE  record[s].status # RECORD_NONE
<1>1. RecordMatches(s \in live, stream[s], vault[s], record[s], ledger[s])
  BY Zenon DEF IndInv, RecordMatchesObject
<1>. QED
  BY <1>1, Zenon DEF RecordMatches, RECORD_NONE, STATUS_ACTIVE, STATUS_COMPLETED

\* A tranche sells SUI to the pool: no fee, no change to any record.
LEMMA HedgeTotals ==
    ASSUME IndInv, IndInv', RegistryTotals, NEW s \in Streams, NEW guard,
           \/ initiate_hedge(s, guard)
           \/ execute_tranche(s, guard)
           \/ fallback_hedge_trigger(s, guard)
    PROVE  RegistryTotals'
<1>1. s \in live /\ \E st, is_fallback : execute_tranche_internal(s, st, guard, is_fallback)
  BY Zenon DEF initiate_hedge, execute_tranche, fallback_hedge_trigger
<1>2. PICK st, swap, bounty :
        /\ ledger' = [ledger EXCEPT ![s] = pay_tranche(ledger[s], st, swap, bounty)]
        /\ record' = record /\ registry' = registry
  BY <1>1, Zenon DEF execute_tranche_internal
<1>3. TypeOK /\ TypeOK' /\ ledger \in [Streams -> LedgerType]
  BY Zenon DEF IndInv, TypeOK
<1>4. /\ \A t \in Streams \ {s} : ledger'[t] = ledger[t]
      /\ ledger'[s].sui_fees = ledger[s].sui_fees
  <2>1. pay_tranche(ledger[s], st, swap, bounty).sui_fees = ledger[s].sui_fees
    BY <1>3, Zenon DEF pay_tranche, LedgerType
  <2>2. /\ ledger'[s] = pay_tranche(ledger[s], st, swap, bounty)
        /\ \A t \in Streams \ {s} : ledger'[t] = ledger[t]
    BY <1>2, <1>3, Zenon
  <2>. QED  BY <2>1, <2>2, Zenon
<1>. QED  BY <1>1, <1>2, <1>3, <1>4, LiveIsRecorded, TotalsKept, Zenon

\* A claim puts into the treasury exactly the fee it takes from the stream.
LEMMA ClaimTotals ==
    ASSUME IndInv, IndInv', RegistryTotals, NEW s \in Streams, claim_stream(s)
    PROVE  RegistryTotals'
<1>. DEFINE claimable == newly_vested(stream[s], clock)
            charged == calculate_fee(claimable, stream[s].total_amount, spot_price,
                                     stream[s].strike_price, stream[s].hedge_direction)
            fee == IF stream[s].balance >= charged THEN charged ELSE 0
<1>0. fee \in Nat
  <2>1. claimable \in Nat
    BY LiveStream, Claimable, Zenon DEF claim_stream
  <2>. HIDE DEF claimable
  <2>. QED  BY <2>1, FeeBound, Zenon
<1>1. PICK st, sui, usdc, swap : finish_claim(s, st, fee, sui, usdc, swap)
  BY Zenon DEF claim_stream, claim_healthy, claim_fully_hedged, claim_twap_active
<1>. HIDE DEF fee
<1>2. /\ TypeOK /\ TypeOK' /\ ledger \in [Streams -> LedgerType] /\ s \in live
      /\ record \in [Streams -> RecordType] /\ registry \in RegistryType
  BY Zenon DEF IndInv, TypeOK, claim_stream
<1>3. /\ record'[s] \in {record[s], record_completion(record[s], st.total_amount)}
      /\ ledger'[s] = pay(ledger[s], fee, sui, usdc, swap)
      /\ \A t \in Streams \ {s} : record'[t] = record[t] /\ ledger'[t] = ledger[t]
  BY <1>1, <1>2, Zenon DEF finish_claim
<1>4. /\ record'[s].total_amount = record[s].total_amount
      /\ record[s].status # RECORD_NONE /\ record'[s].status # RECORD_NONE
      /\ ledger'[s].sui_fees = ledger[s].sui_fees + fee
  <2>1. record[s] \in RecordType /\ ledger[s] \in LedgerType /\ record[s].status # RECORD_NONE
    BY <1>2, LiveIsRecorded, Zenon
  <2>2. ledger'[s].sui_fees = ledger[s].sui_fees + fee
    BY <1>3, <2>1, Zenon DEF pay, LedgerType
  <2>3. /\ record_completion(record[s], st.total_amount).total_amount = record[s].total_amount
        /\ record_completion(record[s], st.total_amount).status = STATUS_COMPLETED
    BY <2>1, Zenon DEF record_completion, RecordType
  <2>. QED  BY <1>3, <2>1, <2>2, <2>3 DEF RECORD_NONE, STATUS_COMPLETED
<1>5. /\ registry'.fee_treasury = registry.fee_treasury + fee
      /\ registry'.total_streams = registry.total_streams
      /\ registry'.total_volume = registry.total_volume
      /\ registry'.fees_withdrawn = registry.fees_withdrawn
  BY <1>1, <1>2, Zenon DEF finish_claim, deposit_fee, RegistryType
<1>6. /\ registry.total_streams \in Nat /\ registry.total_volume \in Nat
      /\ registry.fee_treasury \in Nat /\ registry'.fee_treasury \in Nat
      /\ registry.fees_withdrawn \in Nat
      /\ ledger[s].sui_fees \in Nat /\ ledger'[s].sui_fees \in Nat
  BY <1>2, Zenon DEF TypeOK, RegistryType, LedgerType
<1>. QED
  <2>1. registry.total_streams
          = registry.total_streams + IF record[s].status = RECORD_NONE THEN 1 ELSE 0
    BY <1>4, <1>6
  <2>2. registry'.fee_treasury + registry'.fees_withdrawn + ledger[s].sui_fees
          = registry.fee_treasury + registry.fees_withdrawn + ledger'[s].sui_fees
    BY <1>0, <1>4, <1>5, <1>6
  <2>. QED  BY <1>2, <1>3, <1>4, <1>5, <2>1, <2>2, TotalsStep, Zenon

\* A cancellation takes no fee and keeps the amount of the record it closes.
LEMMA CancelTotals ==
    ASSUME IndInv, IndInv', RegistryTotals, NEW s \in Streams, NEW caller,
           cancel_stream(s, caller)
    PROVE  RegistryTotals'
<1>1. PICK sui, usdc, swap : finish_cancel(s, sui, usdc, swap)
  BY Zenon DEF cancel_stream
<1>2. /\ TypeOK /\ TypeOK' /\ ledger \in [Streams -> LedgerType] /\ s \in live
      /\ record \in [Streams -> RecordType] /\ registry' = registry
  BY <1>1, Zenon DEF IndInv, TypeOK, cancel_stream, finish_cancel
<1>3. PICK x, y : /\ record' = [record EXCEPT ![s] = record_cancellation(record[s], x, y)]
                  /\ ledger' = [ledger EXCEPT ![s] = pay(ledger[s], 0, sui, usdc, swap)]
  BY <1>1, Zenon DEF finish_cancel
<1>4. /\ record'[s] = record_cancellation(record[s], x, y)
      /\ ledger'[s] = pay(ledger[s], 0, sui, usdc, swap)
      /\ \A t \in Streams \ {s} : record'[t] = record[t] /\ ledger'[t] = ledger[t]
  BY <1>2, <1>3, Zenon
<1>5. /\ record'[s].total_amount = record[s].total_amount
      /\ record[s].status # RECORD_NONE /\ record'[s].status # RECORD_NONE
      /\ ledger'[s].sui_fees = ledger[s].sui_fees + 0
  <2>1. record[s] \in RecordType /\ ledger[s] \in LedgerType /\ record[s].status # RECORD_NONE
    BY <1>2, LiveIsRecorded, Zenon
  <2>2. ledger'[s].sui_fees = ledger[s].sui_fees + 0
    BY <1>4, <2>1, Zenon DEF pay, LedgerType
  <2>3. /\ record_cancellation(record[s], x, y).total_amount = record[s].total_amount
        /\ record_cancellation(record[s], x, y).status = STATUS_CANCELED
    BY <2>1, Zenon DEF record_cancellation, RecordType
  <2>. QED  BY <1>4, <2>1, <2>2, <2>3, Zenon DEF RECORD_NONE, STATUS_CANCELED
<1>6. ledger'[s].sui_fees = ledger[s].sui_fees
  <2>1. ledger[s].sui_fees \in Nat
    BY <1>2, Zenon DEF LedgerType
  <2>. QED  BY <1>5, <2>1
<1>. QED  BY <1>2, <1>4, <1>5, <1>6, TotalsKept, Zenon

\* Dissolving a vault moves coins of a stream that the registry knows as CANCELED.
LEMMA DissolveTotals ==
    ASSUME IndInv, IndInv', RegistryTotals, NEW s \in Streams, NEW caller,
           dissolve_salvage_vault(s, caller)
    PROVE  RegistryTotals'
<1>1. /\ TypeOK /\ TypeOK' /\ ledger \in [Streams -> LedgerType]
      /\ record' = record /\ registry' = registry
      /\ ledger' = [ledger EXCEPT ![s] = refund(ledger[s], vault[s])]
      /\ record[s].status = STATUS_CANCELED
  BY Zenon DEF IndInv, TypeOK, dissolve_salvage_vault, RecordMatchesObject, RecordMatches
<1>2. /\ \A t \in Streams \ {s} : ledger'[t] = ledger[t]
      /\ ledger'[s].sui_fees = ledger[s].sui_fees
  <2>1. refund(ledger[s], vault[s]).sui_fees = ledger[s].sui_fees
    BY <1>1, Zenon DEF refund, LedgerType
  <2>2. /\ ledger'[s] = refund(ledger[s], vault[s])
        /\ \A t \in Streams \ {s} : ledger'[t] = ledger[t]
    BY <1>1, Zenon
  <2>. QED  BY <2>1, <2>2, Zenon
<1>. QED  BY <1>1, <1>2, TotalsKept, Zenon DEF RECORD_NONE, STATUS_CANCELED

\* Every step keeps the totals.
LEMMA NextTotals ==
    ASSUME IndInv, IndInv', RegistryTotals, [Next]_vars
    PROVE  RegistryTotals'
<1>1. ASSUME NEW s \in Streams, StreamStep(s) PROVE RegistryTotals'
  BY <1>1, CreateTotals, HedgeTotals, ClaimTotals, CancelTotals, DissolveTotals, Zenon
  DEF StreamStep
<1>2. ASSUME NEW amount \in WithdrawAmounts, withdraw_fees(amount) PROVE RegistryTotals'
  <2>. DEFINE treasury == registry.fee_treasury
              taken == IF amount = 0 \/ amount > treasury THEN treasury ELSE amount
              rest == treasury - taken
              gone == registry.fees_withdrawn + taken
  <2>1. registry \in RegistryType /\ amount \in Nat
    BY EnvironmentAssumption, Zenon DEF IndInv, TypeOK
  <2>2. rest + gone = registry.fee_treasury + registry.fees_withdrawn
    BY <2>1 DEF RegistryType
  <2>3. /\ registry' = [registry EXCEPT !.fee_treasury = rest, !.fees_withdrawn = gone]
        /\ UNCHANGED <<record, ledger>>
    BY <1>2, Zenon DEF withdraw_fees
  <2>4. /\ registry'.fee_treasury = rest /\ registry'.fees_withdrawn = gone
        /\ registry'.total_streams = registry.total_streams
        /\ registry'.total_volume = registry.total_volume
    <3>. HIDE DEF rest, gone
    <3>. QED  BY <2>1, <2>3, Zenon DEF RegistryType
  <2>. HIDE DEF rest, gone
  <2>. QED  BY <2>2, <2>3, <2>4, Zenon DEF RegistryTotals
<1>3. ASSUME UNCHANGED <<record, registry, ledger>> PROVE RegistryTotals'
  BY <1>3, Zenon DEF RegistryTotals
<1>4. ASSUME Tick \/ UpdatePriceOnly \/ UNCHANGED vars PROVE RegistryTotals'
  BY <1>3, <1>4, Zenon DEF Tick, UpdatePriceOnly, vars
<1>. QED  BY <1>1, <1>2, <1>4, Zenon DEF Next

\* An empty registry counts nothing.
LEMMA InitTotals == Init => RegistryTotals
<1>. SUFFICES ASSUME Init PROVE RegistryTotals
  BY Zenon
<1>1. /\ [s \in Streams |-> record[s].total_amount] = [s \in Streams |-> 0]
      /\ [s \in Streams |-> ledger[s].sui_fees] = [s \in Streams |-> 0]
      /\ {s \in Streams : record[s].status # RECORD_NONE} = {}
  BY EmptyFields, Zenon DEF Init
<1>2. /\ registry.total_streams = 0 /\ registry.total_volume = 0
      /\ registry.fee_treasury + registry.fees_withdrawn = 0
  BY DEF Init
<1>3. Cardinality({}) = 0
  BY FS_EmptySet, Zenon
<1>. QED  BY <1>1, <1>2, <1>3, TotalOfZeros, Zenon DEF RegistryTotals

\* However many streams there are, the registry's counters are the sums over them, and
\* every fee that a claim took is in the treasury or was withdrawn.
THEOREM RegistryAddsUp == Spec => []RegistryTotals
<1>1. IndInv /\ IndInv' /\ RegistryTotals /\ [Next]_vars => RegistryTotals'
  BY NextTotals, Zenon
<1>. QED  BY <1>1, InitTotals, InductiveInvariant, PTL DEF Spec

=============================================================================
