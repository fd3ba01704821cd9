---------------------------- MODULE BudgetProofs ----------------------------
(***************************************************************************)
(* The budget holds: what the vault account counts is what the log says,   *)
(* and no stretch of a window's length sees more than the module's docs    *)
(* allow, for every policy, clock, number of payments and re-armed window. *)
(***************************************************************************)
EXTENDS PolicyVaultProofs, FiniteSetTheorems, WellFoundedInduction

-----------------------------------------------------------------------------
(* Sums over finite sets.  The prover has no induction over data; here it  *)
(* comes from a fact about sets, that < has a least element in every       *)
(* non-empty set of natural numbers.                                       *)
SumOf(f, S) == MapThenSumSet(LAMBDA i : f[i], S)

Pick(s) == CHOOSE x \in s : TRUE

(* g adds up f over every subset of S with at most k elements.             *)
Small(S, k) == {s \in SUBSET S : Cardinality(s) <= k}
Adds(g, f, D) ==
  g = [s \in D |-> IF s = {} THEN 0 ELSE f[Pick(s)] + g[s \ {Pick(s)}]]

LEMMA Ascend ==
  ASSUME NEW S, 0 \in S, \A n \in Nat : n \in S => n + 1 \in S
  PROVE  Nat \subseteq S
<1> DEFINE T == Nat \ S
<1> SUFFICES ASSUME T # {} PROVE FALSE
  OBVIOUS
<1>1. PICK x \in T : \A y \in T : ~(<<y, x>> \in OpToRel(<, Nat))
  BY NatLessThanWellFounded, WFMin
<1>2. x # 0 /\ x - 1 \in Nat /\ x - 1 \in T
  OBVIOUS
<1>3. <<x - 1, x>> \in OpToRel(<, Nat)
  BY <1>2 DEF OpToRel
<1> QED
  BY <1>1, <1>2, <1>3

(* Induction over the subsets of a finite set: what holds of the empty set  *)
(* and of a set whenever it holds of the set without one element.          *)
LEMMA GrowingSets ==
  ASSUME NEW S, IsFiniteSet(S), NEW F, {} \in F,
         \A s \in SUBSET S : s # {} /\ (\A x \in s : s \ {x} \in F) => s \in F
  PROVE  SUBSET S \subseteq F
<1> DEFINE N == {k \in Nat : \A s \in SUBSET S : Cardinality(s) <= k => s \in F}
<1>0. \A s \in SUBSET S : IsFiniteSet(s) /\ Cardinality(s) \in Nat
  BY FS_Subset, FS_CardinalityType
<1>1. 0 \in N
  <2>1. \A s \in SUBSET S : Cardinality(s) <= 0 => Cardinality(s) = 0
    BY <1>0
  <2>2. \A s \in SUBSET S : Cardinality(s) <= 0 => s = {}
    BY <1>0, <2>1, FS_EmptySet
  <2> QED
    BY <2>2
<1>2. ASSUME NEW k \in Nat, k \in N PROVE k + 1 \in N
  <2> SUFFICES ASSUME NEW s \in SUBSET S, Cardinality(s) <= k + 1 PROVE s \in F
    OBVIOUS
  <2>1. CASE s = {}
    BY <2>1
  <2>2. CASE s # {}
    <3>1. ASSUME NEW x \in s PROVE s \ {x} \in F
      <4>1. Cardinality(s \ {x}) = Cardinality(s) - 1
        BY <1>0, FS_RemoveElement
      <4> QED
        BY <1>0, <1>2, <4>1
    <3> QED
      BY <2>2, <3>1
  <2> QED
    BY <2>1, <2>2
<1> HIDE DEF N
<1>3. Nat \subseteq N
  BY <1>1, <1>2, Ascend
<1> QED
  BY <1>0, <1>3 DEF N

LEMMA SumExists ==
  ASSUME NEW S, IsFiniteSet(S), NEW f
  PROVE  \E g : Adds(g, f, SUBSET S)
<1> DEFINE N == {k \in Nat : \E g : Adds(g, f, Small(S, k))}
<1>0. \A s \in SUBSET S : IsFiniteSet(s) /\ Cardinality(s) \in Nat
  BY FS_Subset, FS_CardinalityType
<1>1. 0 \in N
  <2>1. Small(S, 0) = {{}}
    BY <1>0, FS_EmptySet DEF Small
  <2>2. Adds([s \in Small(S, 0) |-> 0], f, Small(S, 0))
    BY <2>1 DEF Adds
  <2> QED
    BY <2>2
<1>2. ASSUME NEW k \in Nat, k \in N PROVE k + 1 \in N
  <2>1. PICK g : Adds(g, f, Small(S, k))
    BY <1>2
  <2> DEFINE h == [s \in Small(S, k + 1) |->
                     IF s = {} THEN 0 ELSE f[Pick(s)] + g[s \ {Pick(s)}]]
  <2>2. Small(S, k) \subseteq Small(S, k + 1)
    BY <1>0 DEF Small
  <2>3. \A s \in Small(S, k) : h[s] = g[s]
    BY <2>1, <2>2 DEF Adds
  <2>4. ASSUME NEW s \in Small(S, k + 1), s # {} PROVE s \ {Pick(s)} \in Small(S, k)
    <3>1. Pick(s) \in s
      BY <2>4 DEF Pick
    <3>2. Cardinality(s \ {Pick(s)}) = Cardinality(s) - 1
      BY <1>0, <3>1, FS_RemoveElement DEF Small
    <3> QED
      BY <1>0, <3>2 DEF Small
  <2>5. Adds(h, f, Small(S, k + 1))
    BY <2>3, <2>4 DEF Adds
  <2> QED
    BY <2>5
<1> HIDE DEF N
<1>3. Nat \subseteq N
  BY <1>1, <1>2, Ascend
<1>4. Small(S, Cardinality(S)) = SUBSET S
  BY <1>0, FS_Subset DEF Small
<1>5. Cardinality(S) \in N
  BY <1>0, <1>3
<1> QED
  BY <1>4, <1>5 DEF N

LEMMA SumRecursion ==
  ASSUME NEW S, IsFiniteSet(S), NEW f
  PROVE  \E g : Adds(g, f, SUBSET S) /\ SumOf(f, S) = g[S]
<1> DEFINE it == CHOOSE g : Adds(g, f, SUBSET S)
<1>1. Adds(it, f, SUBSET S)
  BY SumExists
<1>2. SumOf(f, S) = it[S]
  BY DEF SumOf, MapThenSumSet, MapThenFoldSet, Adds, Pick
<1> QED
  BY <1>1, <1>2

LEMMA SumEmpty ==
  ASSUME NEW f
  PROVE  SumOf(f, {}) = 0
<1>1. PICK g : Adds(g, f, SUBSET {}) /\ SumOf(f, {}) = g[{}]
  BY SumRecursion, FS_EmptySet
<1> QED
  BY <1>1 DEF Adds

(* Two functions that add up the same numbers agree.                       *)
LEMMA AddsUnique ==
  ASSUME NEW S, IsFiniteSet(S), NEW T \in SUBSET S, NEW f, NEW g, NEW h,
         Adds(g, f, SUBSET S), Adds(h, f, SUBSET T)
  PROVE  g[T] = h[T]
<1> DEFINE F == {s \in SUBSET T : g[s] = h[s]}
<1>1. {} \in F
  BY DEF Adds
<1>2. ASSUME NEW s \in SUBSET T, s # {}, \A x \in s : s \ {x} \in F PROVE s \in F
  <2>1. Pick(s) \in s
    BY <1>2 DEF Pick
  <2>2. g[s \ {Pick(s)}] = h[s \ {Pick(s)}]
    BY <1>2, <2>1
  <2> QED
    BY <1>2, <2>2 DEF Adds
<1> HIDE DEF F
<1>3. T \in F
  BY <1>1, <1>2, FS_Subset, GrowingSets
<1> QED
  BY <1>3 DEF F

LEMMA SumPick ==
  ASSUME NEW S, IsFiniteSet(S), NEW f, S # {}
  PROVE  Pick(S) \in S /\ SumOf(f, S) = f[Pick(S)] + SumOf(f, S \ {Pick(S)})
<1> DEFINE T == S \ {Pick(S)}
<1>1. PICK g : Adds(g, f, SUBSET S) /\ SumOf(f, S) = g[S]
  BY SumRecursion
<1>2. Pick(S) \in S /\ T \in SUBSET S
  BY DEF Pick
<1>3. IsFiniteSet(T)
  BY FS_Subset
<1>4. g[S] = f[Pick(S)] + g[T]
  BY <1>1 DEF Adds
<1> HIDE DEF T
<1>5. PICK h : Adds(h, f, SUBSET T) /\ SumOf(f, T) = h[T]
  BY <1>3, SumRecursion
<1>6. g[T] = h[T]
  BY <1>1, <1>2, <1>5, AddsUnique
<1>7. SumOf(f, S) = f[Pick(S)] + SumOf(f, T)
  BY <1>1, <1>4, <1>5, <1>6
<1> QED
  BY <1>2, <1>7 DEF T

LEMMA SumType ==
  ASSUME NEW S, IsFiniteSet(S), NEW f, \A x \in S : f[x] \in Nat
  PROVE  SumOf(f, S) \in Nat
<1> DEFINE F == {s \in SUBSET S : SumOf(f, s) \in Nat}
<1>1. {} \in F
  BY SumEmpty
<1>2. ASSUME NEW s \in SUBSET S, s # {}, \A x \in s : s \ {x} \in F PROVE s \in F
  <2>1. Pick(s) \in s /\ SumOf(f, s) = f[Pick(s)] + SumOf(f, s \ {Pick(s)})
    BY <1>2, FS_Subset, SumPick
  <2> QED
    BY <1>2, <2>1
<1> HIDE DEF F
<1>3. S \in F
  BY <1>1, <1>2, GrowingSets
<1> QED
  BY <1>3 DEF F

(* The order in which the elements are taken does not matter.              *)
LEMMA SumSplit ==
  ASSUME NEW S, IsFiniteSet(S), NEW f, \A x \in S : f[x] \in Nat, NEW e \in S
  PROVE  SumOf(f, S) = f[e] + SumOf(f, S \ {e})
<1> DEFINE F == {s \in SUBSET S : \A x \in s : SumOf(f, s) = f[x] + SumOf(f, s \ {x})}
<1>0. \A s \in SUBSET S : IsFiniteSet(s) /\ SumOf(f, s) \in Nat
  <2> SUFFICES ASSUME NEW s \in SUBSET S PROVE IsFiniteSet(s) /\ SumOf(f, s) \in Nat
    OBVIOUS
  <2>1. IsFiniteSet(s)
    BY FS_Subset
  <2> QED
    BY <2>1, SumType
<1>1. {} \in F
  OBVIOUS
<1>2. ASSUME NEW s \in SUBSET S, s # {}, \A x \in s : s \ {x} \in F PROVE s \in F
  <2> DEFINE p == Pick(s)
  <2>1. p \in s /\ SumOf(f, s) = f[p] + SumOf(f, s \ {p})
    BY <1>0, <1>2, SumPick
  <2> HIDE DEF p
  <2> SUFFICES ASSUME NEW x \in s, x # p PROVE SumOf(f, s) = f[x] + SumOf(f, s \ {x})
    BY <2>1
  <2> DEFINE rest == (s \ {p}) \ {x}
  <2>2. SumOf(f, s \ {p}) = f[x] + SumOf(f, rest)
    BY <1>2, <2>1
  <2>3. SumOf(f, s \ {x}) = f[p] + SumOf(f, (s \ {x}) \ {p})
    BY <1>2, <2>1
  <2>4. SumOf(f, (s \ {x}) \ {p}) = SumOf(f, rest)
    <3>1. (s \ {x}) \ {p} = rest
      OBVIOUS
    <3> QED
      BY <3>1, Zenon
  <2>5. f[x] \in Nat /\ f[p] \in Nat /\ SumOf(f, rest) \in Nat
    BY <1>0, <2>1
  <2> HIDE DEF rest
  <2> QED
    BY <2>1, <2>2, <2>3, <2>4, <2>5
<1> HIDE DEF F
<1>3. S \in F
  BY <1>1, <1>2, GrowingSets
<1> QED
  BY <1>3 DEF F

LEMMA SumAdd ==
  ASSUME NEW S, IsFiniteSet(S), NEW f, NEW e, e \notin S, \A x \in S \cup {e} : f[x] \in Nat
  PROVE  SumOf(f, S \cup {e}) = SumOf(f, S) + f[e]
<1>1. IsFiniteSet(S \cup {e}) /\ (S \cup {e}) \ {e} = S
  BY FS_AddElement
<1>2. SumOf(f, S) \in Nat
  BY SumType
<1>3. SumOf(f, S \cup {e}) = f[e] + SumOf(f, (S \cup {e}) \ {e})
  BY <1>1, SumSplit
<1>4. SumOf(f, (S \cup {e}) \ {e}) = SumOf(f, S)
  BY <1>1, Zenon
<1> QED
  BY <1>2, <1>3, <1>4

LEMMA SumSame ==
  ASSUME NEW S, IsFiniteSet(S), NEW f, NEW g, \A x \in S : f[x] = g[x]
  PROVE  SumOf(f, S) = SumOf(g, S)
<1> DEFINE F == {s \in SUBSET S : SumOf(f, s) = SumOf(g, s)}
<1>1. {} \in F
  BY SumEmpty
<1>2. ASSUME NEW s \in SUBSET S, s # {}, \A x \in s : s \ {x} \in F PROVE s \in F
  <2>1. IsFiniteSet(s)
    BY FS_Subset
  <2>2. /\ Pick(s) \in s /\ SumOf(f, s) = f[Pick(s)] + SumOf(f, s \ {Pick(s)})
        /\ SumOf(g, s) = g[Pick(s)] + SumOf(g, s \ {Pick(s)})
    BY <1>2, <2>1, SumPick
  <2> QED
    BY <1>2, <2>2
<1> HIDE DEF F
<1>3. S \in F
  BY <1>1, <1>2, GrowingSets
<1> QED
  BY <1>3 DEF F

LEMMA SumSubset ==
  ASSUME NEW S, IsFiniteSet(S), NEW f, \A x \in S : f[x] \in Nat, NEW T \in SUBSET S
  PROVE  SumOf(f, T) <= SumOf(f, S)
<1> DEFINE F == {s \in SUBSET S : SumOf(f, s \cap T) <= SumOf(f, s)}
<1>1. {} \in F
  <2>1. {} \cap T = {} /\ 0 <= 0
    OBVIOUS
  <2> QED
    BY <2>1, SumEmpty
<1>2. ASSUME NEW s \in SUBSET S, s # {}, \A x \in s : s \ {x} \in F PROVE s \in F
  <2>1. PICK x \in s : TRUE
    BY <1>2
  <2>2. IsFiniteSet(s) /\ IsFiniteSet(s \cap T) /\ IsFiniteSet(s \ {x}) /\ IsFiniteSet((s \ {x}) \cap T)
    BY FS_Subset
  <2>3. /\ SumOf(f, s) \in Nat /\ SumOf(f, s \cap T) \in Nat /\ SumOf(f, s \ {x}) \in Nat
        /\ SumOf(f, (s \ {x}) \cap T) \in Nat /\ f[x] \in Nat
    BY <2>2, SumType
  <2>4. SumOf(f, s) = f[x] + SumOf(f, s \ {x})
    BY <2>2, SumSplit
  <2>5. SumOf(f, (s \ {x}) \cap T) <= SumOf(f, s \ {x})
    BY <1>2, <2>1
  <2>6. CASE x \in T
    <3>1. (s \cap T) \ {x} = (s \ {x}) \cap T /\ x \in s \cap T
      BY <2>6
    <3>2. SumOf(f, s \cap T) = f[x] + SumOf(f, (s \cap T) \ {x})
      BY <2>2, <3>1, SumSplit
    <3>3. SumOf(f, s \cap T) <= SumOf(f, s)
      BY <2>3, <2>4, <2>5, <3>1, <3>2
    <3> QED
      BY <3>3
  <2>7. CASE x \notin T
    <3>1. s \cap T = (s \ {x}) \cap T
      BY <2>7
    <3>2. SumOf(f, s \cap T) <= SumOf(f, s)
      BY <2>3, <2>4, <2>5, <3>1
    <3> QED
      BY <3>2
  <2> QED
    BY <2>6, <2>7
<1> HIDE DEF F
<1>3. S \in F
  BY <1>1, <1>2, GrowingSets
<1>4. S \cap T = T
  OBVIOUS
<1> QED
  BY <1>3, <1>4 DEF F

LEMMA SumUnion ==
  ASSUME NEW S, IsFiniteSet(S), NEW T, IsFiniteSet(T), NEW f,
         \A x \in S \cup T : f[x] \in Nat
  PROVE  SumOf(f, S \cup T) <= SumOf(f, S) + SumOf(f, T)
<1> DEFINE F == {s \in SUBSET T : SumOf(f, S \cup s) <= SumOf(f, S) + SumOf(f, s)}
<1>0. ASSUME NEW s \in SUBSET T
      PROVE  /\ IsFiniteSet(s) /\ IsFiniteSet(S \cup s)
             /\ SumOf(f, s) \in Nat /\ SumOf(f, S) \in Nat /\ SumOf(f, S \cup s) \in Nat
  <2>1. IsFiniteSet(s)
    BY FS_Subset
  <2>2. IsFiniteSet(S \cup s)
    BY <2>1, FS_Union
  <2> QED
    BY <2>1, <2>2, SumType
<1>1. {} \in F
  <2>1. S \cup {} = S /\ SumOf(f, {}) = 0
    BY SumEmpty
  <2> QED
    BY <1>0, <2>1
<1>2. ASSUME NEW s \in SUBSET T, s # {}, \A x \in s : s \ {x} \in F PROVE s \in F
  <2>1. PICK x \in s : TRUE
    BY <1>2
  <2> DEFINE t == s \ {x}
  <2>2. SumOf(f, s) = f[x] + SumOf(f, t) /\ f[x] \in Nat
    BY <1>0, SumSplit
  <2>3. SumOf(f, S \cup t) <= SumOf(f, S) + SumOf(f, t)
    BY <1>2, <2>1
  <2>4. /\ IsFiniteSet(S \cup t) /\ SumOf(f, S \cup t) \in Nat /\ SumOf(f, t) \in Nat
        /\ SumOf(f, S) \in Nat
    BY <1>0
  <2>5. SumOf(f, S \cup s) <= SumOf(f, S \cup t) + f[x]
    <3>1. CASE x \in S \cup t
      <4>1. S \cup s = S \cup t
        BY <3>1
      <4>2. SumOf(f, S \cup s) = SumOf(f, S \cup t)
        BY <4>1, Zenon
      <4> QED
        BY <2>2, <2>4, <4>2
    <3>2. CASE x \notin S \cup t
      <4>1. S \cup s = (S \cup t) \cup {x}
        OBVIOUS
      <4>2. SumOf(f, (S \cup t) \cup {x}) = SumOf(f, S \cup t) + f[x]
        BY <2>4, <3>2, SumAdd, ZenonT(60)
      <4> QED
        BY <2>2, <2>4, <4>1, <4>2
    <3> QED
      BY <3>1, <3>2
  <2> HIDE DEF t
  <2>6. SumOf(f, S \cup s) \in Nat /\ SumOf(f, s) \in Nat
    BY <1>0
  <2>7. SumOf(f, S \cup s) <= SumOf(f, S) + SumOf(f, s)
    BY <2>2, <2>3, <2>4, <2>5, <2>6
  <2> QED
    BY <2>7
<1> HIDE DEF F
<1>3. T \in F
  BY <1>1, <1>2, GrowingSets
<1> QED
  BY <1>3 DEF F

-----------------------------------------------------------------------------
(* The log, as sums of it.                                                 *)
AmountsOf(log) == [i \in DOMAIN log |-> log[i].amount]
SumLog(log, S) == SumOf(AmountsOf(log), S)

After(log, s) == {i \in DOMAIN log : log[i].ts > s}
Since(log, s) == {i \in DOMAIN log : log[i].ts >= s}
Latest(log, n) == {i \in DOMAIN log : i > Len(log) - n}
Stretch(t) == t .. (t + WINDOW_SECONDS - 1)
During(log, t) == {i \in DOMAIN log : log[i].ts \in Stretch(t)}
ArmedDuring(a, t) == {i \in DOMAIN a : a[i] \in Stretch(t)}

MaxLimit == Max(DailyLimits)

(* What Paid adds up is a sum over the log.                                *)
LEMMA PaidIsSum ==
  ASSUME NEW S \in SUBSET DOMAIN events, IsFiniteSet(S)
  PROVE  Paid(S) = SumLog(events, S)
<1> DEFINE f == AmountsOf(events)
           P(g) == g = [s \in SUBSET S |-> IF s = {} THEN 0
                                           ELSE events[Pick(s)].amount + g[s \ {Pick(s)}]]
           it == CHOOSE g : P(g)
<1>1. ASSUME NEW s \in SUBSET S, s # {} PROVE events[Pick(s)].amount = f[Pick(s)]
  <2>1. Pick(s) \in DOMAIN events
    BY <1>1 DEF Pick
  <2> QED
    BY <2>1 DEF AmountsOf
<1>2. \A g : P(g) <=> Adds(g, f, SUBSET S)
  BY <1>1 DEF Adds
<1>3. Paid(S) = it[S]
  BY DEF Paid, MapThenSumSet, MapThenFoldSet, Pick
<1> HIDE DEF f, P
<1>4. \E g : P(g)
  BY <1>2, SumExists
<1>5. P(it)
  BY <1>4
<1>6. PICK h : Adds(h, f, SUBSET S) /\ SumOf(f, S) = h[S]
  BY SumRecursion
<1> HIDE DEF it
<1>7. Adds(it, f, SUBSET S) /\ S \in SUBSET S
  BY <1>2, <1>5
<1>8. it[S] = h[S]
  BY <1>6, <1>7, AddsUnique
<1> QED
  BY <1>3, <1>6, <1>8 DEF SumLog, f

LEMMA LogSets ==
  ASSUME NEW log \in Seq(PaymentEvents), NEW S \in SUBSET DOMAIN log
  PROVE  /\ IsFiniteSet(S) /\ SumLog(log, S) \in Nat
         /\ \A i \in DOMAIN log : log[i].amount \in Nat /\ log[i].ts \in Nat
         /\ \A T \in SUBSET S : SumLog(log, T) <= SumLog(log, S)
<1>1. IsFiniteSet(DOMAIN log)
  BY FS_Interval
<1>2. \A i \in DOMAIN log : log[i].amount \in Nat /\ log[i].ts \in Nat
  <2>1. \A i \in DOMAIN log : log[i] \in PaymentEvents
    OBVIOUS
  <2>2. U64 \subseteq Nat
    BY NumbersAssumption DEF U64
  <2>3. ASSUME NEW e \in PaymentEvents PROVE e.amount \in Nat /\ e.ts \in Nat
    BY <2>2 DEF PaymentEvents
  <2> QED
    BY <2>1, <2>3
<1>3. IsFiniteSet(S)
  BY <1>1, FS_Subset
<1>4. \A i \in S : AmountsOf(log)[i] \in Nat
  BY <1>2 DEF AmountsOf
<1>5. SumLog(log, S) \in Nat
  BY <1>3, <1>4, SumType DEF SumLog
<1>6. ASSUME NEW T \in SUBSET S PROVE SumLog(log, T) <= SumLog(log, S)
  BY <1>3, <1>4, SumSubset DEF SumLog
<1> QED
  BY <1>2, <1>3, <1>5, <1>6

(* One more event, counted or not.                                         *)
LEMMA LogGrows ==
  ASSUME NEW log \in Seq(PaymentEvents), NEW e \in PaymentEvents,
         NEW S \in SUBSET DOMAIN log
  PROVE  /\ Append(log, e) \in Seq(PaymentEvents)
         /\ Len(Append(log, e)) = Len(log) + 1
         /\ DOMAIN Append(log, e) = DOMAIN log \cup {Len(log) + 1}
         /\ Len(log) + 1 \notin DOMAIN log
         /\ Append(log, e)[Len(log) + 1] = e
         /\ \A i \in DOMAIN log : Append(log, e)[i] = log[i]
         /\ SumLog(Append(log, e), S) = SumLog(log, S)
         /\ SumLog(Append(log, e), S \cup {Len(log) + 1}) = SumLog(log, S) + e.amount
<1> DEFINE longer == Append(log, e)
           n == Len(log) + 1
<1>1. /\ longer \in Seq(PaymentEvents) /\ Len(longer) = n
      /\ DOMAIN longer = DOMAIN log \cup {n} /\ n \notin DOMAIN log
      /\ longer[n] = e /\ \A i \in DOMAIN log : longer[i] = log[i]
  OBVIOUS
<1> HIDE DEF longer, n
<1>2. \A i \in S : AmountsOf(longer)[i] = AmountsOf(log)[i]
  BY <1>1 DEF AmountsOf
<1>3. IsFiniteSet(S) /\ n \notin S
  BY <1>1, LogSets
<1>4. SumLog(longer, S) = SumLog(log, S)
  BY <1>2, <1>3, SumSame DEF SumLog
<1>5. \A i \in S \cup {n} : AmountsOf(longer)[i] \in Nat
  BY <1>1, LogSets DEF AmountsOf
<1>6. AmountsOf(longer)[n] = e.amount
  BY <1>1 DEF AmountsOf
<1>7. SumLog(longer, S \cup {n}) = SumLog(longer, S) + e.amount
  <2> DEFINE f == AmountsOf(longer)
  <2>1. IsFiniteSet(S) /\ n \notin S /\ (\A i \in S \cup {n} : f[i] \in Nat) /\ f[n] = e.amount
    BY <1>3, <1>5, <1>6
  <2> HIDE DEF f
  <2>2. SumOf(f, S \cup {n}) = SumOf(f, S) + f[n]
    BY <2>1, SumAdd, Zenon
  <2>3. SumOf(f, S \cup {n}) = SumOf(f, S) + e.amount
    BY <2>1, <2>2, Zenon
  <2> QED
    BY <2>3 DEF SumLog, f
<1> QED
  BY <1>1, <1>4, <1>7 DEF longer, n

(* What one more event adds to the sums the budget is stated with.         *)
LEMMA SumsGrow ==
  ASSUME NEW log \in Seq(PaymentEvents), NEW e \in PaymentEvents, NEW longer,
         longer = Append(log, e)
  PROVE  /\ \A s \in Nat :
              /\ SumLog(longer, After(longer, s))
                   = SumLog(log, After(log, s)) + (IF e.ts > s THEN e.amount ELSE 0)
              /\ SumLog(longer, Since(longer, s))
                   = SumLog(log, Since(log, s)) + (IF e.ts >= s THEN e.amount ELSE 0)
              /\ SumLog(longer, During(longer, s))
                   = SumLog(log, During(log, s)) + (IF e.ts \in Stretch(s) THEN e.amount ELSE 0)
         /\ \A k \in Nat :
              k <= Len(log) => SumLog(longer, Latest(longer, k + 1))
                                 = SumLog(log, Latest(log, k)) + e.amount
<1> DEFINE n == Len(log) + 1
<1>1. /\ DOMAIN longer = DOMAIN log \cup {n} /\ n \notin DOMAIN log /\ Len(longer) = n
      /\ longer[n] = e /\ \A i \in DOMAIN log : longer[i] = log[i]
  BY LogGrows
<1>2. \A S \in SUBSET DOMAIN log :
        /\ SumLog(longer, S) = SumLog(log, S)
        /\ SumLog(longer, S \cup {n}) = SumLog(log, S) + e.amount
        /\ SumLog(log, S) \in Nat
  BY LogGrows, LogSets
<1>3. \A k \in Nat : DOMAIN log = 1 .. Len(log) /\ Len(log) \in Nat
  OBVIOUS
<1> HIDE DEF n
<1>4. ASSUME NEW S \in SUBSET DOMAIN log, NEW T,
             NEW b \in BOOLEAN, T = IF b THEN S \cup {n} ELSE S
      PROVE  SumLog(longer, T) = SumLog(log, S) + (IF b THEN e.amount ELSE 0)
  <2>1. CASE b
    <3>1. T = S \cup {n}
      BY <1>4, <2>1, Zenon
    <3>2. SumLog(longer, T) = SumLog(log, S) + e.amount
      BY <1>2, <3>1, Zenon
    <3> QED
      BY <2>1, <3>2
  <2>2. CASE ~b
    <3>1. T = S
      BY <1>4, <2>2, Zenon
    <3>2. SumLog(longer, T) = SumLog(log, S) /\ SumLog(log, S) \in Nat
      BY <1>2, <3>1, Zenon
    <3> QED
      BY <2>2, <3>2
  <2> QED
    BY <2>1, <2>2
<1>5. ASSUME NEW s \in Nat
      PROVE  /\ After(longer, s) = IF e.ts > s THEN After(log, s) \cup {n} ELSE After(log, s)
             /\ Since(longer, s) = IF e.ts >= s THEN Since(log, s) \cup {n} ELSE Since(log, s)
             /\ During(longer, s) = IF e.ts \in Stretch(s) THEN During(log, s) \cup {n}
                                    ELSE During(log, s)
  <2>1. After(longer, s) = IF e.ts > s THEN After(log, s) \cup {n} ELSE After(log, s)
    BY <1>1 DEF After
  <2>2. Since(longer, s) = IF e.ts >= s THEN Since(log, s) \cup {n} ELSE Since(log, s)
    BY <1>1 DEF Since
  <2>3. During(longer, s) = IF e.ts \in Stretch(s) THEN During(log, s) \cup {n}
                            ELSE During(log, s)
    BY <1>1 DEF During
  <2> QED
    BY <2>1, <2>2, <2>3
<1>6. ASSUME NEW k \in Nat, k <= Len(log)
      PROVE  Latest(longer, k + 1) = IF TRUE THEN Latest(log, k) \cup {n} ELSE Latest(log, k)
  BY <1>1, <1>3, <1>6 DEF Latest, n
<1>7. /\ \A s \in Nat : /\ After(log, s) \in SUBSET DOMAIN log
                        /\ Since(log, s) \in SUBSET DOMAIN log
                        /\ During(log, s) \in SUBSET DOMAIN log
      /\ \A k \in Nat : Latest(log, k) \in SUBSET DOMAIN log
  BY DEF After, Since, During, Latest
<1>8. ASSUME NEW s \in Nat
      PROVE  /\ SumLog(longer, After(longer, s))
                   = SumLog(log, After(log, s)) + (IF e.ts > s THEN e.amount ELSE 0)
             /\ SumLog(longer, Since(longer, s))
                   = SumLog(log, Since(log, s)) + (IF e.ts >= s THEN e.amount ELSE 0)
             /\ SumLog(longer, During(longer, s))
                   = SumLog(log, During(log, s)) + (IF e.ts \in Stretch(s) THEN e.amount ELSE 0)
  <2>1. (e.ts > s) \in BOOLEAN /\ (e.ts >= s) \in BOOLEAN /\ (e.ts \in Stretch(s)) \in BOOLEAN
    OBVIOUS
  <2> QED
    BY <1>4, <1>5, <1>7, <2>1, Zenon
<1>9. ASSUME NEW k \in Nat, k <= Len(log)
      PROVE  SumLog(longer, Latest(longer, k + 1)) = SumLog(log, Latest(log, k)) + e.amount
  <2>1. Latest(longer, k + 1) = Latest(log, k) \cup {n}
    BY <1>6, <1>9
  <2> QED
    BY <1>2, <1>7, <2>1, Zenon
<1> QED
  BY <1>8, <1>9

(* The largest daily limit bounds them all.                                *)
LEMMA LimitBound ==
  ASSUME DailyLimits # {}
  PROVE  MaxLimit \in Nat /\ \A d \in DailyLimits : d <= MaxLimit
<1> DEFINE T == {b \in Nat : \A d \in DailyLimits : d <= b}
<1>1. DailyLimits \subseteq 0 .. U64Max /\ U64Max \in Nat
  BY InputsAssumption, NumbersAssumption DEF U64
<1>2. U64Max \in T
  BY <1>1
<1>3. PICK b \in T : \A y \in T : ~(<<y, b>> \in OpToRel(<, Nat))
  BY <1>2, NatLessThanWellFounded, WFMin
<1>4. b \in DailyLimits
  <2> SUFFICES ASSUME b \notin DailyLimits PROVE FALSE
    OBVIOUS
  <2>1. ASSUME NEW d \in DailyLimits PROVE d \in Nat /\ d <= b - 1
    <3>1. d \in Nat /\ b \in Nat /\ d <= b
      <4>1. d \in Nat
        BY <1>1
      <4>2. b \in Nat /\ \A x \in DailyLimits : x <= b
        OBVIOUS
      <4> QED
        BY <4>1, <4>2
    <3>2. d # b
      OBVIOUS
    <3> QED
      BY <3>1, <3>2
  <2>2. b \in Nat /\ b - 1 \in Nat
    <3>1. PICK d : d \in DailyLimits
      OBVIOUS
    <3>2. d \in Nat /\ d <= b - 1 /\ b \in Nat
      BY <1>3, <2>1, <3>1
    <3> QED
      BY <3>2
  <2>4. b - 1 \in T
    BY <2>1, <2>2
  <2>5. <<b - 1, b>> \in OpToRel(<, Nat)
    BY <2>2 DEF OpToRel
  <2> QED
    BY <1>3, <2>4, <2>5
<1>5. \A y \in DailyLimits : b >= y
  BY <1>1, <1>3
<1>6. MaxLimit \in DailyLimits /\ \A y \in DailyLimits : MaxLimit >= y
  <2> DEFINE P(x) == \A y \in DailyLimits : x >= y
  <2>1. b \in DailyLimits /\ P(b)
    BY <1>4, <1>5
  <2>2. MaxLimit = CHOOSE x \in DailyLimits : P(x)
    BY DEF MaxLimit, Max
  <2> HIDE DEF P
  <2>3. MaxLimit \in DailyLimits /\ P(MaxLimit)
    BY <2>1, <2>2
  <2> QED
    BY <2>3 DEF P
<1> QED
  BY <1>1, <1>6

-----------------------------------------------------------------------------
(* The inductive invariant.                                                *)

(* Nothing is dated after the clock; an open vault's window counts no more *)
(* than one of the limits its owner wrote.                                 *)
Times ==
  /\ \A i \in DOMAIN events : events[i].ts <= now
  /\ Open => /\ vault.window_start <= now
             /\ vault.daily_limit \in DailyLimits
             /\ vault.spent_in_window <= MaxLimit

WindowCounted ==
  Open => /\ SumLog(events, After(events, vault.window_start)) <= vault.spent_in_window
          /\ vault.spent_in_window <= SumLog(events, Since(events, vault.window_start))

HistoryKept ==
  Open => /\ vault.payment_count <= Len(events)
          /\ vault.total_paid = SumLog(events, Latest(events, vault.payment_count))
          /\ \A i \in Latest(events, vault.payment_count) :
                /\ events[i].payment_count = i - (Len(events) - vault.payment_count)
                /\ events[i].mint = vault.mint

PaidDuring(t) == SumLog(events, During(events, t))
Armings(t) == Cardinality(ArmedDuring(arms, t))
Limits(k) == k * MaxLimit

(* What a stretch saw, and, while the vault's window began in it, how far  *)
(* that is ahead of what the window counts.                                *)
StretchKept(t) ==
  /\ PaidDuring(t) <= Limits(Armings(t) + 2)
  /\ Open /\ vault.window_start \in Stretch(t) =>
       PaidDuring(t) <= vault.spent_in_window + Limits(Armings(t) + 1)

AccountInv == CustodyInv /\ Times /\ WindowCounted /\ HistoryKept

StretchesKept == \A t \in Nat : StretchKept(t)

-----------------------------------------------------------------------------
(* All the budget sees of a step: nothing is opened or logged, the owner   *)
(* opens a window, or e is paid.                                           *)
Quiet ==
  /\ UNCHANGED <<events, arms>>
  /\ now' \in Nat /\ now <= now'
  /\ Open' => /\ Open
              /\ vault'.window_start = vault.window_start
              /\ vault'.spent_in_window = vault.spent_in_window
              /\ vault'.total_paid = vault.total_paid
              /\ vault'.payment_count = vault.payment_count
              /\ vault'.mint = vault.mint
              /\ \/ vault'.daily_limit = vault.daily_limit
                 \/ vault'.daily_limit \in DailyLimits

OpensWindow ==
  /\ UNCHANGED <<events, now>>
  /\ arms' = Append(arms, now)
  /\ vault'.window_start = now
  /\ vault'.spent_in_window = 0
  /\ \/ /\ vault'.daily_limit \in DailyLimits
        /\ vault'.total_paid = 0 /\ vault'.payment_count = 0
     \/ /\ Open
        /\ vault'.daily_limit = vault.daily_limit
        /\ vault'.total_paid = vault.total_paid
        /\ vault'.payment_count = vault.payment_count
        /\ vault'.mint = vault.mint

Pays(e) ==
  /\ Open
  /\ UNCHANGED <<arms, now>>
  /\ events' = Append(events, e)
  /\ e.ts = now /\ e.mint = vault.mint /\ e.payment_count = vault.payment_count + 1
  /\ vault'.mint = vault.mint /\ vault'.daily_limit = vault.daily_limit
  /\ vault'.payment_count = vault.payment_count + 1
  /\ vault'.total_paid = vault.total_paid + e.amount
  /\ vault'.spent_in_window <= vault.daily_limit
  /\ \/ /\ now >= vault.window_start + WINDOW_SECONDS
        /\ vault'.window_start = now
        /\ vault'.spent_in_window = e.amount
     \/ /\ vault'.window_start = vault.window_start
        /\ vault'.spent_in_window = vault.spent_in_window + e.amount

LEMMA SettlePays ==
  ASSUME CustodyInv, NEW a \in Assets, NEW k \in Keys, NEW r \in Recipients,
         NEW n \in U64, NEW s \in BOOLEAN, NEW c \in Contexts, Settle(a, k, r, n, s, c)
  PROVE  \E e \in PaymentEvents : Pays(e)
<1> DEFINE e == [mint |-> a, recipient |-> r, amount |-> n, context_hash |-> c,
                 payment_count |-> vault.payment_count + 1, ts |-> now]
<1>1. /\ TypeOK /\ Open /\ vault \in Vaults /\ vault.mint = a /\ now \in Nat /\ n \in Nat
      /\ authorize(vault, k, r, n, Available(a), s, now) = "Ok"
      /\ vault' = commit(vault, n, now) /\ UNCHANGED <<arms, now>>
      /\ events' = Append(events, e)
  BY DEF Settle, Accepts, OpenFor, Open, CustodyInv, TypeOK, U64
<1>2. Available(a) \in Nat
  BY <1>1, AvailableBound
<1>3. SpentNow(vault, now) + n <= vault.daily_limit /\ vault.payment_count + 1 <= U64Max
  BY <1>1, <1>2, Authorized
<1>4. vault.payment_count + 1 \in U64
  BY <1>1, <1>3, NumbersAssumption DEF Vaults, U64
<1>5. e \in PaymentEvents
  BY <1>1, <1>4 DEF PaymentEvents
<1>6. /\ vault'.mint = vault.mint /\ vault'.daily_limit = vault.daily_limit
      /\ vault'.payment_count = vault.payment_count + 1
      /\ vault'.total_paid = vault.total_paid + n
      /\ vault'.spent_in_window = SpentNow(vault, now) + n
      /\ vault'.window_start = IF WindowElapsed(vault, now) THEN now ELSE vault.window_start
  BY <1>1 DEF commit, Vaults
<1>7. \/ /\ now >= vault.window_start + WINDOW_SECONDS
         /\ vault'.window_start = now
         /\ vault'.spent_in_window = n
      \/ /\ vault'.window_start = vault.window_start
         /\ vault'.spent_in_window = vault.spent_in_window + n
  BY <1>1, <1>6 DEF SpentNow, WindowElapsed
<1>8. e.ts = now /\ e.mint = a /\ e.amount = n /\ e.payment_count = vault.payment_count + 1
  OBVIOUS
<1>9. vault'.spent_in_window <= vault.daily_limit
  BY <1>3, <1>6
<1> HIDE DEF e
<1>10. Pays(e)
  BY <1>1, <1>6, <1>7, <1>8, <1>9 DEF Pays
<1> QED
  BY <1>5, <1>10

(* The owner's edits leave the window and the totals alone.                *)
LEMMA RewriteQuiet ==
  ASSUME CustodyInv, NEW v, Rewrite(v),
         Open => /\ v.window_start = vault.window_start
                 /\ v.spent_in_window = vault.spent_in_window
                 /\ v.total_paid = vault.total_paid
                 /\ v.payment_count = vault.payment_count
                 /\ v.mint = vault.mint
                 /\ (v.daily_limit = vault.daily_limit \/ v.daily_limit \in DailyLimits)
  PROVE  Quiet
<1>1. now \in Nat
  BY DEF CustodyInv, TypeOK
<1> QED
  BY <1>1 DEF Quiet, Rewrite

LEMMA StepKinds ==
  ASSUME CustodyInv, [Next]_vars
  PROVE  Quiet \/ OpensWindow \/ \E e \in PaymentEvents : Pays(e)
<1>t. /\ TypeOK /\ now \in Nat /\ Native \in Assets /\ Mints \subseteq Assets /\ Amounts \subseteq U64
  BY InputsAssumption DEF CustodyInv, TypeOK, Assets
<1>v. Open => vault \in Vaults
  BY <1>t DEF TypeOK, Open
<1>s. ASSUME UNCHANGED <<vault, now, events, arms>> PROVE Quiet
  BY <1>t, <1>s DEF Quiet, Open
<1>c. ASSUME vault' = NoVault, UNCHANGED <<now, events, arms>> PROVE Quiet
  BY <1>t, <1>c DEF Quiet, Open
<1>1. CASE UNCHANGED vars
  BY <1>1, <1>s DEF vars
<1>2. CASE OwnerStep
  <2>1. ASSUME NEW mint \in Assets, NEW p \in PerTxLimits, NEW d \in DailyLimits,
               NEW c \in Thresholds, NEW k \in Keys \cup {NoKey},
               initialize_vault(mint, p, d, c, k)
        PROVE  OpensWindow
    BY <2>1 DEF initialize_vault, OpensWindow
  <2>2. ASSUME NEW p \in PerTxLimits, NEW d \in DailyLimits, NEW c \in Thresholds,
               set_policy(p, d, c)
        PROVE  Quiet
    BY <1>v, <2>2, RewriteQuiet DEF set_policy, Vaults
  <2>3. ASSUME NEW k \in Keys \cup {NoKey}, set_delegate(k) PROVE Quiet
    BY <1>v, <2>3, RewriteQuiet DEF set_delegate, Vaults
  <2>4. ASSUME NEW active \in BOOLEAN, set_delegate_active(active) PROVE Quiet
    BY <1>v, <2>4, RewriteQuiet DEF set_delegate_active, Vaults
  <2>5. ASSUME NEW r \in Recipients, NEW add \in BOOLEAN, manage_allowlist(r, add) PROVE Quiet
    BY <1>v, <2>5, RewriteQuiet DEF manage_allowlist, Vaults
  <2>6. ASSUME NEW r \in Recipients, NEW add \in BOOLEAN, manage_blocklist(r, add) PROVE Quiet
    BY <1>v, <2>6, RewriteQuiet DEF manage_blocklist, Vaults
  <2>7. ASSUME reset_window PROVE OpensWindow
    BY <1>v, <2>7 DEF reset_window, OpensWindow, Vaults
  <2>8. ASSUME NEW n \in Amounts, withdraw_sol(n) PROVE Quiet
    BY <1>s, <2>8 DEF withdraw_sol
  <2>9. ASSUME NEW m \in Mints, NEW n \in Amounts, withdraw_spl(m, n) PROVE Quiet
    BY <1>s, <2>9 DEF withdraw_spl
  <2>10. ASSUME close_vault_sol PROVE Quiet
    BY <1>c, <2>10 DEF close_vault_sol
  <2>11. ASSUME NEW m \in Mints, close_vault_spl(m) PROVE Quiet
    BY <1>c, <2>11 DEF close_vault_spl
  <2>12. ASSUME NEW m \in Mints, sweep_token(m) PROVE Quiet
    BY <1>s, <2>12 DEF sweep_token
  <2> QED
    BY <1>2, <2>1, <2>2, <2>3, <2>4, <2>5, <2>6, <2>7, <2>8, <2>9, <2>10, <2>11, <2>12
       DEF OwnerStep
<1>3. CASE AgentStep
  <2>1. \E a \in Assets, k \in Keys, r \in Recipients, n \in U64, s \in BOOLEAN, c \in Contexts :
          Settle(a, k, r, n, s, c)
    BY <1>t, <1>3 DEF AgentStep, pay_sol, pay_spl
  <2> QED
    BY <2>1, SettlePays
<1>4. CASE WorldStep
  <2>1. ASSUME tick PROVE Quiet
    BY <1>t, <2>1 DEF tick, Quiet, Open
  <2>2. ASSUME ~tick PROVE UNCHANGED <<vault, now, events, arms>>
    BY <1>4, <2>2 DEF WorldStep, deposit_sol, deposit_spl, send_tokens, send_lamports
  <2> QED
    BY <1>s, <2>1, <2>2
<1> QED
  BY <1>1, <1>2, <1>3, <1>4 DEF Next

-----------------------------------------------------------------------------
(* Facts the steps share.                                                  *)
LEMMA BudgetNumbers ==
  ASSUME TypeOK
  PROVE  /\ events \in Seq(PaymentEvents) /\ arms \in Seq(Nat) /\ now \in Nat
         /\ WINDOW_SECONDS \in Nat /\ WINDOW_SECONDS > 0
         /\ Open => /\ vault.window_start \in Nat /\ vault.spent_in_window \in Nat
                    /\ vault.daily_limit \in Nat /\ vault.total_paid \in Nat
                    /\ vault.payment_count \in Nat
<1>1. Open => vault \in Vaults
  BY DEF TypeOK, Open
<1>2. U64 \subseteq Nat /\ WINDOW_SECONDS \in Nat /\ WINDOW_SECONDS > 0
  BY NumbersAssumption DEF U64
<1> QED
  BY <1>1, <1>2 DEF Vaults, TypeOK

LEMMA EventNumbers ==
  ASSUME NEW e \in PaymentEvents
  PROVE  e.amount \in Nat /\ e.ts \in Nat
<1>1. U64 \subseteq Nat
  BY NumbersAssumption DEF U64
<1> QED
  BY <1>1 DEF PaymentEvents

(* Sums of parts of the log are numbers, larger for a larger part.         *)
LEMMA PartSums ==
  ASSUME NEW log \in Seq(PaymentEvents)
  PROVE  /\ \A s : /\ SumLog(log, After(log, s)) \in Nat
                   /\ SumLog(log, Since(log, s)) \in Nat
                   /\ SumLog(log, During(log, s)) \in Nat
                   /\ SumLog(log, Latest(log, s)) \in Nat
         /\ \A s, t : During(log, t) \subseteq After(log, s) =>
                        SumLog(log, During(log, t)) <= SumLog(log, After(log, s))
<1>1. \A s : /\ After(log, s) \in SUBSET DOMAIN log
             /\ Since(log, s) \in SUBSET DOMAIN log
             /\ During(log, s) \in SUBSET DOMAIN log
             /\ Latest(log, s) \in SUBSET DOMAIN log
  BY DEF After, Since, During, Latest
<1>2. \A S \in SUBSET DOMAIN log :
        SumLog(log, S) \in Nat /\ \A T \in SUBSET S : SumLog(log, T) <= SumLog(log, S)
  BY LogSets
<1> QED
  BY <1>1, <1>2

LEMMA SumLogEmpty ==
  ASSUME NEW log
  PROVE  SumLog(log, {}) = 0
BY SumEmpty DEF SumLog

LEMMA TimesKept ==
  ASSUME TypeOK, Times,
         Quiet \/ OpensWindow \/ \E e \in PaymentEvents : Pays(e)
  PROVE  Times'
<1>1. /\ events \in Seq(PaymentEvents) /\ now \in Nat
      /\ \A d \in DailyLimits : MaxLimit \in Nat /\ d <= MaxLimit
      /\ \A i \in DOMAIN events : events[i].ts \in Nat /\ events[i].ts <= now
  BY BudgetNumbers, LimitBound, LogSets DEF Times
<1>2. CASE Quiet
  BY <1>1, <1>2, BudgetNumbers DEF Quiet, Times
<1>3. CASE OpensWindow
  <2>1. vault'.daily_limit \in DailyLimits
    BY <1>3 DEF OpensWindow, Times
  <2>2. MaxLimit \in Nat
    BY <1>1, <2>1
  <2> QED
    BY <1>1, <1>3, <2>1, <2>2 DEF OpensWindow, Times
<1>4. ASSUME NEW e \in PaymentEvents, Pays(e) PROVE Times'
  <2>1. /\ DOMAIN events' = DOMAIN events \cup {Len(events) + 1}
        /\ events'[Len(events) + 1] = e
        /\ \A i \in DOMAIN events : events'[i] = events[i]
    BY <1>1, <1>4, LogGrows DEF Pays
  <2>2. \A i \in DOMAIN events' : events'[i].ts <= now'
    BY <1>1, <1>4, <2>1 DEF Pays
  <2>3. Open /\ vault.daily_limit \in DailyLimits /\ vault.window_start <= now
    BY <1>4 DEF Pays, Times
  <2>4. vault'.window_start <= now' /\ vault'.daily_limit \in DailyLimits
    BY <1>1, <1>4, <2>3 DEF Pays
  <2>5. vault'.spent_in_window \in Nat /\ vault.daily_limit \in Nat
    BY <1>4, <2>3, BudgetNumbers, EventNumbers DEF Pays
  <2>6. vault'.spent_in_window <= MaxLimit
    BY <1>1, <1>4, <2>3, <2>5 DEF Pays
  <2> QED
    BY <2>2, <2>4, <2>6 DEF Times
<1> QED
  BY <1>2, <1>3, <1>4

LEMMA WindowKept ==
  ASSUME TypeOK, Times, WindowCounted,
         Quiet \/ OpensWindow \/ \E e \in PaymentEvents : Pays(e)
  PROVE  WindowCounted'
<1>1. /\ events \in Seq(PaymentEvents) /\ now \in Nat
      /\ \A i \in DOMAIN events : events[i].ts \in Nat /\ events[i].ts <= now
  BY BudgetNumbers, LogSets DEF Times
<1>2. SumLog(events, After(events, now)) = 0 /\ SumLog(events, Since(events, now)) \in Nat
  <2>1. After(events, now) = {}
    BY <1>1 DEF After
  <2> QED
    BY <1>1, <2>1, SumLogEmpty, PartSums
<1>3. CASE Quiet
  BY <1>3 DEF Quiet, WindowCounted
<1>4. CASE OpensWindow
  BY <1>2, <1>4 DEF OpensWindow, WindowCounted
<1>5. ASSUME NEW e \in PaymentEvents, Pays(e) PROVE WindowCounted'
  <2>1. /\ e.amount \in Nat /\ e.ts = now /\ events' = Append(events, e)
        /\ Open /\ vault.window_start \in Nat /\ vault.spent_in_window \in Nat
        /\ vault.window_start <= now
    BY <1>5, EventNumbers, BudgetNumbers DEF Pays, Times
  <2>2. \A s \in Nat :
          /\ SumLog(events', After(events', s))
               = SumLog(events, After(events, s)) + (IF now > s THEN e.amount ELSE 0)
          /\ SumLog(events', Since(events', s))
               = SumLog(events, Since(events, s)) + (IF now >= s THEN e.amount ELSE 0)
    <3>1. \A s \in Nat :
            /\ SumLog(events', After(events', s))
                 = SumLog(events, After(events, s)) + (IF e.ts > s THEN e.amount ELSE 0)
            /\ SumLog(events', Since(events', s))
                 = SumLog(events, Since(events, s)) + (IF e.ts >= s THEN e.amount ELSE 0)
      <4>1. events \in Seq(PaymentEvents) /\ e \in PaymentEvents /\ events' = Append(events, e)
        BY <1>1, <1>5, <2>1
      <4> QED
        BY ONLY <4>1, SumsGrow, ZenonT(60)
    <3> QED
      BY <2>1, <3>1, Zenon
  <2>3. CASE vault'.window_start = now /\ vault'.spent_in_window = e.amount
    <3>1. /\ SumLog(events', After(events', now)) = 0
          /\ SumLog(events', Since(events', now)) >= e.amount
      BY <1>1, <1>2, <2>1, <2>2
    <3>2. WindowCounted'
      BY <2>1, <2>3, <3>1 DEF WindowCounted
    <3> QED
      BY <3>2
  <2>4. CASE /\ vault'.window_start = vault.window_start
             /\ vault'.spent_in_window = vault.spent_in_window + e.amount
    <3> DEFINE s == vault.window_start
    <3>1. /\ SumLog(events, After(events, s)) \in Nat
          /\ SumLog(events, Since(events, s)) \in Nat
          /\ SumLog(events, After(events, s)) <= vault.spent_in_window
          /\ vault.spent_in_window <= SumLog(events, Since(events, s))
      BY <1>1, <2>1, PartSums DEF WindowCounted
    <3>2. /\ SumLog(events', After(events', s)) <= vault.spent_in_window + e.amount
          /\ vault.spent_in_window + e.amount <= SumLog(events', Since(events', s))
      BY <1>1, <2>1, <2>2, <3>1
    <3>3. WindowCounted'
      BY <2>4, <3>2 DEF WindowCounted
    <3> QED
      BY <3>3
  <2> QED
    BY <1>5, <2>3, <2>4 DEF Pays
<1> QED
  BY <1>3, <1>4, <1>5

LEMMA HistoryGrows ==
  ASSUME TypeOK, HistoryKept, Quiet \/ OpensWindow \/ \E e \in PaymentEvents : Pays(e)
  PROVE  HistoryKept'
<1>1. events \in Seq(PaymentEvents) /\ Len(events) \in Nat
  BY BudgetNumbers
<1>2. CASE Quiet
  BY <1>2 DEF Quiet, HistoryKept
<1>3. CASE OpensWindow
  <2>1. CASE vault'.total_paid = 0 /\ vault'.payment_count = 0
    <3>1. Latest(events, 0) = {}
      BY <1>1 DEF Latest
    <3>2. SumLog(events, Latest(events, 0)) = 0
      BY <3>1, SumLogEmpty
    <3>3. HistoryKept'
      BY <1>1, <1>3, <2>1, <3>1, <3>2 DEF HistoryKept, OpensWindow
    <3> QED
      BY <3>3
  <2>2. CASE Open /\ vault'.total_paid = vault.total_paid
             /\ vault'.payment_count = vault.payment_count /\ vault'.mint = vault.mint
    BY <1>3, <2>2 DEF HistoryKept, OpensWindow
  <2> QED
    BY <1>3, <2>1, <2>2 DEF OpensWindow
<1>4. ASSUME NEW e \in PaymentEvents, Pays(e) PROVE HistoryKept'
  <2> DEFINE n == vault.payment_count
  <2>1. /\ events' = Append(events, e) /\ Len(events') = Len(events) + 1
        /\ DOMAIN events' = DOMAIN events \cup {Len(events) + 1}
        /\ events'[Len(events) + 1] = e
        /\ \A i \in DOMAIN events : events'[i] = events[i]
    BY <1>1, <1>4, LogGrows DEF Pays
  <2>2. /\ Open /\ n \in Nat /\ n <= Len(events)
        /\ vault.total_paid = SumLog(events, Latest(events, n))
        /\ vault'.payment_count = n + 1 /\ vault'.mint = vault.mint
        /\ vault'.total_paid = vault.total_paid + e.amount
        /\ e.mint = vault.mint /\ e.payment_count = n + 1
    BY <1>4, BudgetNumbers DEF Pays, HistoryKept
  <2>3. SumLog(events', Latest(events', n + 1)) = SumLog(events, Latest(events, n)) + e.amount
    <3>1. /\ events \in Seq(PaymentEvents) /\ e \in PaymentEvents /\ events' = Append(events, e)
          /\ n \in Nat /\ n <= Len(events)
      BY <1>1, <1>4, <2>1, <2>2
    <3> QED
      BY ONLY <3>1, SumsGrow, ZenonT(60)
  <2>4. ASSUME NEW i \in Latest(events', n + 1)
        PROVE  /\ events'[i].payment_count = i - (Len(events') - (n + 1))
               /\ events'[i].mint = vault.mint
    <3>1. CASE i \in DOMAIN events
      <4>1. i \in Latest(events, n) /\ events'[i] = events[i]
        BY <1>1, <2>1, <2>2, <3>1 DEF Latest
      <4>2. events[i].payment_count = i - (Len(events) - n) /\ events[i].mint = vault.mint
        BY <2>2, <4>1 DEF HistoryKept
      <4> QED
        BY <1>1, <2>1, <2>2, <3>1, <4>1, <4>2, SMTT(40)
    <3>2. CASE i = Len(events) + 1
      BY <1>1, <2>1, <2>2, <3>2
    <3> QED
      BY <2>1, <3>1, <3>2 DEF Latest
  <2> HIDE DEF n
  <2>5. /\ vault'.payment_count <= Len(events')
        /\ vault'.total_paid = SumLog(events', Latest(events', vault'.payment_count))
    BY <1>1, <2>1, <2>2, <2>3
  <2>6. \A i \in Latest(events', vault'.payment_count) :
          /\ events'[i].payment_count = i - (Len(events') - vault'.payment_count)
          /\ events'[i].mint = vault'.mint
    BY <2>2, <2>4
  <2>7. HistoryKept'
    BY <2>5, <2>6 DEF HistoryKept
  <2> QED
    BY <2>7
<1> QED
  BY <1>2, <1>3, <1>4

(* The clock's second joins the stretches that hold it.                    *)
LEMMA ArmingsGrow ==
  ASSUME NEW t \in Nat, NEW a \in Seq(Nat), NEW x \in Nat, NEW longer, longer = Append(a, x)
  PROVE  /\ Cardinality(ArmedDuring(a, t)) \in Nat
         /\ Cardinality(ArmedDuring(longer, t))
              = Cardinality(ArmedDuring(a, t)) + (IF x \in Stretch(t) THEN 1 ELSE 0)
<1> DEFINE n == Len(a) + 1
<1>1. /\ DOMAIN longer = DOMAIN a \cup {n} /\ n \notin DOMAIN a
      /\ longer[n] = x /\ \A i \in DOMAIN a : longer[i] = a[i]
  OBVIOUS
<1>2. IsFiniteSet(DOMAIN a)
  BY FS_Interval
<1>3. IsFiniteSet(ArmedDuring(a, t)) /\ n \notin ArmedDuring(a, t)
  BY <1>1, <1>2, FS_Subset DEF ArmedDuring
<1>4. Cardinality(ArmedDuring(a, t)) \in Nat
  BY <1>3, FS_CardinalityType
<1>5. CASE x \in Stretch(t)
  <2>1. ArmedDuring(longer, t) = ArmedDuring(a, t) \cup {n}
    BY <1>1, <1>5 DEF ArmedDuring
  <2> HIDE DEF n
  <2>2. Cardinality(ArmedDuring(a, t) \cup {n}) = Cardinality(ArmedDuring(a, t)) + 1
    BY <1>3, FS_AddElement
  <2>3. Cardinality(ArmedDuring(longer, t)) = Cardinality(ArmedDuring(a, t)) + 1
    BY <2>1, <2>2, Zenon
  <2> QED
    BY <1>4, <1>5, <2>3
<1>6. CASE x \notin Stretch(t)
  <2>1. ArmedDuring(longer, t) = ArmedDuring(a, t)
    BY <1>1, <1>6 DEF ArmedDuring
  <2>2. Cardinality(ArmedDuring(longer, t)) = Cardinality(ArmedDuring(a, t))
    BY <2>1, Zenon
  <2> QED
    BY <1>4, <1>6, <2>2
<1> QED
  BY <1>5, <1>6

LEMMA LimitsGrow ==
  ASSUME MaxLimit \in Nat, NEW k \in Nat
  PROVE  /\ Limits(k) \in Nat /\ Limits(k + 1) = Limits(k) + MaxLimit
         /\ Limits(k + 2) = Limits(k + 1) + MaxLimit /\ Limits(1) = MaxLimit
<1>1. k * MaxLimit \in Nat /\ (k + 1) * MaxLimit = k * MaxLimit + MaxLimit
      /\ (k + 2) * MaxLimit = (k + 1) * MaxLimit + MaxLimit
  OBVIOUS
<1> QED
  BY <1>1 DEF Limits

LEMMA StretchStep ==
  ASSUME TypeOK, Times, WindowCounted, DailyLimits # {},
         Quiet \/ OpensWindow \/ \E e \in PaymentEvents : Pays(e),
         NEW t \in Nat, StretchKept(t)
  PROVE  StretchKept(t)'
<1> DEFINE p == PaidDuring(t)
           k == Armings(t)
<1>1. /\ events \in Seq(PaymentEvents) /\ now \in Nat /\ arms \in Seq(Nat)
      /\ WINDOW_SECONDS \in Nat /\ WINDOW_SECONDS > 0 /\ MaxLimit \in Nat
  BY BudgetNumbers, LimitBound
<1>2. p \in Nat /\ k \in Nat
  BY <1>1, PartSums, ArmingsGrow DEF PaidDuring, Armings
<1>3. /\ Limits(k) \in Nat /\ Limits(k + 1) = Limits(k) + MaxLimit
      /\ Limits(k + 2) = Limits(k + 1) + MaxLimit
      /\ Limits(k + 3) = Limits(k + 2) + MaxLimit
  <2>1. k + 1 \in Nat /\ (k + 1) + 2 = k + 3 /\ (k + 1) + 1 = k + 2
    BY <1>2
  <2> HIDE DEF k
  <2> QED
    BY <1>1, <1>2, <2>1, LimitsGrow
<1>4. /\ p <= Limits(k + 2)
      /\ Open /\ vault.window_start \in Stretch(t) =>
           p <= vault.spent_in_window + Limits(k + 1)
  BY DEF StretchKept
<1>5. CASE Quiet
  <2>1. PaidDuring(t)' = p /\ Armings(t)' = k
    BY <1>5 DEF Quiet, PaidDuring, Armings
  <2>2. Open' => /\ Open /\ vault'.window_start = vault.window_start
                 /\ vault'.spent_in_window = vault.spent_in_window
    BY <1>5 DEF Quiet
  <2> QED
    BY <1>4, <2>1, <2>2 DEF StretchKept
<1>6. CASE OpensWindow
  <2>1. PaidDuring(t)' = p
    BY <1>6 DEF OpensWindow, PaidDuring
  <2>2. Armings(t)' = k + (IF now \in Stretch(t) THEN 1 ELSE 0)
    <3>1. arms \in Seq(Nat) /\ now \in Nat /\ t \in Nat /\ arms' = Append(arms, now)
      BY <1>1, <1>6 DEF OpensWindow
    <3>2. Cardinality(ArmedDuring(arms', t))
            = Cardinality(ArmedDuring(arms, t)) + (IF now \in Stretch(t) THEN 1 ELSE 0)
      BY ONLY <3>1, ArmingsGrow, ZenonT(60)
    <3> QED
      BY <3>2 DEF Armings
  <2>3. vault'.window_start = now /\ vault'.spent_in_window = 0
    BY <1>6 DEF OpensWindow
  <2> HIDE DEF p, k
  <2>4. CASE now \in Stretch(t)
    <3>1. Armings(t)' = k + 1 /\ (k + 1) + 2 = k + 3 /\ (k + 1) + 1 = k + 2
      BY <1>2, <2>2, <2>4
    <3>2. Limits(Armings(t)' + 2) = Limits(k + 3) /\ Limits(Armings(t)' + 1) = Limits(k + 2)
      BY <3>1
    <3>3. p <= Limits(k + 3) /\ p <= 0 + Limits(k + 2)
      BY <1>1, <1>2, <1>3, <1>4
    <3> QED
      BY <2>1, <2>3, <3>2, <3>3 DEF StretchKept
  <2>5. CASE now \notin Stretch(t)
    <3>1. Armings(t)' = k
      BY <1>2, <2>2, <2>5
    <3> QED
      BY <1>4, <2>1, <2>3, <2>5, <3>1 DEF StretchKept
  <2> QED
    BY <2>4, <2>5
<1>7. ASSUME NEW e \in PaymentEvents, Pays(e) PROVE StretchKept(t)'
  <2> DEFINE ws == vault.window_start
             spent == vault.spent_in_window
  <2>1. /\ e.amount \in Nat /\ e.ts = now /\ events' = Append(events, e) /\ arms' = arms
        /\ Open /\ ws \in Nat /\ spent \in Nat /\ vault.daily_limit \in Nat
        /\ ws <= now /\ spent <= MaxLimit /\ vault.daily_limit <= MaxLimit
        /\ vault'.spent_in_window <= vault.daily_limit
    BY <1>7, EventNumbers, BudgetNumbers, LimitBound DEF Pays, Times
  <2>2. Armings(t)' = k
    BY <2>1 DEF Armings
  <2>3. PaidDuring(t)' = p + (IF now \in Stretch(t) THEN e.amount ELSE 0)
    <3>1. SumLog(events', During(events', t))
            = SumLog(events, During(events, t)) + (IF e.ts \in Stretch(t) THEN e.amount ELSE 0)
      <4>1. events \in Seq(PaymentEvents) /\ e \in PaymentEvents /\ events' = Append(events, e)
        BY <1>1, <1>7, <2>1
      <4> QED
        BY ONLY <4>1, SumsGrow, ZenonT(60)
    <3> QED
      BY <2>1, <3>1 DEF PaidDuring
  <2>4. ws < t => p <= spent
    <3>1. ws < t => During(events, t) \subseteq After(events, ws)
      BY <1>1, <2>1, LogSets DEF During, After, Stretch
    <3>2. /\ SumLog(events, After(events, ws)) <= spent
          /\ SumLog(events, After(events, ws)) \in Nat
      BY <1>1, <2>1, PartSums DEF WindowCounted
    <3>3. ws < t => p <= SumLog(events, After(events, ws))
      BY <1>1, <3>1, PartSums DEF PaidDuring
    <3> QED
      BY <1>2, <2>1, <3>2, <3>3
  <2>5. now \in Stretch(t) => now < t + WINDOW_SECONDS /\ t <= now
    BY <1>1 DEF Stretch
  <2>6. ws \in Stretch(t) <=> t <= ws /\ ws < t + WINDOW_SECONDS
    BY <1>1, <2>1 DEF Stretch
  <2>7. \/ /\ now >= ws + WINDOW_SECONDS
           /\ vault'.window_start = now /\ vault'.spent_in_window = e.amount
        \/ vault'.window_start = ws /\ vault'.spent_in_window = spent + e.amount
    BY <1>7 DEF Pays
  <2>8. /\ p <= Limits(k + 2)
        /\ ws \in Stretch(t) => p <= spent + Limits(k + 1)
    BY <1>4, <2>1
  <2> HIDE DEF p, k, ws, spent
  <2>n. /\ Limits(k + 1) \in Nat /\ MaxLimit \in Nat /\ p \in Nat /\ spent \in Nat /\ e.amount \in Nat
        /\ Limits(k + 2) = Limits(k + 1) + MaxLimit /\ MaxLimit <= Limits(k + 1)
    BY <1>1, <1>2, <1>3, <2>1, SMTT(40)
  <2> DEFINE L == Limits(k + 1)
  <2>m. /\ L \in Nat /\ MaxLimit <= L /\ p <= L + MaxLimit /\ (ws \in Stretch(t) => p <= spent + L)
        /\ vault'.spent_in_window <= MaxLimit /\ vault'.spent_in_window \in Nat
    BY <2>n, <2>1, <2>7, <2>8, SMTT(40)
  <2> HIDE DEF L
  <2>9. CASE now \notin Stretch(t)
    <3>1. PaidDuring(t)' = p
      BY <1>2, <2>3, <2>9
    <3>2. vault'.window_start \in Stretch(t) => p <= vault'.spent_in_window + L
      BY <2>m, <2>n, <2>7, <2>9
    <3> QED
      BY <2>2, <2>8, <3>1, <3>2 DEF StretchKept, L
  <2>10. CASE now \in Stretch(t)
    <3>1. PaidDuring(t)' = p + e.amount
      BY <2>3, <2>10
    <3>2. CASE /\ now >= ws + WINDOW_SECONDS
               /\ vault'.window_start = now /\ vault'.spent_in_window = e.amount
      <4>1. p <= spent
        BY <1>1, <2>1, <2>4, <2>5, <2>10, <3>2
      <4>2. p + e.amount <= e.amount + L /\ p + e.amount <= L + MaxLimit
        BY <2>m, <2>n, <2>1, <3>2, <4>1
      <4> QED
        BY <2>2, <2>n, <3>1, <3>2, <4>2 DEF StretchKept, L
    <3>3. CASE vault'.window_start = ws /\ vault'.spent_in_window = spent + e.amount
      <4>1. CASE ws \in Stretch(t)
        <5>1. /\ p + e.amount <= (spent + e.amount) + L
              /\ p + e.amount <= L + MaxLimit
          BY <2>m, <2>n, <3>3, <4>1
        <5> QED
          BY <2>2, <2>n, <3>1, <3>3, <5>1 DEF StretchKept, L
      <4>2. CASE ws \notin Stretch(t)
        <5>1. p <= spent
          BY <1>1, <2>1, <2>4, <2>5, <2>6, <2>10, <4>2
        <5>2. p + e.amount <= L + MaxLimit
          BY <2>m, <2>n, <3>3, <5>1
        <5> QED
          BY <2>2, <2>n, <3>1, <3>3, <4>2, <5>2 DEF StretchKept, L
      <4> QED
        BY <4>1, <4>2
    <3> QED
      BY <2>7, <3>2, <3>3
  <2> QED
    BY <2>9, <2>10
<1> QED
  BY <1>5, <1>6, <1>7

-----------------------------------------------------------------------------
(* Before any vault is opened the log is empty.                            *)
LEMMA InitAccount == Init => AccountInv
<1> SUFFICES ASSUME Init PROVE AccountInv
  OBVIOUS
<1>1. CustodyInv
  BY InitCustody
<1>2. ~Open /\ \A i \in DOMAIN events : events[i].ts <= now
  BY DEF Init, Open
<1> QED
  BY <1>1, <1>2 DEF AccountInv, Times, WindowCounted, HistoryKept

LEMMA InitStretches ==
  ASSUME DailyLimits # {}, Init
  PROVE  StretchesKept
<1> SUFFICES ASSUME NEW t \in Nat PROVE StretchKept(t)
  BY DEF StretchesKept
<1>1. ~Open /\ events = <<>> /\ arms = <<>>
  BY DEF Init, Open
<1>2. During(events, t) = {} /\ ArmedDuring(arms, t) = {}
  BY <1>1 DEF During, ArmedDuring
<1>3. PaidDuring(t) = 0 /\ Armings(t) = 0
  <2>1. PaidDuring(t) = SumLog(events, {})
    BY <1>2, Zenon DEF PaidDuring
  <2>2. Armings(t) = Cardinality({})
    BY <1>2, Zenon DEF Armings
  <2> QED
    BY <2>1, <2>2, SumLogEmpty, FS_EmptySet
<1>4. Limits(0 + 2) \in Nat
  BY LimitBound, LimitsGrow
<1>5. 0 <= Limits(0 + 2)
  BY <1>4
<1> QED
  BY <1>1, <1>3, <1>5 DEF StretchKept

LEMMA AccountStep ==
  ASSUME AccountInv, [Next]_vars
  PROVE  AccountInv'
<1>1. TypeOK /\ CustodyInv'
  BY CustodyInductive DEF AccountInv, CustodyInv
<1>2. Quiet \/ OpensWindow \/ \E e \in PaymentEvents : Pays(e)
  BY StepKinds DEF AccountInv
<1> QED
  BY <1>1, <1>2, TimesKept, WindowKept, HistoryGrows DEF AccountInv

LEMMA StretchesStep ==
  ASSUME DailyLimits # {}, AccountInv, StretchesKept, [Next]_vars
  PROVE  StretchesKept'
<1>1. TypeOK /\ Times /\ WindowCounted
  BY DEF AccountInv, CustodyInv
<1>2. Quiet \/ OpensWindow \/ \E e \in PaymentEvents : Pays(e)
  BY StepKinds DEF AccountInv
<1>3. ASSUME NEW t \in Nat PROVE StretchKept(t)'
  BY <1>1, <1>2, StretchStep DEF StretchesKept
<1> QED
  BY <1>3 DEF StretchesKept

(* What an open vault counts is what its log, its window and its history   *)
(* say, through every order of instructions and of time.                   *)
THEOREM AccountCorrect == Spec => []AccountInv
  BY InitAccount, AccountStep, PTL DEF Spec

-----------------------------------------------------------------------------
(* What the runs state with Paid is what the invariant says of the log.    *)
LEMMA PaidPart ==
  ASSUME TypeOK, NEW S \in SUBSET DOMAIN events
  PROVE  Paid(S) = SumLog(events, S)
<1>1. events \in Seq(PaymentEvents)
  BY DEF TypeOK
<1>2. IsFiniteSet(S)
  BY <1>1, LogSets
<1> QED
  BY <1>2, PaidIsSum

LEMMA AccountImplies ==
  ASSUME AccountInv
  PROVE  SpentIsWindowTotal /\ TotalMatchesHistory
<1>1. TypeOK
  BY DEF AccountInv, CustodyInv
<1>2. \A s : /\ {i \in DOMAIN events : events[i].ts > s} = After(events, s)
             /\ {i \in DOMAIN events : events[i].ts >= s} = Since(events, s)
  BY DEF After, Since
<1>3. \A s : /\ Paid({i \in DOMAIN events : events[i].ts > s}) = SumLog(events, After(events, s))
             /\ Paid({i \in DOMAIN events : events[i].ts >= s}) = SumLog(events, Since(events, s))
  <2>1. \A s : /\ After(events, s) \in SUBSET DOMAIN events
               /\ Since(events, s) \in SUBSET DOMAIN events
    BY DEF After, Since
  <2>2. \A s : /\ Paid(After(events, s)) = SumLog(events, After(events, s))
               /\ Paid(Since(events, s)) = SumLog(events, Since(events, s))
    BY <1>1, <2>1, PaidPart
  <2> QED
    BY <2>2 DEF After, Since
<1>4. SpentIsWindowTotal
  <2> QED
    BY <1>3, Zenon DEF AccountInv, WindowCounted, SpentIsWindowTotal
<1>5. TotalMatchesHistory
  <2> DEFINE life == Latest(events, vault.payment_count)
  <2>1. Paid(life) = SumLog(events, life)
    <3>1. life \in SUBSET DOMAIN events
      BY DEF Latest
    <3> QED
      BY <1>1, <3>1, PaidPart
  <2>2. Open => /\ vault.payment_count <= Len(events)
                /\ vault.total_paid = Paid(life)
                /\ \A i \in life :
                     /\ events[i].payment_count = i - (Len(events) - vault.payment_count)
                     /\ events[i].mint = vault.mint
    BY <2>1 DEF AccountInv, HistoryKept
  <2> QED
    BY <2>2 DEF TotalMatchesHistory, Latest
<1> QED
  BY <1>4, <1>5

LEMMA StretchesImply ==
  ASSUME DailyLimits # {}, AccountInv, StretchesKept
  PROVE  RollingBudget
<1>1. TypeOK /\ now \in Nat /\ arms \in Seq(Nat) /\ MaxLimit \in Nat
  BY LimitBound DEF AccountInv, CustodyInv, TypeOK
<1> SUFFICES ASSUME NEW t \in 0 .. now
             PROVE  Paid({i \in DOMAIN events : events[i].ts \in t .. (t + WINDOW_SECONDS - 1)})
                      <= (2 + Cardinality({i \in DOMAIN arms :
                                             arms[i] \in t .. (t + WINDOW_SECONDS - 1)}))
                           * Max(DailyLimits)
  BY DEF RollingBudget
<1>2. t \in Nat
  BY <1>1
<1>3. Paid(During(events, t)) = PaidDuring(t)
  <2>1. During(events, t) \in SUBSET DOMAIN events
    BY DEF During
  <2> QED
    BY <1>1, <2>1, PaidPart DEF PaidDuring
<1>4. PaidDuring(t) <= Limits(Armings(t) + 2)
  BY <1>2 DEF StretchesKept, StretchKept
<1>5. Armings(t) \in Nat
  BY <1>1, <1>2, ArmingsGrow DEF Armings
<1>6. Limits(Armings(t) + 2) = (2 + Armings(t)) * MaxLimit
  BY <1>5 DEF Limits
<1>7. Paid(During(events, t)) <= (2 + Cardinality(ArmedDuring(arms, t))) * MaxLimit
  BY <1>3, <1>4, <1>6 DEF Armings
<1> QED
  BY <1>7 DEF During, ArmedDuring, Stretch, MaxLimit

(* What an open vault counts as spent is what its log says was paid since  *)
(* its window opened, however payments, resets, closes and re-creations    *)
(* follow each other.                                                      *)
THEOREM SpentMatchesLog == Spec => []SpentIsWindowTotal
<1>1. AccountInv => SpentIsWindowTotal
  BY AccountImplies
<1> QED
  BY <1>1, AccountCorrect, PTL

(* total_paid and payment_count of an open vault are those of the latest   *)
(* payments of the log, numbered without a gap.                            *)
THEOREM TotalsMatchLog == Spec => []TotalMatchesHistory
<1>1. AccountInv => TotalMatchesHistory
  BY AccountImplies
<1> QED
  BY <1>1, AccountCorrect, PTL

(* The boundary claim of the program's docs: twice the largest limit in    *)
(* any stretch as long as a window, and one more for each re-arming in it. *)
(* An owner who writes no limit opens no vault, and Max({}) is no number.  *)
THEOREM RollingBudgetHolds ==
  ASSUME DailyLimits # {}
  PROVE  Spec => []RollingBudget
<1>1. Init => AccountInv /\ StretchesKept
  BY InitAccount, InitStretches
<1>2. AccountInv /\ StretchesKept /\ [Next]_vars => (AccountInv /\ StretchesKept)'
  BY AccountStep, StretchesStep
<1>3. AccountInv /\ StretchesKept => RollingBudget
  BY StretchesImply
<1> QED
  BY <1>1, <1>2, <1>3, PTL DEF Spec

=============================================================================
