-------------------------- MODULE PipelineTheorems --------------------------
(***************************************************************************)
(* Proofs about SpeechPipeline: its types; that permits, Gemini's files    *)
(* and retry tokens are accounted for; that the providers are asked        *)
(* completely, once each and in order; and that an answer names the audio  *)
(* its call generated.                                                     *)
(***************************************************************************)
EXTENDS SpeechPipeline, FiniteSetTheorems, WellFoundedInduction, TLAPS

(***************************************************************************)
(* The order of providers                                                  *)
(***************************************************************************)

\* Induction over naturals in the form of a least counterexample.
LEMMA LeastNatural ==
    ASSUME NEW T \in SUBSET Nat, T # {}
    PROVE  \E n \in T : \A m \in T : n <= m
  <1>1. PICK n \in T : \A m \in T : ~ (<<m, n>> \in OpToRel(<, Nat))
    BY WFMin, NatLessThanWellFounded
  <1>2. ASSUME NEW m \in T PROVE n <= m
    <2>1. ~ (<<m, n>> \in OpToRel(<, Nat))
      BY <1>1
    <2>2. ~ (m < n)
      BY <2>1 DEF OpToRel
    <2> QED BY <2>2
  <1> QED BY <1>2

\* One step of Without.
KeptStep(base, used, f, i) ==
    IF i = 0 THEN <<>>
    ELSE IF base[i] \in used THEN f[i - 1] ELSE Append(f[i - 1], base[i])

\* f takes KeptStep at every index up to n.
KeptBy(f, S, base, used, n) ==
    /\ f \in [0 .. n -> Seq(S)]
    /\ \A i \in 0 .. n : f[i] = KeptStep(base, used, f, i)

\* The function that Without chooses exists, on every prefix of base.
LEMMA KeptExists ==
    ASSUME NEW S, NEW base \in Seq(S), NEW used, NEW n \in 0 .. Len(base)
    PROVE  \E f : KeptBy(f, S, base, used, n)
  <1> USE DEF KeptBy
  <1> DEFINE Good(k) == \E f : KeptBy(f, S, base, used, k)
             Bad == {k \in 0 .. Len(base) : ~Good(k)}
  <1> SUFFICES ASSUME Bad # {} PROVE FALSE
    OBVIOUS
  <1>0. Len(base) \in Nat /\ \A i \in 1 .. Len(base) : base[i] \in S
    OBVIOUS
  <1>1. Bad \in SUBSET Nat
    BY <1>0
  <1>2. PICK k \in Bad : \A m \in Bad : k <= m
    <2> HIDE DEF Bad
    <2> QED BY <1>1, LeastNatural
  <1>3. k \in 0 .. Len(base) /\ ~Good(k)
    OBVIOUS
  <1>4. Good(0)
    <2> DEFINE f == [i \in 0 .. 0 |-> <<>>]
    <2>1. f \in [0 .. 0 -> Seq(S)]
      OBVIOUS
    <2>2. \A i \in 0 .. 0 : f[i] = KeptStep(base, used, f, i)
      BY DEF KeptStep
    <2> QED BY <2>1, <2>2
  <1>5. k # 0
    BY <1>3, <1>4
  <1>6. Good(k - 1)
    <2>1. k - 1 \in 0 .. Len(base) /\ ~(k <= k - 1)
      BY <1>0, <1>3, <1>5
    <2>2. k - 1 \notin Bad
      BY <1>2, <2>1
    <2> QED BY <2>1, <2>2
  <1>7. PICK g : KeptBy(g, S, base, used, k - 1)
    BY <1>6
  <1> DEFINE h == [i \in 0 .. k |-> IF i < k THEN g[i] ELSE KeptStep(base, used, g, k)]
  <1>8. KeptStep(base, used, g, k) \in Seq(S)
    <2>1. g[k - 1] \in Seq(S) /\ base[k] \in S
      BY <1>0, <1>3, <1>5, <1>7
    <2> QED BY <2>1, <1>5 DEF KeptStep
  <1>9. h \in [0 .. k -> Seq(S)]
    BY <1>0, <1>3, <1>7, <1>8
  <1>10. ASSUME NEW i \in 0 .. k PROVE h[i] = KeptStep(base, used, h, i)
    <2>0. i \in Nat /\ k \in Nat
      BY <1>0, <1>3
    <2>1. i # 0 => h[i - 1] = g[i - 1]
      BY <2>0
    <2>2. KeptStep(base, used, h, i) = KeptStep(base, used, g, i)
      BY <2>1 DEF KeptStep
    <2>3. CASE i < k
      <3>1. i \in 0 .. (k - 1) /\ h[i] = g[i]
        BY <2>0, <2>3
      <3> QED BY <2>2, <3>1, <1>7
    <2>4. CASE ~(i < k)
      <3>1. i = k
        BY <2>0, <2>4
      <3> QED BY <2>2, <3>1, <2>4
    <2> QED BY <2>3, <2>4
  <1> HIDE DEF h
  <1> QED BY <1>3, <1>9, <1>10

\* Without is the last value of a function that takes KeptStep at every index.
LEMMA WithoutDef ==
    ASSUME NEW S, NEW base \in Seq(S), NEW used
    PROVE  \E f \in [0 .. Len(base) -> Seq(S)] :
              /\ \A i \in 0 .. Len(base) : f[i] = KeptStep(base, used, f, i)
              /\ Without(base, used) = f[Len(base)]
  <1> DEFINE D(f) == [i \in 0 .. Len(base) |-> KeptStep(base, used, f, i)]
             kept == CHOOSE f : f = D(f)
  <1>0. Len(base) \in Nat /\ Len(base) \in 0 .. Len(base)
    OBVIOUS
  <1>1. PICK e \in [0 .. Len(base) -> Seq(S)] : e = D(e)
    <2>1. PICK e : KeptBy(e, S, base, used, Len(base))
      BY <1>0, KeptExists
    <2>2. /\ e \in [0 .. Len(base) -> Seq(S)]
          /\ \A i \in 0 .. Len(base) : e[i] = KeptStep(base, used, e, i)
      BY <2>1 DEF KeptBy
    <2>3. e = D(e)
      BY <2>2
    <2> QED BY <2>3
  <1>2. kept = D(kept)
    <2> HIDE DEF D
    <2> QED BY <1>1
  <1>3. Without(base, used) = kept[Len(base)]
    BY DEF Without, KeptStep
  <1> HIDE DEF kept
  <1>4. ASSUME NEW i \in 0 .. Len(base) PROVE kept[i] = KeptStep(base, used, kept, i)
    BY <1>2
  <1>5. kept = [i \in 0 .. Len(base) |-> kept[i]]
    BY <1>2
  <1>6. \A i \in 0 .. Len(base) : kept[i] \in Seq(S)
    <2> DEFINE Bad == {k \in 0 .. Len(base) : kept[k] \notin Seq(S)}
    <2> SUFFICES ASSUME Bad # {} PROVE FALSE
      OBVIOUS
    <2>1. Bad \in SUBSET Nat
      BY <1>0
    <2>2. PICK k \in Bad : \A m \in Bad : k <= m
      <3> HIDE DEF Bad
      <3> QED BY <2>1, LeastNatural
    <2>3. k # 0
      <3>1. kept[0] = <<>> /\ <<>> \in Seq(S)
        BY <1>4, <1>0 DEF KeptStep
      <3> QED BY <3>1
    <2>4. k - 1 \in 0 .. Len(base) /\ ~(k <= k - 1) /\ base[k] \in S
      BY <1>0, <2>3
    <2>5. kept[k - 1] \in Seq(S)
      BY <2>2, <2>4
    <2>6. KeptStep(base, used, kept, k) \in Seq(S)
      BY <2>3, <2>4, <2>5 DEF KeptStep
    <2> QED BY <2>6, <1>4
  <1>7. kept \in [0 .. Len(base) -> Seq(S)]
    BY <1>5, <1>6
  <1> QED BY <1>3, <1>4, <1>7

\* The range of a sequence with one more element.
LEMMA RangeAppend ==
    ASSUME NEW S, NEW s \in Seq(S), NEW e \in S
    PROVE  Range(Append(s, e)) = Range(s) \cup {e}
  <1>1. /\ DOMAIN Append(s, e) = 1 .. Len(s) + 1 /\ DOMAIN s = 1 .. Len(s) /\ Len(s) \in Nat
        /\ Append(s, e)[Len(s) + 1] = e
        /\ \A i \in 1 .. Len(s) : Append(s, e)[i] = s[i]
    OBVIOUS
  <1>2. \A i \in 1 .. Len(s) + 1 : i \in 1 .. Len(s) \/ i = Len(s) + 1
    BY <1>1
  <1>3. \A i \in 1 .. Len(s) : i \in 1 .. Len(s) + 1
    BY <1>1
  <1>4. Len(s) + 1 \in 1 .. Len(s) + 1
    BY <1>1
  <1> QED BY <1>1, <1>2, <1>3, <1>4 DEF Range

\* An injective sequence stays so with an element it does not have.
LEMMA InjectiveAppend ==
    ASSUME NEW S, NEW s \in Seq(S), NEW e \in S, e \notin Range(s), IsInjective(s)
    PROVE  IsInjective(Append(s, e))
  <1>1. /\ DOMAIN Append(s, e) = 1 .. Len(s) + 1 /\ DOMAIN s = 1 .. Len(s) /\ Len(s) \in Nat
        /\ Append(s, e)[Len(s) + 1] = e
        /\ \A i \in 1 .. Len(s) : Append(s, e)[i] = s[i]
    OBVIOUS
  <1>2. \A i \in 1 .. Len(s) + 1 : i \in 1 .. Len(s) \/ i = Len(s) + 1
    BY <1>1
  <1>3. \A i \in 1 .. Len(s) : s[i] # e
    BY <1>1 DEF Range
  <1> QED BY <1>1, <1>2, <1>3 DEF IsInjective

\* What Without computes: the members of base that are not used, once each
\* when base has them once each.
LEMMA WithoutEffect ==
    ASSUME NEW S, NEW base \in Seq(S), NEW used
    PROVE  /\ Without(base, used) \in Seq(S)
           /\ Range(Without(base, used)) = Range(base) \ used
           /\ IsInjective(base) => IsInjective(Without(base, used))
  <1>0. Len(base) \in Nat /\ DOMAIN base = 1 .. Len(base) /\ \A i \in 1 .. Len(base) : base[i] \in S
    OBVIOUS
  <1>1. PICK f \in [0 .. Len(base) -> Seq(S)] :
              /\ \A i \in 0 .. Len(base) : f[i] = KeptStep(base, used, f, i)
              /\ Without(base, used) = f[Len(base)]
    BY WithoutDef
  <1> DEFINE First(i) == {base[j] : j \in 1 .. i}
             Good(i) == /\ Range(f[i]) = First(i) \ used
                        /\ IsInjective(base) => IsInjective(f[i])
             Bad == {i \in 0 .. Len(base) : ~Good(i)}
  <1>2. Bad = {}
    <2> SUFFICES ASSUME Bad # {} PROVE FALSE
      OBVIOUS
    <2>1. Bad \in SUBSET Nat
      BY <1>0
    <2>2. PICK k \in Bad : \A m \in Bad : k <= m
      <3> HIDE DEF Bad
      <3> QED BY <2>1, LeastNatural
    <2>3. k \in 0 .. Len(base) /\ ~Good(k)
      OBVIOUS
    <2>4. Good(0)
      <3>1. f[0] = <<>>
        BY <1>0, <1>1 DEF KeptStep
      <3> QED BY <3>1 DEF Range, IsInjective
    <2>5. k # 0
      BY <2>3, <2>4
    <2>6. k - 1 \in 0 .. Len(base) /\ ~(k <= k - 1) /\ base[k] \in S /\ k \in 1 .. Len(base)
      BY <1>0, <2>3, <2>5
    <2>7. Good(k - 1)
      <3>1. k - 1 \notin Bad
        BY <2>2, <2>6
      <3> QED BY <2>6, <3>1
    <2>8. f[k] = IF base[k] \in used THEN f[k - 1] ELSE Append(f[k - 1], base[k])
      BY <1>1, <2>3, <2>5 DEF KeptStep
    <2>9. First(k) = First(k - 1) \cup {base[k]}
      BY <2>6, <1>0
    <2>10. CASE base[k] \in used
      BY <2>3, <2>7, <2>8, <2>9, <2>10
    <2>11. CASE base[k] \notin used
      <3>0. f[k - 1] \in Seq(S)
        BY <2>6
      <3>1. Range(f[k]) = Range(f[k - 1]) \cup {base[k]}
        BY <2>6, <2>8, <2>11, <3>0, RangeAppend
      <3>2. Range(f[k]) = First(k) \ used
        BY <2>7, <2>9, <2>11, <3>1
      <3>3. ASSUME IsInjective(base) PROVE IsInjective(f[k])
        <4>1. ASSUME NEW j \in 1 .. k - 1 PROVE base[j] # base[k]
          <5>1. j \in 1 .. Len(base) /\ j # k
            BY <1>0, <2>6
          <5> QED BY <3>3, <1>0, <2>6, <5>1 DEF IsInjective
        <4>2. base[k] \notin Range(f[k - 1])
          BY <4>1, <2>7
        <4>3. IsInjective(f[k - 1]) /\ f[k] = Append(f[k - 1], base[k])
          BY <3>3, <2>7, <2>8, <2>11
        <4> HIDE DEF First, Good, Bad
        <4> QED BY <4>2, <4>3, <2>6, <3>0, InjectiveAppend
      <3> QED BY <2>3, <3>2, <3>3
    <2> QED BY <2>10, <2>11
  <1>3. Len(base) \in 0 .. Len(base) /\ Good(Len(base))
    <2>1. Len(base) \in 0 .. Len(base)
      BY <1>0
    <2>2. Len(base) \notin Bad
      BY <1>2
    <2> QED BY <2>1, <2>2
  <1>4. First(Len(base)) = Range(base)
    BY <1>0 DEF Range
  <1> QED BY <1>1, <1>3, <1>4

\* The range of a concatenation, and when it is injective.
LEMMA ConcatEffect ==
    ASSUME NEW S, NEW s \in Seq(S), NEW t \in Seq(S)
    PROVE  /\ s \o t \in Seq(S)
           /\ Range(s \o t) = Range(s) \cup Range(t)
           /\ IsInjective(s) /\ IsInjective(t) /\ Range(s) \cap Range(t) = {} => IsInjective(s \o t)
           /\ Len(s \o t) = Len(s) + Len(t)
           /\ \A i \in 1 .. Len(s) : (s \o t)[i] = s[i]
  <1>0. /\ s \o t \in Seq(S) /\ Len(s) \in Nat /\ Len(t) \in Nat
        /\ Len(s \o t) = Len(s) + Len(t)
        /\ DOMAIN s = 1 .. Len(s) /\ DOMAIN t = 1 .. Len(t)
        /\ DOMAIN (s \o t) = 1 .. Len(s) + Len(t)
    OBVIOUS
  <1>1. \A i \in 1 .. Len(s) : i \in 1 .. Len(s) + Len(t) /\ (s \o t)[i] = s[i]
    BY <1>0
  <1>2. \A i \in 1 .. Len(t) : Len(s) + i \in 1 .. Len(s) + Len(t) /\ (s \o t)[Len(s) + i] = t[i]
    BY <1>0
  <1>3. \A i \in 1 .. Len(s) + Len(t) :
            i \in 1 .. Len(s) \/ (i - Len(s) \in 1 .. Len(t) /\ i = Len(s) + (i - Len(s)))
    BY <1>0
  <1>4. Range(s \o t) = Range(s) \cup Range(t)
    <2>1. ASSUME NEW x \in Range(s \o t) PROVE x \in Range(s) \cup Range(t)
      <3>1. PICK i \in 1 .. Len(s) + Len(t) : x = (s \o t)[i]
        BY <1>0 DEF Range
      <3>2. CASE i \in 1 .. Len(s)
        BY <1>0, <1>1, <3>1, <3>2 DEF Range
      <3>3. CASE i - Len(s) \in 1 .. Len(t) /\ i = Len(s) + (i - Len(s))
        <4>1. x = t[i - Len(s)]
          BY <1>2, <3>1, <3>3
        <4> QED BY <1>0, <3>3, <4>1 DEF Range
      <3> QED BY <1>3, <3>2, <3>3
    <2>2. ASSUME NEW x \in Range(s) PROVE x \in Range(s \o t)
      BY <1>0, <1>1, <2>2 DEF Range
    <2>3. ASSUME NEW x \in Range(t) PROVE x \in Range(s \o t)
      <3>1. PICK i \in 1 .. Len(t) : x = t[i]
        BY <1>0 DEF Range
      <3>2. Len(s) + i \in DOMAIN (s \o t) /\ x = (s \o t)[Len(s) + i]
        BY <1>0, <1>2, <3>1
      <3> QED BY <3>2 DEF Range
    <2> QED BY <2>1, <2>2, <2>3
  <1>5. ASSUME IsInjective(s), IsInjective(t), Range(s) \cap Range(t) = {}
        PROVE  IsInjective(s \o t)
    <2> SUFFICES ASSUME NEW a \in 1 .. Len(s) + Len(t), NEW b \in 1 .. Len(s) + Len(t),
                        (s \o t)[a] = (s \o t)[b]
                 PROVE  a = b
      BY <1>0 DEF IsInjective
    <2>1. CASE a \in 1 .. Len(s) /\ b \in 1 .. Len(s)
      BY <1>0, <1>1, <1>5, <2>1 DEF IsInjective
    <2>2. CASE a \in 1 .. Len(s) /\ b - Len(s) \in 1 .. Len(t) /\ b = Len(s) + (b - Len(s))
      <3>1. s[a] = t[b - Len(s)]
        BY <1>1, <1>2, <2>2
      <3> QED BY <1>0, <1>5, <2>2, <3>1 DEF Range
    <2>3. CASE b \in 1 .. Len(s) /\ a - Len(s) \in 1 .. Len(t) /\ a = Len(s) + (a - Len(s))
      <3>1. s[b] = t[a - Len(s)]
        BY <1>1, <1>2, <2>3
      <3> QED BY <1>0, <1>5, <2>3, <3>1 DEF Range
    <2>4. CASE /\ a - Len(s) \in 1 .. Len(t) /\ a = Len(s) + (a - Len(s))
               /\ b - Len(s) \in 1 .. Len(t) /\ b = Len(s) + (b - Len(s))
      <3>1. t[a - Len(s)] = t[b - Len(s)]
        BY <1>2, <2>4
      <3>2. a - Len(s) = b - Len(s)
        BY <1>0, <1>5, <2>4, <3>1 DEF IsInjective
      <3> QED BY <2>4, <3>2
    <2> QED BY <1>3, <2>1, <2>2, <2>3, <2>4
  <1> QED BY <1>0, <1>1, <1>4, <1>5

\* resolve_order, when it does not refuse: the preferred providers first, and
\* with them all of base, once each.
LEMMA ResolveOrderEffect ==
    ASSUME NEW requested \in Seq(Providers), NEW base \in Seq(Providers)
    PROVE  /\ ResolveOrder(requested, base) \in Seq(Providers)
           /\ ResolveOrder(requested, base) # <<>> =>
                /\ Range(ResolveOrder(requested, base)) = Range(base)
                /\ IsInjective(base) => IsInjective(ResolveOrder(requested, base))
                /\ Len(requested) <= Len(ResolveOrder(requested, base))
                /\ \A i \in 1 .. Len(requested) : ResolveOrder(requested, base)[i] = requested[i]
  <1> DEFINE rest == Without(base, Range(requested))
  <1>1. /\ rest \in Seq(Providers)
        /\ Range(rest) = Range(base) \ Range(requested)
        /\ IsInjective(base) => IsInjective(rest)
    BY WithoutEffect
  <1> HIDE DEF rest
  <1>2. /\ requested \o rest \in Seq(Providers)
        /\ Range(requested \o rest) = Range(requested) \cup Range(rest)
        /\ IsInjective(requested) /\ IsInjective(rest) /\ Range(requested) \cap Range(rest) = {}
             => IsInjective(requested \o rest)
        /\ Len(requested \o rest) = Len(requested) + Len(rest)
        /\ \A i \in 1 .. Len(requested) : (requested \o rest)[i] = requested[i]
    BY <1>1, ConcatEffect
  <1>3. Len(requested) \in Nat /\ Len(rest) \in Nat
    BY <1>1
  <1>4. CASE Len(requested) <= Len(base) /\ Range(requested) \subseteq Range(base) /\ IsInjective(requested)
    <2>1. ResolveOrder(requested, base) = requested \o rest
      BY <1>4 DEF ResolveOrder, rest
    <2>2. Range(requested) \cap Range(rest) = {}
      BY <1>1
    <2>3. Range(requested \o rest) = Range(base)
      BY <1>1, <1>2, <1>4
    <2>4. IsInjective(base) => IsInjective(requested \o rest)
      BY <1>1, <1>2, <1>4, <2>2
    <2>5. Len(requested) <= Len(requested \o rest)
      BY <1>2, <1>3
    <2> QED BY <1>2, <2>1, <2>3, <2>4, <2>5
  <1>5. CASE ~(Len(requested) <= Len(base) /\ Range(requested) \subseteq Range(base) /\ IsInjective(requested))
    <2>1. ResolveOrder(requested, base) = <<>>
      BY <1>5 DEF ResolveOrder
    <2> QED BY <2>1
  <1> QED BY <1>4, <1>5

\* The fields of a plan.
LEMMA PlanFields ==
    ASSUME NEW plan \in Plans
    PROVE  /\ plan.op \in {"tts", "stt"}
           /\ plan.delegated \in BOOLEAN
           /\ plan.fallback \in BOOLEAN
           /\ plan.requested \in Seq(Providers) \cup {None}
           /\ plan.saved \in Seq(Providers)
  BY ChainAssumption

\* The order of a plan that is not refused is an order of the whole chain,
\* and begins with what the client asked for.
LEMMA OrderEffect ==
    ASSUME NEW plan \in Plans
    PROVE  /\ Order(plan) \in Seq(Providers)
           /\ Order(plan) # <<>> =>
                /\ Range(Order(plan)) = Range(Chain)
                /\ IsInjective(Order(plan))
                /\ plan.requested # None =>
                     /\ plan.requested \in Seq(Providers)
                     /\ Len(plan.requested) <= Len(Order(plan))
                     /\ \A i \in 1 .. Len(plan.requested) : Order(plan)[i] = plan.requested[i]
  <1> DEFINE asked_ == IF plan.requested = None THEN <<>> ELSE plan.requested
             saved == ResolveOrder(asked_, plan.saved)
             full == ResolveOrder(saved, Chain)
  <1>0. asked_ \in Seq(Providers) /\ plan.saved \in Seq(Providers) /\ Chain \in Seq(Providers)
    BY PlanFields, ChainAssumption
  <1>1. /\ saved \in Seq(Providers)
        /\ saved # <<>> => /\ Len(asked_) <= Len(saved)
                           /\ \A i \in 1 .. Len(asked_) : saved[i] = asked_[i]
    <2> HIDE DEF asked_
    <2> QED BY <1>0, ResolveOrderEffect
  <1>2. /\ full \in Seq(Providers)
        /\ full # <<>> =>
             /\ Range(full) = Range(Chain)
             /\ IsInjective(full)
             /\ Len(saved) <= Len(full)
             /\ \A i \in 1 .. Len(saved) : full[i] = saved[i]
    <2> HIDE DEF saved
    <2> QED BY <1>0, <1>1, ResolveOrderEffect, ChainAssumption
  <1>3. Order(plan) = IF plan.requested = <<>> \/ Len(saved) # Len(Chain) THEN <<>> ELSE full
    BY DEF Order
  <1> HIDE DEF saved, full
  <1>4. Order(plan) \in Seq(Providers)
    BY <1>2, <1>3
  <1>5. ASSUME Order(plan) # <<>>
        PROVE  /\ Range(Order(plan)) = Range(Chain)
               /\ IsInjective(Order(plan))
               /\ Len(saved) = Len(Chain)
               /\ full = Order(plan)
               /\ full # <<>>
    BY <1>2, <1>3, <1>5
  <1>6. ASSUME Order(plan) # <<>>, plan.requested # None
        PROVE  /\ plan.requested \in Seq(Providers)
               /\ Len(plan.requested) <= Len(Order(plan))
               /\ \A i \in 1 .. Len(plan.requested) : Order(plan)[i] = plan.requested[i]
    <2>1. plan.requested = asked_ /\ plan.requested \in Seq(Providers)
      BY <1>6, PlanFields
    <2>2. saved # <<>>
      <3> SUFFICES ASSUME saved = <<>> PROVE FALSE
        OBVIOUS
      <3>1. Len(Chain) = 0
        BY <1>5, <1>6
      <3>2. Range(full) = {}
        <4>1. Chain = <<>>
          BY <3>1, <1>0
        <4>2. Range(Chain) = {}
          BY <4>1 DEF Range
        <4> QED BY <4>2, <1>5, <1>6
      <3>3. full \in Seq(Providers) /\ full # <<>>
        BY <1>2, <1>5, <1>6
      <3>4. 1 \in DOMAIN full
        BY <3>3
      <3> QED BY <3>2, <3>4 DEF Range
    <2>3. Len(asked_) <= Len(saved) /\ Len(saved) <= Len(full)
      BY <1>1, <1>2, <1>5, <1>6, <2>2
    <2>4. Len(asked_) \in Nat /\ Len(saved) \in Nat /\ Len(full) \in Nat
      BY <1>0, <1>1, <1>2
    <2>5. ASSUME NEW i \in 1 .. Len(asked_) PROVE full[i] = asked_[i]
      <3>1. i \in 1 .. Len(saved)
        BY <2>3, <2>4
      <3> QED BY <1>1, <1>2, <1>5, <1>6, <2>2, <3>1
    <2> HIDE DEF asked_
    <2> QED BY <1>5, <1>6, <2>1, <2>3, <2>4, <2>5
  <1> QED BY <1>4, <1>5, <1>6

\* The providers of one call: a prefix of the order, and not none.
LEMMA AskingEffect ==
    ASSUME NEW plan \in Plans, Order(plan) # <<>>
    PROVE  /\ Asking(plan) \in Seq(Providers)
           /\ ~(plan.op = "tts" /\ ~plan.fallback) => Asking(plan) = Order(plan)
           /\ Len(Asking(plan)) \in Nat /\ Len(Asking(plan)) >= 1
           /\ plan.op = "tts" /\ ~plan.fallback => Len(Asking(plan)) = 1
           /\ IsInjective(Asking(plan))
  <1>1. Order(plan) \in Seq(Providers) /\ IsInjective(Order(plan))
    BY OrderEffect
  <1>2. CASE plan.op = "tts" /\ ~plan.fallback
    <2>0. Asking(plan) = SubSeq(Order(plan), 1, 1)
      BY <1>2 DEF Asking
    <2>1. Len(Order(plan)) \in Nat /\ Len(Order(plan)) >= 1
      BY <1>1
    <2>2. /\ SubSeq(Order(plan), 1, 1) \in Seq(Providers)
          /\ Len(SubSeq(Order(plan), 1, 1)) = 1
          /\ DOMAIN SubSeq(Order(plan), 1, 1) = 1 .. 1
      BY <1>1, <2>1
    <2>3. IsInjective(Asking(plan))
      BY <2>0, <2>2 DEF IsInjective
    <2> QED BY <1>2, <2>0, <2>2, <2>3
  <1>3. CASE ~(plan.op = "tts" /\ ~plan.fallback)
    <2>1. Asking(plan) = Order(plan)
      BY <1>3 DEF Asking
    <2>2. Len(Order(plan)) \in Nat /\ Len(Order(plan)) >= 1
      BY <1>1
    <2> QED BY <1>1, <1>3, <2>1, <2>2
  <1> QED BY <1>2, <1>3
-----------------------------------------------------------------------------
(***************************************************************************)
(* The inductive invariant                                                 *)
(***************************************************************************)

\* The places of a call that has its MP3 and looks for a place to keep it.
Storing == Exchanges \cup {"check", "hold", "proof", "renew"}

\* The places where the head of rest has been asked.
Trying == AtProvider \cup {"normalize"}

\* How many providers a call has done with.
Done(call) == IF call.pc \in Trying THEN Len(call.tried) - 1 ELSE Len(call.tried)

\* What was tried is the beginning of what is to be asked ...
TriedInOrder(call, plan) ==
    /\ Len(call.tried) <= Len(Asking(plan))
    /\ \A i \in 1 .. Len(call.tried) : call.tried[i] = Asking(plan)[i]

\* ... and rest is what follows the first n of them.
RestFollows(call, plan, n) ==
    /\ n \in Nat
    /\ Len(call.rest) >= 1
    /\ Len(call.rest) + n = Len(Asking(plan))
    /\ \A i \in 1 .. Len(call.rest) : call.rest[i] = Asking(plan)[n + i]

\* A call goes through the providers in order, and says that they are
\* exhausted only past the last one.
CallInOrder(call, plan) ==
    /\ Order(plan) = <<>> => call.pc = "ended" /\ call.tried = <<>> /\ call.result = "InvalidRequest"
    /\ Order(plan) # <<>> =>
         /\ TriedInOrder(call, plan)
         /\ call.pc \in Live /\ ~call.audio => RestFollows(call, plan, Done(call))
         /\ call.result = "ProvidersExhausted" =>
              /\ Len(call.tried) = Len(Asking(plan))
              /\ ~(plan.op = "tts" /\ ~plan.fallback)

\* Only TTS makes audio, and a TTS call at Briefcase has it.
CallStores(call, plan) ==
    /\ call.pc \in {"synth", "normalize", "check", "hold"} \cup Exchanges => plan.op = "tts"
    /\ call.pc \in (AtProvider \ {"synth"}) \cup {"read", "measure"} => plan.op = "stt"
    /\ call.audio => plan.op = "tts" /\ call.pc \in Storing \cup {"ended"}
    /\ plan.op = "tts" /\ call.pc \in Storing => call.audio
    /\ call.audio /\ call.pc = "ended" => call.result \in {"briefcase", "held", "AudioStore", "dropped"}

\* One call by itself.
CallOK(call) ==
    /\ call.pc = "idle" <=> call.op = None
    /\ call.pc = "idle" => call.tried = <<>> /\ ~call.audio
    /\ call.pc = "ended" <=> call.result # "none"
    /\ call.op # None => CallInOrder(call, plans[call.op]) /\ CallStores(call, plans[call.op])

CallsOK ==
    /\ plans \in [Operations -> Plans]
    /\ calls \in [Calls -> CallTypes]
    /\ \A c \in Calls : CallOK(calls[c])

\* What was sent again spent the token.
TokensSpent ==
    \A c \in Calls : /\ Range(attempt[c].again) \subseteq Resendable
                     /\ Len(attempt[c].again) <= 1
                     /\ ~attempt[c].spent => attempt[c].again = <<>>

PermitsOK ==
    /\ free \in [Providers -> 0 .. Permits]
    /\ attempt \in [Calls -> AttemptTypes]
    /\ PermitsAccounted
    /\ TokensSpent

FilesOK ==
    /\ files \in [Calls -> FileStates]
    /\ guards \subseteq Calls
    /\ cleanups \subseteq Calls
    /\ asked \subseteq Calls
    /\ UploadsReclaimed

\* A call that is neither over nor refused: the one that may still write for
\* its operation, or has completed it.
Owns(call) == call.op # None /\ (call.pc = "ended" => call.result \in Fulfilled)

OneAtATime ==
    \A c, d \in Calls : Owns(calls[c]) /\ Owns(calls[d]) /\ calls[c].op = calls[d].op => c = d

\* An upload that was begun names its audio.
UploadsNamed == \A o \in Operations : uploads[o].stage = "none" <=> uploads[o].audio = None

\* A call that checks the published entry has committed its own audio.
CheckedIsCommitted ==
    \A c \in Calls : calls[c].pc = "check" =>
        uploads[calls[c].op] = [stage |-> "committed", audio |-> c]

UploadsOK ==
    /\ UploadsTypeOK
    /\ OneAtATime
    /\ UploadsNamed
    /\ CheckedIsCommitted
    /\ AnswerIsStored

PipelineInv == CallsOK /\ PermitsOK /\ FilesOK /\ UploadsOK
-----------------------------------------------------------------------------
(***************************************************************************)
(* One call                                                                *)
(***************************************************************************)

\* The fields of a call.
LEMMA CallFields ==
    ASSUME NEW call \in CallTypes
    PROVE  /\ call.pc \in Live \cup {"idle", "ended"}
           /\ call.op \in Operations \cup {None}
           /\ call.rest \in Seq(Providers)
           /\ call.tried \in Seq(Providers)
           /\ call.heard \in BOOLEAN
           /\ call.audio \in BOOLEAN
           /\ call.proof \in {"none", "first", "renewed"}
           /\ call.result \in Fulfilled \cup Failures \cup {"none"}
  BY DEF CallTypes

\* The call c goes on to new, and answers no stored audio by that.
GoesOn(c, new) ==
    /\ calls' = [calls EXCEPT ![c] = new]
    /\ new \in CallTypes
    /\ CallOK(new)
    /\ new.op = calls[c].op
    /\ calls[c].pc \in Live
    /\ new.pc # "check"
    /\ new.result \notin {"briefcase", "held"}

\* Only c changes.
LEMMA CallWritten ==
    ASSUME CallsOK, NEW c \in Calls, NEW new \in CallTypes, CallOK(new),
           calls' = [calls EXCEPT ![c] = new], UNCHANGED plans
    PROVE  /\ CallsOK'
           /\ calls'[c] = new
           /\ \A d \in Calls \ {c} : calls'[d] = calls[d]
  <1>1. /\ calls' \in [Calls -> CallTypes]
        /\ calls'[c] = new
        /\ \A d \in Calls \ {c} : calls'[d] = calls[d]
    BY DEF CallsOK
  <1>2. \A d \in Calls : CallOK(calls'[d])
    BY <1>1 DEF CallsOK
  <1>3. \A d \in Calls : CallOK(calls[d])'
    BY <1>2 DEF CallOK
  <1> QED BY <1>1, <1>3 DEF CallsOK

\* A live call belongs to an operation, and has no result.
LEMMA LiveCall ==
    ASSUME CallsOK, NEW c \in Calls, calls[c].pc \in Live
    PROVE  /\ calls[c] \in CallTypes
           /\ CallOK(calls[c])
           /\ calls[c].op \in Operations
           /\ plans[calls[c].op] \in Plans
           /\ Plan(c) = plans[calls[c].op]
           /\ calls[c].result = "none"
           /\ Order(plans[calls[c].op]) # <<>>
           /\ CallInOrder(calls[c], plans[calls[c].op])
           /\ CallStores(calls[c], plans[calls[c].op])
  <1>1. calls[c] \in CallTypes /\ CallOK(calls[c])
    BY DEF CallsOK
  <1>2. calls[c].pc \notin {"idle", "ended"}
    BY DEF Live, AtProvider, AtBriefcase
  <1>3. calls[c].op # None /\ calls[c].result = "none"
    BY <1>1, <1>2 DEF CallOK
  <1>4. calls[c].op \in Operations
    BY <1>1, <1>3, CallFields
  <1>5. CallInOrder(calls[c], plans[calls[c].op]) /\ CallStores(calls[c], plans[calls[c].op])
    BY <1>1, <1>3 DEF CallOK
  <1>6. Order(plans[calls[c].op]) # <<>>
    BY <1>2, <1>5 DEF CallInOrder
  <1> QED BY <1>1, <1>3, <1>4, <1>5, <1>6 DEF CallsOK, Plan

\* A live call moves to another place, on the same side of its provider.
LEMMA MoveGoesOn ==
    ASSUME CallsOK, NEW c \in Calls, calls[c].pc \in Live, NEW pc \in Live, Move(c, pc),
           pc # "check",
           calls[c].pc \in Trying <=> pc \in Trying,
           CallStores([calls[c] EXCEPT !.pc = pc], plans[calls[c].op])
    PROVE  GoesOn(c, [calls[c] EXCEPT !.pc = pc])
  <1> DEFINE call == calls[c]
             new == [call EXCEPT !.pc = pc]
             plan == plans[call.op]
  <1>1. /\ call \in CallTypes /\ CallOK(call) /\ call.op \in Operations
        /\ call.result = "none" /\ Order(plan) # <<>> /\ CallInOrder(call, plan)
    BY LiveCall
  <1>2. calls' = [calls EXCEPT ![c] = new]
    BY DEF Move, CallsOK
  <1>3. /\ new \in CallTypes /\ new.pc = pc /\ new.op = call.op /\ new.rest = call.rest
        /\ new.tried = call.tried /\ new.audio = call.audio /\ new.result = call.result
    BY <1>1 DEF CallTypes
  <1>4. CallStores(new, plan)
    OBVIOUS
  <1> HIDE DEF call, new, plan
  <1>5. CallInOrder(new, plan)
    BY <1>1, <1>3 DEF CallInOrder, TriedInOrder, RestFollows, Done, call
  <1>6. pc # "idle" /\ pc # "ended" /\ call.op # None
    BY <1>1, CallsAssumption DEF Live, AtProvider, AtBriefcase
  <1>7. CallOK(new)
    BY <1>1, <1>3, <1>4, <1>5, <1>6 DEF CallOK, plan
  <1>8. GoesOn(c, new)
    BY <1>1, <1>2, <1>3, <1>7 DEF GoesOn, call
  <1> QED BY <1>8 DEF new, call

\* A live call ends.
LEMMA EndGoesOn ==
    ASSUME CallsOK, NEW c \in Calls, calls[c].pc \in Live,
           NEW result \in Fulfilled \cup Failures, End(c, result),
           result \notin {"ProvidersExhausted", "briefcase", "held"},
           calls[c].audio => result \in {"AudioStore", "dropped"}
    PROVE  /\ GoesOn(c, [calls[c] EXCEPT !.pc = "ended", !.result = result])
           /\ [calls[c] EXCEPT !.pc = "ended", !.result = result].pc = "ended"
  <1> DEFINE call == calls[c]
             new == [call EXCEPT !.pc = "ended", !.result = result]
             plan == plans[call.op]
  <1>1. /\ call \in CallTypes /\ CallOK(call) /\ call.op \in Operations
        /\ call.result = "none" /\ Order(plan) # <<>>
        /\ CallInOrder(call, plan) /\ CallStores(call, plan)
    BY LiveCall
  <1>2. calls' = [calls EXCEPT ![c] = new]
    BY DEF End, CallsOK
  <1>3. /\ new \in CallTypes /\ new.pc = "ended" /\ new.op = call.op /\ new.rest = call.rest
        /\ new.tried = call.tried /\ new.audio = call.audio /\ new.result = result
    BY <1>1 DEF CallTypes
  <1>4. result # "none"
    BY DEF Fulfilled, Failures
  <1> HIDE DEF call, new, plan
  <1>5. "ended" \notin Live /\ "ended" \notin AtProvider \cup Exchanges /\ "ended" \notin Storing
    BY DEF Live, AtProvider, AtBriefcase, Exchanges, Storing
  <1>6. CallInOrder(new, plan)
    BY <1>1, <1>3, <1>5 DEF CallInOrder, TriedInOrder
  <1>7. CallStores(new, plan)
    BY <1>1, <1>3, <1>5 DEF CallStores, call
  <1>8. CallOK(new)
    BY <1>1, <1>3, <1>4, <1>6, <1>7, CallsAssumption DEF CallOK, plan
  <1>9. GoesOn(c, new)
    BY <1>1, <1>2, <1>3, <1>8 DEF GoesOn, call
  <1> QED BY <1>3, <1>9 DEF new, call

\* The head of rest is asked: it is the next provider in order.
LEMMA AskedInOrder ==
    ASSUME NEW call \in CallTypes, NEW plan \in Plans, Order(plan) # <<>>,
           TriedInOrder(call, plan), RestFollows(call, plan, Len(call.tried))
    PROVE  /\ Asked(call) \in CallTypes
           /\ Asked(call).op = call.op /\ Asked(call).pc = call.pc
           /\ Asked(call).audio = call.audio /\ Asked(call).result = call.result
           /\ TriedInOrder(Asked(call), plan)
           /\ RestFollows(Asked(call), plan, Len(Asked(call).tried) - 1)
  <1> DEFINE new == Asked(call)
             ask == Asking(plan)
             tried == call.tried
             rest == call.rest
  <1>0. /\ tried \in Seq(Providers) /\ rest \in Seq(Providers)
        /\ ask \in Seq(Providers) /\ Len(ask) \in Nat
        /\ Len(tried) \in Nat /\ Len(rest) \in Nat
    BY CallFields, AskingEffect
  <1>1. /\ Len(rest) >= 1 /\ Len(rest) + Len(tried) = Len(ask)
        /\ \A i \in 1 .. Len(rest) : rest[i] = ask[Len(tried) + i]
        /\ \A i \in 1 .. Len(tried) : tried[i] = ask[i]
    BY DEF RestFollows, TriedInOrder
  <1>2. Head(rest) \in Providers /\ Head(rest) = rest[1]
    BY <1>0, <1>1
  <1>3. /\ Append(tried, Head(rest)) \in Seq(Providers)
        /\ Len(Append(tried, Head(rest))) = Len(tried) + 1
        /\ Append(tried, Head(rest))[Len(tried) + 1] = rest[1]
        /\ \A i \in 1 .. Len(tried) : Append(tried, Head(rest))[i] = tried[i]
    BY <1>0, <1>2
  <1>4. new = [call EXCEPT !.tried = Append(tried, Head(rest))]
    BY DEF Asked, CallTypes
  <1>5. /\ new \in CallTypes /\ new.op = call.op /\ new.pc = call.pc /\ new.audio = call.audio
        /\ new.result = call.result /\ new.rest = rest /\ new.tried = Append(tried, Head(rest))
    BY <1>3, <1>4 DEF CallTypes
  <1>6. rest[1] = ask[Len(tried) + 1]
    <2>1. 1 \in 1 .. Len(rest)
      BY <1>0, <1>1
    <2> HIDE DEF ask, tried, rest
    <2> QED BY <2>1, <1>1
  <1> HIDE DEF new, ask, tried, rest
  <1>7. ASSUME NEW i \in 1 .. Len(tried) + 1 PROVE new.tried[i] = ask[i]
    <2>1. CASE i = Len(tried) + 1
      BY <2>1, <1>3, <1>5, <1>6
    <2>2. CASE i # Len(tried) + 1
      <3>1. i \in 1 .. Len(tried)
        BY <2>2, <1>0
      <3> QED BY <3>1, <1>1, <1>3, <1>5
    <2> QED BY <2>1, <2>2
  <1>8. TriedInOrder(new, plan)
    BY <1>0, <1>1, <1>3, <1>5, <1>7 DEF TriedInOrder, ask
  <1>9. RestFollows(new, plan, Len(new.tried) - 1)
    <2>1. Len(new.tried) - 1 = Len(tried)
      BY <1>0, <1>3, <1>5
    <2> QED BY <2>1, <1>0, <1>1, <1>5 DEF RestFollows, ask
  <1> QED BY <1>5, <1>8, <1>9 DEF new

\* After a provider failed: the call ends, or the next one is its turn.
LEMMA PassedInOrder ==
    ASSUME plans \in [Operations -> Plans],
           NEW call \in CallTypes, call.op \in Operations, ~call.audio, call.result = "none",
           Order(plans[call.op]) # <<>>,
           TriedInOrder(call, plans[call.op]),
           RestFollows(call, plans[call.op], Len(call.tried) - 1)
    PROVE  /\ Passed(call, plans[call.op]) \in CallTypes
           /\ CallOK(Passed(call, plans[call.op]))
           /\ Passed(call, plans[call.op]).op = call.op
           /\ Passed(call, plans[call.op]).pc \in {"choose", "ended"}
           /\ Passed(call, plans[call.op]).result \notin {"briefcase", "held"}
  <1> DEFINE plan == plans[call.op]
             new == Passed(call, plan)
             ask == Asking(plan)
             tried == call.tried
             rest == call.rest
  <1>0. /\ plan \in Plans /\ tried \in Seq(Providers) /\ rest \in Seq(Providers)
        /\ ask \in Seq(Providers) /\ Len(ask) \in Nat
        /\ Len(tried) \in Nat /\ Len(rest) \in Nat
    BY CallFields, AskingEffect
  <1>1. /\ Len(tried) - 1 \in Nat
        /\ Len(rest) >= 1 /\ Len(rest) + (Len(tried) - 1) = Len(ask)
        /\ \A i \in 1 .. Len(rest) : rest[i] = ask[(Len(tried) - 1) + i]
    BY DEF RestFollows
  <1>2. "ended" \notin Live \cup Storing \cup AtProvider \cup Exchanges /\ "choose" \in Live
        /\ "choose" \notin Storing \cup Trying \cup AtProvider \cup Exchanges
    BY DEF Live, AtProvider, AtBriefcase, Exchanges, Storing, Trying
  <1>3. call.op # None
    BY CallsAssumption
  <1>4. CASE plan.op = "tts" /\ ~plan.fallback
    <2>1. new = [call EXCEPT !.pc = "ended", !.result = "ProviderFailed"]
      BY <1>4 DEF Passed
    <2>2. /\ new \in CallTypes /\ new.pc = "ended" /\ new.op = call.op /\ new.tried = tried
          /\ new.audio = call.audio /\ new.result = "ProviderFailed"
      BY <2>1 DEF CallTypes, Failures
    <2> HIDE DEF plan, new
    <2>3. CallInOrder(new, plan)
      BY <1>2, <2>2 DEF CallInOrder, TriedInOrder, plan
    <2>4. CallStores(new, plan)
      BY <1>2, <2>2 DEF CallStores
    <2>5. CallOK(new)
      BY <1>3, <2>2, <2>3, <2>4 DEF CallOK, plan
    <2> QED BY <2>2, <2>5 DEF new, plan
  <1>5. CASE Len(rest) = 1 /\ ~(plan.op = "tts" /\ ~plan.fallback)
    <2>1. new = [call EXCEPT !.pc = "ended", !.result = "ProvidersExhausted"]
      BY <1>5 DEF Passed
    <2>2. /\ new \in CallTypes /\ new.pc = "ended" /\ new.op = call.op /\ new.tried = tried
          /\ new.audio = call.audio /\ new.result = "ProvidersExhausted"
      BY <2>1 DEF CallTypes, Failures
    <2>3. Len(tried) = Len(ask)
      BY <1>0, <1>1, <1>5
    <2> HIDE DEF plan, new
    <2>4. CallInOrder(new, plan)
      BY <1>2, <1>5, <2>2, <2>3 DEF CallInOrder, TriedInOrder, plan
    <2>5. CallStores(new, plan)
      BY <1>2, <2>2 DEF CallStores
    <2>6. CallOK(new)
      BY <1>3, <2>2, <2>4, <2>5 DEF CallOK, plan
    <2> QED BY <2>2, <2>6 DEF new, plan
  <1>6. CASE Len(rest) # 1 /\ ~(plan.op = "tts" /\ ~plan.fallback)
    <2>1. new = [call EXCEPT !.pc = "choose", !.rest = Tail(rest)]
      BY <1>6 DEF Passed
    <2>2. /\ Tail(rest) \in Seq(Providers) /\ Len(Tail(rest)) = Len(rest) - 1
          /\ \A i \in 1 .. Len(rest) - 1 : Tail(rest)[i] = rest[i + 1]
      <3>1. rest # <<>>
        BY <1>0, <1>1
      <3> QED BY <1>0, <3>1
    <2>3. /\ new \in CallTypes /\ new.pc = "choose" /\ new.op = call.op /\ new.tried = tried
          /\ new.audio = call.audio /\ new.result = "none" /\ new.rest = Tail(rest)
      BY <2>1, <2>2, <1>2 DEF CallTypes
    <2>4. ASSUME NEW i \in 1 .. Len(Tail(rest)) PROVE Tail(rest)[i] = ask[Len(tried) + i]
      <3>1. i + 1 \in 1 .. Len(rest) /\ (Len(tried) - 1) + (i + 1) = Len(tried) + i
            /\ i \in 1 .. Len(rest) - 1
        <4> HIDE DEF tried, rest
        <4> QED BY <1>0, <2>2
      <3>2. rest[i + 1] = ask[(Len(tried) - 1) + (i + 1)]
        BY <3>1, <1>1
      <3> QED BY <3>1, <3>2, <2>2
    <2>5. Len(Tail(rest)) >= 1 /\ Len(Tail(rest)) + Len(tried) = Len(ask)
      <3> HIDE DEF tried, rest, ask
      <3> QED BY <1>0, <1>1, <1>6, <2>2
    <2> HIDE DEF plan, new
    <2>6. RestFollows(new, plan, Len(tried))
      BY <1>0, <2>3, <2>4, <2>5 DEF RestFollows
    <2>7. CallInOrder(new, plan)
      BY <1>2, <2>3, <2>6 DEF CallInOrder, TriedInOrder, Done, plan
    <2>8. CallStores(new, plan)
      BY <1>2, <2>3 DEF CallStores
    <2>9. CallOK(new)
      BY <1>3, <2>3, <2>7, <2>8 DEF CallOK, plan
    <2> QED BY <2>3, <2>9 DEF new, plan
  <1> QED BY <1>4, <1>5, <1>6

\* The provider in hand fails.
LEMMA NextProviderGoesOn ==
    ASSUME CallsOK, NEW c \in Calls, calls[c].pc \in Trying, NextProvider(c)
    PROVE  \E new : GoesOn(c, new) /\ new.pc \in {"choose", "ended"}
  <1> DEFINE call == calls[c]
             plan == plans[call.op]
             new == Passed(call, plan)
  <1>0. call.pc \in Live /\ call.pc \notin Storing \cup {"ended"}
    BY DEF Trying, Live, AtProvider, Storing, Exchanges
  <1>1. /\ call \in CallTypes /\ call.op \in Operations /\ call.result = "none"
        /\ Order(plan) # <<>> /\ CallInOrder(call, plan) /\ CallStores(call, plan)
        /\ Plan(c) = plan
    BY <1>0, LiveCall
  <1>2. ~call.audio
    BY <1>0, <1>1 DEF CallStores
  <1>3. TriedInOrder(call, plan) /\ RestFollows(call, plan, Len(call.tried) - 1)
    BY <1>0, <1>1, <1>2 DEF CallInOrder, Done
  <1>4. /\ new \in CallTypes /\ CallOK(new) /\ new.op = call.op
        /\ new.pc \in {"choose", "ended"} /\ new.result \notin {"briefcase", "held"}
    BY <1>1, <1>2, <1>3, PassedInOrder DEF CallsOK
  <1>5. calls' = [calls EXCEPT ![c] = new]
    BY <1>1 DEF NextProvider, CallsOK
  <1> HIDE DEF new
  <1> QED BY <1>0, <1>4, <1>5 DEF GoesOn

\* A call whose next provider has no key or no free permit.
LEMMA ChooseFailsGoesOn ==
    ASSUME CallsOK, NEW c \in Calls, ChooseFails(c)
    PROVE  \E new : GoesOn(c, new) /\ new.pc \in {"choose", "ended"}
  <1> DEFINE call == calls[c]
             plan == plans[call.op]
             new == Passed(Asked(call), plan)
  <1>0. call.pc = "choose" /\ "choose" \in Live /\ "choose" \notin Storing \cup Trying \cup {"ended"}
    BY DEF ChooseFails, At, Trying, Live, AtProvider, Storing, Exchanges
  <1>1. /\ call \in CallTypes /\ call.op \in Operations /\ call.result = "none"
        /\ Order(plan) # <<>> /\ CallInOrder(call, plan) /\ CallStores(call, plan)
        /\ Plan(c) = plan /\ plan \in Plans
    BY <1>0, LiveCall
  <1>2. ~call.audio
    BY <1>0, <1>1 DEF CallStores
  <1>3. TriedInOrder(call, plan) /\ RestFollows(call, plan, Len(call.tried))
    BY <1>0, <1>1, <1>2 DEF CallInOrder, Done
  <1>4. /\ Asked(call) \in CallTypes
        /\ Asked(call).op = call.op /\ ~Asked(call).audio /\ Asked(call).result = "none"
        /\ TriedInOrder(Asked(call), plan)
        /\ RestFollows(Asked(call), plan, Len(Asked(call).tried) - 1)
    BY <1>1, <1>2, <1>3, AskedInOrder
  <1>5. /\ new \in CallTypes /\ CallOK(new) /\ new.op = call.op
        /\ new.pc \in {"choose", "ended"} /\ new.result \notin {"briefcase", "held"}
    BY <1>1, <1>4, PassedInOrder DEF CallsOK
  <1>6. calls' = [calls EXCEPT ![c] = new]
    BY <1>1 DEF ChooseFails, CallsOK
  <1> HIDE DEF new
  <1> QED BY <1>0, <1>5, <1>6 DEF GoesOn

\* A call whose next provider has a permit.
LEMMA ChooseGoesOn ==
    ASSUME CallsOK, NEW c \in Calls, Choose(c)
    PROVE  \E new : GoesOn(c, new) /\ new.pc \in AtProvider
  <1> DEFINE call == calls[c]
             plan == plans[call.op]
             pc == FirstExchange(c, Head(call.rest))
             new == [Asked(call) EXCEPT !.pc = pc]
  <1>0. call.pc = "choose" /\ "choose" \in Live /\ "choose" \notin Storing \cup Trying \cup {"ended"}
    BY DEF Choose, At, Trying, Live, AtProvider, Storing, Exchanges
  <1>1. /\ call \in CallTypes /\ call.op \in Operations /\ call.result = "none"
        /\ Order(plan) # <<>> /\ CallInOrder(call, plan) /\ CallStores(call, plan)
        /\ Plan(c) = plan /\ plan \in Plans
    BY <1>0, LiveCall
  <1>2. ~call.audio
    BY <1>0, <1>1 DEF CallStores
  <1>3. TriedInOrder(call, plan) /\ RestFollows(call, plan, Len(call.tried))
    BY <1>0, <1>1, <1>2 DEF CallInOrder, Done
  <1>4. /\ Asked(call) \in CallTypes
        /\ Asked(call).op = call.op /\ ~Asked(call).audio /\ Asked(call).result = "none"
        /\ TriedInOrder(Asked(call), plan)
        /\ RestFollows(Asked(call), plan, Len(Asked(call).tried) - 1)
    BY <1>1, <1>2, <1>3, AskedInOrder
  <1>5. /\ pc \in {"synth", "upload", "transcribe"}
        /\ pc = "synth" <=> plan.op = "tts"
        /\ plan.op # "tts" => plan.op = "stt"
    BY <1>1, PlanFields DEF FirstExchange
  <1>6. /\ pc \in AtProvider /\ pc \in Live /\ pc \in Trying
        /\ pc \notin Storing \cup Exchanges
        /\ pc \notin {"idle", "ended", "normalize", "check", "hold", "read", "measure"}
    BY <1>5 DEF Trying, Live, AtProvider, Storing, Exchanges
  <1>7. calls' = [calls EXCEPT ![c] = new]
    BY DEF Choose, CallsOK
  <1> HIDE DEF pc
  <1>8. /\ new \in CallTypes /\ new.pc = pc /\ new.op = call.op /\ new.audio = Asked(call).audio
        /\ new.tried = Asked(call).tried /\ new.rest = Asked(call).rest /\ new.result = "none"
    BY <1>4, <1>6 DEF CallTypes
  <1> HIDE DEF new, call, plan
  <1>9. CallInOrder(new, plan)
    <2>1. TriedInOrder(new, plan)
      BY <1>4, <1>8 DEF TriedInOrder
    <2>2. RestFollows(new, plan, Len(new.tried) - 1)
      BY <1>4, <1>8 DEF RestFollows
    <2> QED BY <1>1, <1>6, <1>8, <2>1, <2>2 DEF CallInOrder, Done
  <1>10. CallStores(new, plan)
    BY <1>4, <1>5, <1>6, <1>8 DEF CallStores
  <1>11. CallOK(new)
    BY <1>1, <1>6, <1>8, <1>9, <1>10, CallsAssumption DEF CallOK, plan
  <1>12. GoesOn(c, new)
    BY <1>0, <1>6, <1>7, <1>8, <1>11 DEF GoesOn, call
  <1> QED BY <1>6, <1>8, <1>12
-----------------------------------------------------------------------------
(***************************************************************************)
(* Permits                                                                 *)
(***************************************************************************)

\* The calls that hold a permit of adapter p.
With(p) == {c \in Calls : attempt[c].at = p}

\* They are finitely many.
LEMMA WithFinite ==
    ASSUME NEW p
    PROVE  IsFiniteSet(With(p)) /\ Cardinality(With(p)) \in Nat
  <1>1. With(p) \in SUBSET Calls
    BY DEF With
  <1>2. IsFiniteSet(With(p))
    BY <1>1, FS_Subset, CallsAssumption
  <1> QED BY <1>2, FS_CardinalityType

\* What PermitsAccounted says of one adapter.
LEMMA PermitsOf ==
    ASSUME PermitsOK, NEW p \in Providers
    PROVE  /\ free[p] \in 0 .. Permits /\ free[p] \in Nat
           /\ free[p] + Cardinality(With(p)) = Permits
  <1>1. free[p] \in 0 .. Permits /\ free[p] + Cardinality(With(p)) = Permits
    BY DEF PermitsOK, PermitsAccounted, With
  <1> QED BY <1>1, ProvidersAssumption

\* The permits, step by step: from what an action does with the attempt and
\* the place of c, and with what is free.
LEMMA PermitsFrom ==
    ASSUME CallsOK, PermitsOK, NEW c \in Calls, NEW new, GoesOn(c, new), UNCHANGED plans,
           NEW a \in AttemptTypes, attempt' = [attempt EXCEPT ![c] = a],
           Range(a.again) \subseteq Resendable, Len(a.again) <= 1, ~a.spent => a.again = <<>>,
           a.at # None <=> new.pc \in AtProvider,
           DOMAIN free' = Providers, free' = [p \in Providers |-> free'[p]],
           \A p \in Providers : free'[p] + Cardinality(With(p)') = Permits /\ free'[p] \in Nat
    PROVE  PermitsOK'
  <1>1. /\ calls'[c] = new
        /\ \A d \in Calls \ {c} : calls'[d] = calls[d]
    BY CallWritten DEF GoesOn
  <1>2. /\ attempt' \in [Calls -> AttemptTypes]
        /\ attempt'[c] = a
        /\ \A d \in Calls \ {c} : attempt'[d] = attempt[d]
    BY DEF PermitsOK
  <1>3. free' \in [Providers -> 0 .. Permits]
    <2>1. ASSUME NEW p \in Providers PROVE free'[p] \in 0 .. Permits
      <3>1. Cardinality(With(p)') \in Nat
        <4>1. With(p)' \in SUBSET Calls
          BY DEF With
        <4>2. IsFiniteSet(With(p)')
          BY <4>1, FS_Subset, CallsAssumption
        <4> QED BY <4>2, FS_CardinalityType
      <3>2. free'[p] + Cardinality(With(p)') = Permits /\ free'[p] \in Nat /\ Permits \in Nat
        BY ProvidersAssumption
      <3> QED BY <3>1, <3>2
    <2> QED BY <2>1
  <1>4. TokensSpent'
    BY <1>2 DEF PermitsOK, TokensSpent
  <1>5. \A p \in Providers :
           free'[p] + Cardinality({d \in Calls : attempt'[d].at = p}) = Permits
    BY DEF With
  <1>6. \A d \in Calls : attempt'[d].at # None <=> calls'[d].pc \in AtProvider
    BY <1>1, <1>2 DEF PermitsOK, PermitsAccounted
  <1>7. PermitsAccounted'
    BY <1>5, <1>6 DEF PermitsAccounted
  <1> QED BY <1>2, <1>3, <1>4, <1>7 DEF PermitsOK

\* The fields of an attempt.
LEMMA AttemptFields ==
    ASSUME PermitsOK, NEW c \in Calls
    PROVE  /\ attempt[c] \in AttemptTypes
           /\ attempt[c].at \in Providers \cup {None}
           /\ attempt[c].spent \in BOOLEAN
           /\ attempt[c].again \in Seq(Resendable \cup OneShot)
           /\ Range(attempt[c].again) \subseteq Resendable
           /\ Len(attempt[c].again) <= 1
           /\ ~attempt[c].spent => attempt[c].again = <<>>
           /\ attempt[c].at # None <=> calls[c].pc \in AtProvider
  <1>1. attempt[c] \in AttemptTypes
    BY DEF PermitsOK
  <1>2. /\ attempt[c].at \in Providers \cup {None} /\ attempt[c].spent \in BOOLEAN
        /\ attempt[c].again \in Seq(Resendable \cup OneShot)
    BY <1>1 DEF AttemptTypes
  <1> QED BY <1>1, <1>2 DEF PermitsOK, TokensSpent, PermitsAccounted

\* Neither permits nor tokens change, and the call stays on its side.
LEMMA PermitsSame ==
    ASSUME CallsOK, PermitsOK, NEW c \in Calls, NEW new, GoesOn(c, new), UNCHANGED <<free, attempt, plans>>,
           calls[c].pc \in AtProvider <=> new.pc \in AtProvider
    PROVE  PermitsOK'
  <1>1. attempt' = [attempt EXCEPT ![c] = attempt[c]]
    BY DEF PermitsOK
  <1>2. ASSUME NEW p \in Providers
        PROVE  free'[p] + Cardinality(With(p)') = Permits /\ free'[p] \in Nat
    <2>1. With(p)' = With(p) /\ free'[p] = free[p]
      BY DEF With
    <2> QED BY <2>1, PermitsOf
  <1>3. DOMAIN free' = Providers /\ free' = [p \in Providers |-> free'[p]]
    BY DEF PermitsOK
  <1> QED BY <1>1, <1>2, <1>3, AttemptFields, PermitsFrom

\* The attempt that nothing has happened to yet.
LEMMA NoAttemptFields ==
    /\ NoAttempt \in AttemptTypes
    /\ NoAttempt.at = None /\ NoAttempt.again = <<>> /\ ~NoAttempt.spent
  <1>1. <<>> \in Seq(Resendable \cup OneShot)
    OBVIOUS
  <1>2. NoAttempt \in AttemptTypes
    BY <1>1 DEF NoAttempt, AttemptTypes
  <1> QED BY <1>2 DEF NoAttempt

\* try_acquire moves one permit from free to the call.
LEMMA PermitsAcquired ==
    ASSUME CallsOK, PermitsOK, NEW c \in Calls, NEW new, GoesOn(c, new), UNCHANGED plans,
           calls[c].pc \notin AtProvider, new.pc \in AtProvider, NEW p, Acquire(c, p)
    PROVE  PermitsOK'
  <1> DEFINE a == [NoAttempt EXCEPT !.at = p]
  <1>0. /\ p \in Providers /\ free[p] > 0
        /\ free' = [free EXCEPT ![p] = @ - 1]
        /\ attempt' = [attempt EXCEPT ![c] = a]
    BY ProvidersAssumption DEF Acquire, MayAcquire
  <1>a. NoAttempt \in AttemptTypes /\ NoAttempt.again = <<>> /\ ~NoAttempt.spent
    BY NoAttemptFields
  <1>1. /\ a \in AttemptTypes /\ a.at = p /\ a.again = <<>> /\ ~a.spent
    BY <1>0, <1>a DEF AttemptTypes
  <1>2. Range(a.again) \subseteq Resendable /\ Len(a.again) <= 1
    BY <1>1 DEF Range
  <1>3. p # None /\ attempt[c].at = None
    BY <1>0, ProvidersAssumption, AttemptFields
  <1> HIDE DEF a
  <1>4. /\ attempt'[c] = a /\ \A d \in Calls \ {c} : attempt'[d] = attempt[d]
    BY <1>0 DEF PermitsOK
  <1>5. DOMAIN free' = Providers /\ free' = [q \in Providers |-> free'[q]]
    BY <1>0 DEF PermitsOK
  <1>6. ASSUME NEW q \in Providers
        PROVE  free'[q] + Cardinality(With(q)') = Permits /\ free'[q] \in Nat
    <2>1. free[q] + Cardinality(With(q)) = Permits /\ free[q] \in Nat
      BY PermitsOf
    <2>2. IsFiniteSet(With(q)) /\ Cardinality(With(q)) \in Nat
      BY WithFinite
    <2>3. q # None
      BY ProvidersAssumption
    <2>4. CASE q = p
      <3>1. With(q)' = With(q) \cup {c} /\ c \notin With(q)
        BY <1>1, <1>3, <1>4, <2>3, <2>4 DEF With
      <3>2. Cardinality(With(q)') = Cardinality(With(q)) + 1
        BY <3>1, <2>2, FS_AddElement
      <3>3. free'[q] = free[q] - 1 /\ free[q] > 0
        BY <1>0, <2>4 DEF PermitsOK
      <3> QED BY <2>1, <2>2, <3>2, <3>3
    <2>5. CASE q # p
      <3>1. With(q)' = With(q)
        BY <1>1, <1>3, <1>4, <2>3, <2>5 DEF With
      <3>2. free'[q] = free[q]
        BY <1>0, <2>5 DEF PermitsOK
      <3> QED BY <2>1, <3>1, <3>2
    <2> QED BY <2>4, <2>5
  <1> QED BY <1>0, <1>1, <1>2, <1>3, <1>5, <1>6, PermitsFrom

\* A dropped permit is free again: once, and at its own adapter.
LEMMA PermitsReleased ==
    ASSUME CallsOK, PermitsOK, NEW c \in Calls, NEW new, GoesOn(c, new), UNCHANGED plans,
           new.pc \notin AtProvider, Release(c)
    PROVE  PermitsOK'
  <1> DEFINE a == [attempt[c] EXCEPT !.at = None]
             p == attempt[c].at
  <1>0. /\ free' = IF p = None THEN free ELSE [free EXCEPT ![p] = @ + 1]
        /\ attempt' = [attempt EXCEPT ![c] = a]
    BY DEF Release, PermitsOK
  <1>1. /\ a \in AttemptTypes /\ a.at = None
        /\ a.again = attempt[c].again /\ a.spent = attempt[c].spent
    BY AttemptFields DEF AttemptTypes
  <1>2. p \in Providers \cup {None}
    BY AttemptFields
  <1> HIDE DEF a
  <1>3. /\ attempt'[c] = a /\ \A d \in Calls \ {c} : attempt'[d] = attempt[d]
    BY <1>0 DEF PermitsOK
  <1>4. DOMAIN free' = Providers /\ free' = [q \in Providers |-> free'[q]]
    BY <1>0 DEF PermitsOK
  <1>5. ASSUME NEW q \in Providers
        PROVE  free'[q] + Cardinality(With(q)') = Permits /\ free'[q] \in Nat
    <2>1. free[q] + Cardinality(With(q)) = Permits /\ free[q] \in Nat
      BY PermitsOf
    <2>2. IsFiniteSet(With(q)) /\ Cardinality(With(q)) \in Nat
      BY WithFinite
    <2>3. q # None
      BY ProvidersAssumption
    <2>4. CASE q = p
      <3>1. With(q)' = With(q) \ {c} /\ c \in With(q)
        BY <1>1, <1>3, <2>3, <2>4 DEF With
      <3>2. Cardinality(With(q)') = Cardinality(With(q)) - 1
        BY <3>1, <2>2, FS_RemoveElement
      <3>3. free'[q] = free[q] + 1
        BY <1>0, <2>3, <2>4 DEF PermitsOK
      <3> QED BY <2>1, <2>2, <3>2, <3>3
    <2>5. CASE q # p
      <3>1. With(q)' = With(q)
        BY <1>1, <1>3, <2>3, <2>5 DEF With
      <3>2. free'[q] = free[q]
        BY <1>0, <2>5 DEF PermitsOK
      <3> QED BY <2>1, <3>1, <3>2
    <2> QED BY <2>4, <2>5
  <1> QED BY <1>0, <1>1, <1>4, <1>5, AttemptFields, PermitsFrom

\* The retry token is spent, and perhaps used; the call stays at its provider.
LEMMA TokenUsed ==
    ASSUME PermitsOK, NEW c \in Calls, UNCHANGED free,
           NEW exchange \in Resendable, Resend(c, exchange) \/ SpendToken(c) \/ KeepToken(c),
           \A d \in Calls : calls'[d].pc \in AtProvider <=> calls[d].pc \in AtProvider
    PROVE  PermitsOK'
  <1>0. /\ attempt[c] \in AttemptTypes
        /\ attempt[c].again \in Seq(Resendable \cup OneShot)
        /\ exchange \in Resendable \cup OneShot
    BY AttemptFields
  <1>1. /\ attempt' \in [Calls -> AttemptTypes]
        /\ \A d \in Calls : attempt'[d].at = attempt[d].at
        /\ \A d \in Calls \ {c} : attempt'[d] = attempt[d]
        /\ \/ attempt'[c] = attempt[c]
           \/ attempt'[c].spent /\ ~attempt[c].spent
                /\ attempt'[c].again \in {attempt[c].again, Append(attempt[c].again, exchange)}
    <2>1. CASE Resend(c, exchange)
      <3>1. Append(attempt[c].again, exchange) \in Seq(Resendable \cup OneShot)
        BY <1>0
      <3> QED BY <2>1, <3>1, <1>0 DEF Resend, PermitsOK, AttemptTypes
    <2>2. CASE SpendToken(c)
      BY <2>2, <1>0 DEF SpendToken, PermitsOK, AttemptTypes
    <2>3. CASE KeepToken(c)
      BY <2>3 DEF KeepToken, PermitsOK
    <2> QED BY <2>1, <2>2, <2>3
  <1>2. TokensSpent'
    <2>1. CASE attempt'[c] = attempt[c]
      BY <1>1, <2>1 DEF PermitsOK, TokensSpent
    <2>2. CASE attempt'[c].spent /\ ~attempt[c].spent
                /\ attempt'[c].again \in {attempt[c].again, Append(attempt[c].again, exchange)}
      <3>1. attempt[c].again = <<>>
        BY <2>2, AttemptFields
      <3>2. /\ Range(<<>>) \subseteq Resendable /\ Len(<<>>) <= 1
            /\ Range(Append(<<>>, exchange)) \subseteq Resendable /\ Len(Append(<<>>, exchange)) <= 1
        BY DEF Range
      <3>3. /\ Range(attempt'[c].again) \subseteq Resendable
            /\ Len(attempt'[c].again) <= 1 /\ attempt'[c].spent
        BY <2>2, <3>1, <3>2
      <3> QED BY <1>1, <3>3 DEF PermitsOK, TokensSpent
    <2> QED BY <1>1, <2>1, <2>2
  <1>3. PermitsAccounted'
    <2>1. ASSUME NEW p \in Providers
          PROVE {d \in Calls : attempt'[d].at = p} = {d \in Calls : attempt[d].at = p}
      BY <1>1
    <2> QED BY <1>1, <2>1 DEF PermitsOK, PermitsAccounted
  <1> QED BY <1>1, <1>2, <1>3 DEF PermitsOK
-----------------------------------------------------------------------------
(***************************************************************************)
(* Gemini's files                                                          *)
(***************************************************************************)

\* Nothing happens to files, guards, detached tasks and deletions.
LEMMA FilesSame ==
    ASSUME FilesOK, UNCHANGED <<files, guards, cleanups, asked>>
    PROVE  FilesOK'
  BY DEF FilesOK, UploadsReclaimed

\* The name of a new file is armed in the poll that learns it.
LEMMA FilesUploaded ==
    ASSUME FilesOK, NEW c \in Calls, FileUploaded(c)
    PROVE  FilesOK'
  BY DEF FilesOK, UploadsReclaimed, FileUploaded, FileStates

\* An upload that gives no name leaves nothing to delete.
LEMMA FilesLost ==
    ASSUME FilesOK, NEW c \in Calls, UploadLost(c)
    PROVE  FilesOK'
  <1>1. PICK f \in {"none", "lost"} : files' = [files EXCEPT ![c] = f]
    BY DEF UploadLost
  <1>2. f \in FileStates /\ f # "kept"
    BY DEF FileStates
  <1> QED BY <1>1, <1>2 DEF FilesOK, UploadsReclaimed, UploadLost

\* run_until sends the deletion itself.
LEMMA FilesDeleteSent ==
    ASSUME FilesOK, NEW c \in Calls, DeleteSent(c)
    PROVE  FilesOK'
  BY DEF FilesOK, UploadsReclaimed, DeleteSent

\* Past its deadline, it hands the name to a detached task.
LEMMA FilesSpawned ==
    ASSUME FilesOK, NEW c \in Calls, SpawnCleanup(c)
    PROVE  FilesOK'
  BY DEF FilesOK, UploadsReclaimed, SpawnCleanup

\* A deletion takes effect or not; a task may be added, and the file of c may
\* leave the tasks when its deletion has been sent.
LEMMA FilesDeleted ==
    ASSUME FilesOK, NEW c \in Calls, DeleteApplied(c),
           guards' = guards,
           cleanups' \subseteq Calls, cleanups \subseteq cleanups' \cup {c},
           asked' = asked \/ asked' = asked \cup {c},
           c \in cleanups' \cup asked' \/ cleanups' = cleanups
    PROVE  FilesOK'
  <1>1. PICK f \in {files[c], "gone"} : files' = [files EXCEPT ![c] = f]
    BY DEF DeleteApplied
  <1>2. f \in FileStates /\ (f = "kept" => files[c] = "kept")
    BY <1>1 DEF FileStates, FilesOK
  <1> QED BY <1>1, <1>2 DEF FilesOK, UploadsReclaimed

\* A dropped call: its guard spawns the deletion, its upload may have made a
\* file, its deletion may take effect.
LEMMA FilesDropped ==
    ASSUME FilesOK, NEW c \in Calls, DropGuard(c),
           NEW f \in {"none", "lost", "gone", files[c]}, files' = [files EXCEPT ![c] = f]
    PROVE  FilesOK'
  <1>1. f \in FileStates /\ (f = "kept" => files[c] = "kept")
    BY DEF FileStates, FilesOK
  <1> QED BY <1>1 DEF FilesOK, UploadsReclaimed, DropGuard
-----------------------------------------------------------------------------
(***************************************************************************)
(* Briefcase uploads                                                       *)
(***************************************************************************)

\* An exchange, in time or late, names the audio of what it begins and never
\* touches what has been committed.
LEMMA ApplyEffect ==
    ASSUME UploadsTypeOK, UploadsNamed, NEW m \in Messages, Apply(m)
    PROVE  /\ uploads' \in [Operations -> [stage : Stages, audio : Calls \cup {None}]]
           /\ UploadsNamed'
           /\ \A o \in Operations : uploads[o].stage = "committed" => uploads'[o] = uploads[o]
           /\ Accepts(m) => uploads'[m.op] = Applied(m)
           /\ Accepts(m) /\ m.exchange = "reserve" =>
                Applied(m).stage \in {"reserved", "staged", "committed"} /\ Applied(m).audio = m.audio
  <1> DEFINE o == m.op
             u == uploads[o]
             v == IF Accepts(m) THEN Applied(m) ELSE u
  <1>1. o \in Operations /\ m.exchange \in Exchanges /\ m.audio \in Calls /\ m.audio # None
    BY CallsAssumption DEF Messages
  <1>2. /\ u \in [stage : Stages, audio : Calls \cup {None}]
        /\ u.stage \in Stages /\ u.audio \in Calls \cup {None}
        /\ u = [stage |-> u.stage, audio |-> u.audio]
        /\ u.stage = "none" <=> u.audio = None
    BY <1>1 DEF UploadsTypeOK, UploadsNamed
  <1>3. /\ uploads' = [uploads EXCEPT ![o] = v]
        /\ uploads \in [Operations -> [stage : Stages, audio : Calls \cup {None}]]
    BY <1>1 DEF Apply, UploadsTypeOK
  <1>4. /\ v \in [stage : Stages, audio : Calls \cup {None}]
        /\ v.stage = "none" <=> v.audio = None
        /\ u.stage = "committed" => v = u
        /\ Accepts(m) /\ m.exchange = "reserve" =>
             Applied(m).stage \in {"reserved", "staged", "committed"} /\ Applied(m).audio = m.audio
    <2>1. CASE ~Accepts(m)
      BY <2>1, <1>2
    <2>2. CASE Accepts(m) /\ m.exchange = "reserve"
      <3>1. /\ u.audio \in {None, m.audio}
            /\ v = IF u = NoUpload THEN [stage |-> "reserved", audio |-> m.audio] ELSE u
            /\ v = Applied(m)
        BY <2>2 DEF Accepts, Applied
      <3> HIDE DEF v, u
      <3>2. CASE u = NoUpload
        <4>1. v = [stage |-> "reserved", audio |-> m.audio]
          BY <3>1, <3>2
        <4>2. v.stage = "reserved" /\ v.audio = m.audio /\ u.stage = "none"
          BY <4>1, <3>2 DEF NoUpload
        <4> QED BY <1>1, <3>1, <4>1, <4>2 DEF Stages
      <3>3. CASE u # NoUpload
        <4>1. v = u
          BY <3>1, <3>3
        <4>2. u.audio # None
          <5>1. ASSUME u.audio = None PROVE FALSE
            <6>1. u.stage = "none"
              BY <1>2, <5>1
            <6> QED BY <1>2, <5>1, <6>1, <3>3 DEF NoUpload
          <5> QED BY <5>1
        <4> QED BY <1>2, <3>1, <4>1, <4>2 DEF Stages
      <3> QED BY <3>2, <3>3
    <2>3. CASE Accepts(m) /\ m.exchange = "transfer"
      <3>1. u.stage = "reserved" /\ v = [stage |-> "staged", audio |-> m.audio]
        BY <2>3 DEF Accepts, Applied
      <3> HIDE DEF v, u
      <3> QED BY <1>1, <2>3, <3>1 DEF Stages
    <2>4. CASE Accepts(m) /\ m.exchange = "commit"
      <3>1. u.audio = m.audio /\ v = [stage |-> "committed", audio |-> m.audio]
        BY <2>4 DEF Accepts, Applied
      <3> HIDE DEF v, u
      <3> QED BY <1>1, <1>2, <2>4, <3>1 DEF Stages
    <2> QED BY <1>1, <2>1, <2>2, <2>3, <2>4 DEF Exchanges
  <1>5. Accepts(m) => v = Applied(m)
    OBVIOUS
  <1> HIDE DEF v
  <1>6. /\ uploads' \in [Operations -> [stage : Stages, audio : Calls \cup {None}]]
        /\ uploads'[o] = v
        /\ \A q \in Operations \ {o} : uploads'[q] = uploads[q]
    BY <1>1, <1>3, <1>4
  <1>7. UploadsNamed'
    BY <1>4, <1>6 DEF UploadsNamed
  <1> QED BY <1>1, <1>4, <1>5, <1>6, <1>7

\* The operation of a live call is in its hands alone.
LEMMA LiveOwns ==
    ASSUME CallsOK, UploadsOK, NEW c \in Calls, calls[c].pc \in Live
    PROVE  /\ Owns(calls[c])
           /\ \A d \in Calls : calls[d].op = calls[c].op /\ Owns(calls[d]) => d = c
  <1>1. Owns(calls[c])
    BY LiveCall, CallsAssumption DEF Owns, Live, AtProvider, AtBriefcase
  <1> QED BY <1>1 DEF UploadsOK, OneAtATime

\* Whatever a live call becomes, its operation stays in one hand.
LEMMA OneAtATimeKept ==
    ASSUME CallsOK, UploadsOK, NEW c \in Calls, calls[c].pc \in Live, NEW new,
           new.op = calls[c].op, calls'[c] = new, \A d \in Calls \ {c} : calls'[d] = calls[d]
    PROVE  OneAtATime'
  <1>1. Owns(calls[c]) /\ calls'[c].op = calls[c].op
    BY LiveOwns
  <1>2. ASSUME NEW d \in Calls, Owns(calls'[d]) PROVE Owns(calls[d]) /\ calls'[d].op = calls[d].op
    BY <1>1, <1>2
  <1>3. ASSUME NEW d \in Calls, NEW e \in Calls,
               Owns(calls'[d]), Owns(calls'[e]), calls'[d].op = calls'[e].op
        PROVE  d = e
    <2>1. /\ Owns(calls[d]) /\ calls'[d].op = calls[d].op
          /\ Owns(calls[e]) /\ calls'[e].op = calls[e].op
      BY <1>2, <1>3
    <2> QED BY <1>3, <2>1 DEF UploadsOK, OneAtATime
  <1>4. \A d, e \in Calls : Owns(calls[d])' /\ Owns(calls[e])' /\ calls'[d].op = calls'[e].op => d = e
    BY <1>3 DEF Owns
  <1> QED BY <1>4 DEF OneAtATime

\* A call goes on, and Briefcase and the audio store see nothing of it yet.
LEMMA UploadsSame ==
    ASSUME CallsOK, UploadsOK, NEW c \in Calls, NEW new, GoesOn(c, new),
           UNCHANGED <<plans, uploads, held>>, wire' \subseteq Messages
    PROVE  UploadsOK'
  <1>1. /\ calls'[c] = new
        /\ \A d \in Calls \ {c} : calls'[d] = calls[d]
        /\ new.op = calls[c].op /\ calls[c].pc \in Live
        /\ new.pc # "check" /\ new.result \notin {"briefcase", "held"}
    BY CallWritten DEF GoesOn
  <1>2. OneAtATime'
    BY <1>1, OneAtATimeKept
  <1>3. UploadsTypeOK' /\ UploadsNamed'
    BY DEF UploadsOK, UploadsTypeOK, UploadsNamed
  <1>4. CheckedIsCommitted'
    BY <1>1 DEF UploadsOK, CheckedIsCommitted
  <1>5. AnswerIsStored'
    BY <1>1 DEF UploadsOK, AnswerIsStored
  <1> QED BY <1>2, <1>3, <1>4, <1>5 DEF UploadsOK

\* The same when an exchange is applied.
LEMMA UploadsApplied ==
    ASSUME CallsOK, UploadsOK, NEW m \in Messages, Apply(m), wire' \subseteq wire,
           UNCHANGED <<plans, held>>, OneAtATime',
           \A d \in Calls : \/ calls'[d] = calls[d]
                            \/ /\ calls'[d].result \notin {"briefcase", "held"}
                               /\ calls'[d].pc = "check" =>
                                    uploads'[calls'[d].op] = [stage |-> "committed", audio |-> d]
    PROVE  UploadsOK'
  <1>0. UploadsTypeOK /\ UploadsNamed /\ CheckedIsCommitted /\ AnswerIsStored
    BY DEF UploadsOK
  <1>1. /\ uploads' \in [Operations -> [stage : Stages, audio : Calls \cup {None}]]
        /\ UploadsNamed'
        /\ \A o \in Operations : uploads[o].stage = "committed" => uploads'[o] = uploads[o]
    BY <1>0, ApplyEffect
  <1>2. UploadsTypeOK'
    BY <1>0, <1>1 DEF UploadsTypeOK
  <1>3. ASSUME NEW d \in Calls, calls[d].pc = "check" \/ calls[d].result \in {"briefcase", "held"}
        PROVE  calls[d].op \in Operations
    <2>1. calls[d] \in CallTypes /\ CallOK(calls[d])
      BY DEF CallsOK
    <2>2. calls[d].op # None
      BY <1>3, <2>1 DEF CallOK
    <2> QED BY <2>1, <2>2, CallFields
  <1>4. ASSUME NEW d \in Calls, calls[d].op \in Operations,
               uploads[calls[d].op] = [stage |-> "committed", audio |-> d]
        PROVE  uploads'[calls[d].op] = [stage |-> "committed", audio |-> d]
    BY <1>1, <1>4
  <1>5. CheckedIsCommitted'
    <2> SUFFICES ASSUME NEW d \in Calls, calls'[d].pc = "check"
                 PROVE  uploads'[calls'[d].op] = [stage |-> "committed", audio |-> d]
      BY DEF CheckedIsCommitted
    <2>1. CASE calls'[d] = calls[d]
      BY <2>1, <1>0, <1>3, <1>4 DEF CheckedIsCommitted
    <2> QED BY <2>1
  <1>6. AnswerIsStored'
    <2> SUFFICES ASSUME NEW d \in Calls
                 PROVE  /\ calls'[d].result = "briefcase" =>
                             uploads'[calls'[d].op] = [stage |-> "committed", audio |-> d]
                        /\ calls'[d].result = "held" => held'[calls'[d].op] = d
      BY DEF AnswerIsStored
    <2>1. CASE calls'[d] = calls[d]
      BY <2>1, <1>0, <1>3, <1>4 DEF AnswerIsStored
    <2> QED BY <2>1
  <1> QED BY <1>1, <1>2, <1>5, <1>6 DEF UploadsOK
-----------------------------------------------------------------------------
(***************************************************************************)
(* The steps                                                               *)
(***************************************************************************)

\* No permit moves, and the calls stay on their side of it.
LEMMA PermitsUnchanged ==
    ASSUME PermitsOK, NEW c \in Calls, UNCHANGED <<free, attempt>>,
           \A d \in Calls : calls'[d].pc \in AtProvider <=> calls[d].pc \in AtProvider
    PROVE  PermitsOK'
  <1>1. KeepToken(c) /\ "poll" \in Resendable
    BY DEF KeepToken, Resendable
  <1> QED BY <1>1, TokenUsed

\* A live call changes its place, its proof or what it has: what must hold.
LEMMA ChangedOK ==
    ASSUME CallsOK, NEW c \in Calls, calls[c].pc \in Live,
           NEW new \in CallTypes, new.pc \in Live,
           new.op = calls[c].op, new.rest = calls[c].rest, new.tried = calls[c].tried,
           new.result = calls[c].result,
           ~new.audio => ~calls[c].audio /\ (calls[c].pc \in Trying <=> new.pc \in Trying),
           CallStores(new, plans[calls[c].op])
    PROVE  CallOK(new)
  <1> DEFINE call == calls[c]
             plan == plans[call.op]
  <1>1. /\ call \in CallTypes /\ CallOK(call) /\ call.op \in Operations
        /\ call.result = "none" /\ Order(plan) # <<>> /\ CallInOrder(call, plan)
    BY LiveCall
  <1>2. new.pc # "idle" /\ new.pc # "ended" /\ call.op # None
    BY <1>1, CallsAssumption DEF Live, AtProvider, AtBriefcase
  <1> HIDE DEF plan
  <1>3. CallInOrder(new, plan)
    BY <1>1 DEF CallInOrder, TriedInOrder, RestFollows, Done
  <1> QED BY <1>1, <1>2, <1>3 DEF CallOK, plan

\* A step that only moves its call along keeps the invariant, whatever it
\* does with the permits, the files and the wire, if those stay in order.
LEMMA StepInv ==
    ASSUME PipelineInv, NEW c \in Calls, NEW new, GoesOn(c, new),
           UNCHANGED <<plans, uploads, held>>, wire' \subseteq Messages, PermitsOK', FilesOK'
    PROVE  PipelineInv'
  <1>1. CallsOK'
    BY CallWritten DEF PipelineInv, GoesOn
  <1>2. UploadsOK'
    BY UploadsSame DEF PipelineInv
  <1> QED BY <1>1, <1>2 DEF PipelineInv

\* ... in particular one that touches nothing but the call.
LEMMA QuietInv ==
    ASSUME PipelineInv, NEW c \in Calls, NEW new, GoesOn(c, new),
           UNCHANGED <<attemptVars, uploadVars, plans>>,
           calls[c].pc \in AtProvider <=> new.pc \in AtProvider
    PROVE  PipelineInv'
  <1>1. /\ UNCHANGED <<free, attempt, files, guards, cleanups, asked, uploads, wire, held, plans>>
        /\ CallsOK /\ PermitsOK /\ FilesOK /\ wire \subseteq Messages
    BY DEF attemptVars, uploadVars, PipelineInv, UploadsOK, UploadsTypeOK
  <1>2. PermitsOK' /\ FilesOK'
    BY <1>1, PermitsSame, FilesSame
  <1> QED BY <1>1, <1>2, StepInv

\* ... or one that ends the attempt and leaves Gemini's file alone.
LEMMA ReturnInv ==
    ASSUME PipelineInv, NEW c \in Calls, NEW new, GoesOn(c, new), new.pc \notin AtProvider,
           Release(c), FilesOK', UNCHANGED <<uploadVars, plans>>
    PROVE  PipelineInv'
  <1>1. /\ UNCHANGED <<uploads, wire, held, plans>>
        /\ CallsOK /\ PermitsOK /\ wire \subseteq Messages
    BY DEF uploadVars, PipelineInv, UploadsOK, UploadsTypeOK
  <1>2. PermitsOK'
    BY <1>1, PermitsReleased
  <1> QED BY <1>1, <1>2, StepInv

\* A permit is free: the next provider is asked.
LEMMA ChooseInv ==
    ASSUME PipelineInv, NEW c \in Calls, Choose(c)
    PROVE  PipelineInv'
  <1>1. /\ UNCHANGED <<files, guards, cleanups, asked, uploads, wire, held, plans>>
        /\ CallsOK /\ PermitsOK /\ FilesOK /\ wire \subseteq Messages
        /\ Acquire(c, Head(calls[c].rest)) /\ calls[c].pc = "choose"
    BY DEF Choose, At, uploadVars, PipelineInv, UploadsOK, UploadsTypeOK
  <1>2. PICK new : GoesOn(c, new) /\ new.pc \in AtProvider
    BY <1>1, ChooseGoesOn
  <1>3. calls[c].pc \notin AtProvider
    BY <1>1 DEF AtProvider
  <1>4. PermitsOK' /\ FilesOK'
    BY <1>1, <1>2, <1>3, PermitsAcquired, FilesSame
  <1> QED BY <1>1, <1>2, <1>4, StepInv

\* No key or no free permit: the provider is passed.
LEMMA ChooseFailsInv ==
    ASSUME PipelineInv, NEW c \in Calls, ChooseFails(c)
    PROVE  PipelineInv'
  <1>1. CallsOK /\ calls[c].pc = "choose" /\ UNCHANGED <<attemptVars, uploadVars, plans>>
    BY DEF ChooseFails, At, PipelineInv
  <1>2. PICK new : GoesOn(c, new) /\ new.pc \in {"choose", "ended"}
    BY <1>1, ChooseFailsGoesOn
  <1>3. calls[c].pc \notin AtProvider /\ new.pc \notin AtProvider
    BY <1>1, <1>2 DEF AtProvider
  <1> QED BY <1>1, <1>2, <1>3, QuietInv

\* The exchange fails: the permit returns, the provider is passed.
LEMMA AttemptFailsInv ==
    ASSUME PipelineInv, NEW c \in Calls, AttemptFails(c)
    PROVE  PipelineInv'
  <1>1. /\ CallsOK /\ FilesOK /\ calls[c].pc \in {"synth", "transcribe"}
        /\ Release(c) /\ NextProvider(c)
        /\ UNCHANGED <<files, guards, cleanups, asked, uploadVars, plans>>
    BY DEF AttemptFails, PipelineInv
  <1>2. PICK new : GoesOn(c, new) /\ new.pc \in {"choose", "ended"}
    BY <1>1, NextProviderGoesOn DEF Trying, AtProvider
  <1>3. new.pc \notin AtProvider
    BY <1>2 DEF AtProvider
  <1> QED BY <1>1, <1>2, <1>3, FilesSame, ReturnInv

\* The same exchange is sent once more.
LEMMA SendAgainInv ==
    ASSUME PipelineInv, NEW c \in Calls, SendAgain(c)
    PROVE  PipelineInv'
  <1>1. /\ CallsOK /\ FilesOK /\ PermitsOK /\ UploadsOK
        /\ calls[c].pc \in Resendable /\ Resend(c, calls[c].pc)
        /\ UNCHANGED <<free, files, guards, cleanups, asked, uploadVars, plans, calls>>
    BY DEF SendAgain, PipelineInv, Resendable
  <1>2. PermitsOK' /\ FilesOK'
    BY <1>1, TokenUsed, FilesSame
  <1>3. CallsOK'
    BY <1>1 DEF CallsOK, CallOK
  <1>4. UploadsOK'
    BY <1>1 DEF UploadsOK, UploadsTypeOK, OneAtATime, Owns, UploadsNamed, CheckedIsCommitted,
                AnswerIsStored, uploadVars
  <1> QED BY <1>2, <1>3, <1>4 DEF PipelineInv

\* The speech is there, and goes to the normalizer.
LEMMA SynthesizedInv ==
    ASSUME PipelineInv, NEW c \in Calls, Synthesized(c)
    PROVE  PipelineInv'
  <1> DEFINE new == [calls[c] EXCEPT !.pc = "normalize"]
  <1>1. /\ CallsOK /\ FilesOK /\ calls[c].pc = "synth" /\ Release(c) /\ Move(c, "normalize")
        /\ UNCHANGED <<files, guards, cleanups, asked, uploadVars, plans>>
    BY DEF Synthesized, At, PipelineInv
  <1>2. calls[c].pc \in Live /\ "normalize" \in Live
    BY <1>1 DEF Live, AtProvider
  <1>3. calls[c] \in CallTypes /\ CallStores(calls[c], plans[calls[c].op])
    BY <1>1, <1>2, LiveCall
  <1>4. new.pc = "normalize" /\ new.audio = calls[c].audio /\ new.result = calls[c].result
    BY <1>3 DEF CallTypes
  <1>5. CallStores(new, plans[calls[c].op])
    BY <1>1, <1>3, <1>4 DEF CallStores, Storing, AtProvider, Exchanges
  <1>6. GoesOn(c, new)
    BY <1>1, <1>2, <1>5, MoveGoesOn DEF Trying, AtProvider
  <1>7. new.pc \notin AtProvider
    BY <1>4 DEF AtProvider
  <1> HIDE DEF new
  <1> QED BY <1>1, <1>6, <1>7, FilesSame, ReturnInv

\* The transcript is there.
LEMMA TranscribedInv ==
    ASSUME PipelineInv, NEW c \in Calls, Transcribed(c)
    PROVE  PipelineInv'
  <1> DEFINE new == [calls[c] EXCEPT !.pc = "ended", !.result = "transcript"]
  <1>1. /\ CallsOK /\ FilesOK /\ calls[c].pc = "transcribe" /\ Release(c) /\ End(c, "transcript")
        /\ UNCHANGED <<files, guards, cleanups, asked, uploadVars, plans>>
    BY DEF Transcribed, At, PipelineInv
  <1>2. calls[c].pc \in Live /\ "transcript" \in Fulfilled
    BY <1>1 DEF Live, AtProvider, Fulfilled
  <1>3. ~calls[c].audio
    BY <1>1, <1>2, LiveCall DEF CallStores, Storing, Exchanges
  <1>4. GoesOn(c, new) /\ new.pc = "ended"
    BY <1>1, <1>2, <1>3, EndGoesOn
  <1>5. new.pc \notin AtProvider
    BY <1>4 DEF AtProvider
  <1> HIDE DEF new
  <1> QED BY <1>1, <1>4, <1>5, FilesSame, ReturnInv

\* What CallStores asks of a live call that only moves to pc.
LEMMA StoresAt ==
    ASSUME CallsOK, NEW c \in Calls, calls[c].pc \in Live, NEW pc \in Live,
           pc \in {"synth", "normalize", "check", "hold"} \cup Exchanges
                => plans[calls[c].op].op = "tts",
           pc \in (AtProvider \ {"synth"}) \cup {"read", "measure"} => plans[calls[c].op].op = "stt",
           calls[c].audio => pc \in Storing,
           plans[calls[c].op].op = "tts" /\ pc \in Storing => calls[c].audio
    PROVE  /\ [calls[c] EXCEPT !.pc = pc] \in CallTypes
           /\ [calls[c] EXCEPT !.pc = pc].pc = pc
           /\ CallStores([calls[c] EXCEPT !.pc = pc], plans[calls[c].op])
  <1> DEFINE call == calls[c]
             new == [call EXCEPT !.pc = pc]
             plan == plans[call.op]
  <1>1. call \in CallTypes /\ CallStores(call, plan)
    BY LiveCall
  <1>2. new \in CallTypes /\ new.pc = pc /\ new.audio = call.audio
    BY <1>1 DEF CallTypes
  <1>3. pc # "ended"
    BY DEF Live, AtProvider, AtBriefcase
  <1> HIDE DEF new
  <1>4. CallStores(new, plan)
    BY <1>1, <1>2, <1>3 DEF CallStores
  <1> QED BY <1>2, <1>4 DEF new

\* A step that only moves its call, away from the providers.
LEMMA QuietMoveInv ==
    ASSUME PipelineInv, NEW c \in Calls, calls[c].pc \in Live \ Trying,
           NEW pc \in Live \ (Trying \cup {"check"}), Move(c, pc),
           UNCHANGED <<attemptVars, uploadVars, plans>>,
           pc \in {"hold"} \cup Exchanges => plans[calls[c].op].op = "tts",
           pc \in {"read", "measure"} => plans[calls[c].op].op = "stt",
           calls[c].audio => pc \in Storing,
           plans[calls[c].op].op = "tts" /\ pc \in Storing => calls[c].audio
    PROVE  PipelineInv'
  <1> DEFINE new == [calls[c] EXCEPT !.pc = pc]
  <1>1. CallsOK /\ calls[c].pc \in Live /\ pc \in Live /\ pc \notin Trying /\ calls[c].pc \notin Trying
    BY DEF PipelineInv
  <1>2. pc \notin AtProvider \cup {"normalize", "synth", "check"} /\ calls[c].pc \notin AtProvider
    BY <1>1 DEF Trying, AtProvider
  <1>3. new.pc = pc /\ CallStores(new, plans[calls[c].op])
    BY <1>1, <1>2, StoresAt
  <1>4. GoesOn(c, new)
    BY <1>1, <1>2, <1>3, MoveGoesOn
  <1> HIDE DEF new
  <1> QED BY <1>2, <1>3, <1>4, QuietInv

\* A step that only ends its call, away from the providers.
LEMMA QuietEndInv ==
    ASSUME PipelineInv, NEW c \in Calls, calls[c].pc \in Live \ AtProvider,
           NEW result \in Failures \ {"ProvidersExhausted"}, End(c, result),
           UNCHANGED <<attemptVars, uploadVars, plans>>,
           calls[c].audio => result \in {"AudioStore", "dropped"}
    PROVE  PipelineInv'
  <1> DEFINE new == [calls[c] EXCEPT !.pc = "ended", !.result = result]
  <1>1. CallsOK /\ result \in Fulfilled \cup Failures
        /\ result \notin {"ProvidersExhausted", "briefcase", "held"}
    BY DEF PipelineInv, Failures
  <1>2. GoesOn(c, new) /\ new.pc = "ended"
    BY <1>1, EndGoesOn
  <1>3. new.pc \notin AtProvider
    BY <1>2 DEF AtProvider
  <1> HIDE DEF new
  <1> QED BY <1>2, <1>3, QuietInv

\* The MP3 exists, and looks for its place.
LEMMA NormalizedInv ==
    ASSUME PipelineInv, NEW c \in Calls, Normalized(c)
    PROVE  PipelineInv'
  <1> DEFINE pc == IF Plan(c).delegated THEN "hold" ELSE "proof"
             yes == TRUE
             new == [calls[c] EXCEPT !.audio = yes, !.pc = pc]
  <1>0. yes \in BOOLEAN /\ yes
    OBVIOUS
  <1> HIDE DEF yes
  <1>1. /\ CallsOK /\ calls[c].pc = "normalize" /\ UNCHANGED <<attemptVars, uploadVars, plans>>
    BY DEF Normalized, At, PipelineInv
  <1>2. calls' = [calls EXCEPT ![c] = new]
    BY DEF Normalized, CallsOK, PipelineInv, yes
  <1>3. calls[c].pc \in Live /\ pc \in {"hold", "proof"} /\ pc \in Live \cap Storing
    BY <1>1 DEF Live, AtProvider, Storing
  <1> HIDE DEF pc
  <1>4. /\ calls[c] \in CallTypes /\ CallStores(calls[c], plans[calls[c].op])
    BY <1>1, <1>3, LiveCall
  <1>5. /\ new \in CallTypes /\ new.pc = pc /\ new.audio = yes /\ new.op = calls[c].op
        /\ new.rest = calls[c].rest /\ new.tried = calls[c].tried /\ new.result = calls[c].result
    BY <1>0, <1>3, <1>4 DEF CallTypes
  <1>6. pc \notin (AtProvider \ {"synth"}) \cup {"read", "measure", "ended", "check"}
    BY <1>3 DEF AtProvider
  <1>7. plans[calls[c].op].op = "tts"
    BY <1>1, <1>4 DEF CallStores
  <1> HIDE DEF new
  <1>8. CallStores(new, plans[calls[c].op])
    BY <1>0, <1>3, <1>5, <1>6, <1>7 DEF CallStores
  <1>9. CallOK(new)
    BY <1>0, <1>1, <1>3, <1>5, <1>8, ChangedOK
  <1>10. calls[c].result = "none"
    BY <1>1, <1>3, LiveCall
  <1>11. GoesOn(c, new)
    BY <1>2, <1>3, <1>5, <1>6, <1>9, <1>10 DEF GoesOn
  <1>12. calls[c].pc \notin AtProvider /\ new.pc \notin AtProvider
    BY <1>1, <1>3, <1>5 DEF AtProvider
  <1> QED BY <1>1, <1>11, <1>12, QuietInv

\* The normalizer blames the provider or ends the call.
LEMMA NormalizeFailsInv ==
    ASSUME PipelineInv, NEW c \in Calls,
           NEW error \in {"InvalidAudio", "Failed", "Unavailable"}, NormalizeFails(c, error)
    PROVE  PipelineInv'
  <1>1. /\ CallsOK /\ calls[c].pc = "normalize" /\ UNCHANGED <<attemptVars, uploadVars, plans>>
        /\ NextProvider(c) \/ End(c, "Normalizer")
    BY DEF NormalizeFails, At, PipelineInv
  <1>2. calls[c].pc \in Live \ AtProvider /\ calls[c].pc \in Trying
    BY <1>1 DEF Live, AtProvider, Trying
  <1>3. CASE NextProvider(c)
    <2>1. PICK new : GoesOn(c, new) /\ new.pc \in {"choose", "ended"}
      BY <1>1, <1>2, <1>3, NextProviderGoesOn
    <2>2. new.pc \notin AtProvider
      BY <2>1 DEF AtProvider
    <2> QED BY <1>1, <1>2, <2>1, <2>2, QuietInv
  <1>4. CASE End(c, "Normalizer")
    <2>1. ~calls[c].audio
      BY <1>1, <1>2, LiveCall DEF CallStores, Storing, Exchanges
    <2>2. "Normalizer" \in Failures \ {"ProvidersExhausted"}
      BY DEF Failures
    <2> QED BY <1>1, <1>2, <1>4, <2>1, <2>2, QuietEndInv
  <1> QED BY <1>1, <1>3, <1>4

\* Gemini has the file, and its guard is armed.
LEMMA GeminiUploadsInv ==
    ASSUME PipelineInv, NEW c \in Calls, GeminiUploads(c)
    PROVE  PipelineInv'
  <1> DEFINE new == [calls[c] EXCEPT !.pc = "poll"]
  <1>1. /\ CallsOK /\ FilesOK /\ PermitsOK /\ calls[c].pc = "upload" /\ FileUploaded(c) /\ Move(c, "poll")
        /\ UNCHANGED <<free, attempt, plans, uploads, wire, held>> /\ wire \subseteq Messages
    BY DEF GeminiUploads, At, PipelineInv, uploadVars, UploadsOK, UploadsTypeOK
  <1>2. /\ calls[c].pc \in Live \cap Trying \cap AtProvider
        /\ "poll" \in Live \cap Trying \cap AtProvider
    BY <1>1 DEF Live, AtProvider, Trying
  <1>3. plans[calls[c].op].op = "stt" /\ ~calls[c].audio
    BY <1>1, <1>2, LiveCall DEF CallStores, Storing, Exchanges, AtProvider
  <1>4. new.pc = "poll" /\ CallStores(new, plans[calls[c].op])
    BY <1>1, <1>2, <1>3, StoresAt DEF Exchanges
  <1>5. GoesOn(c, new)
    BY <1>1, <1>2, <1>4, MoveGoesOn
  <1>6. PermitsOK' /\ FilesOK'
    BY <1>1, <1>2, <1>4, <1>5, PermitsSame, FilesUploaded
  <1> HIDE DEF new
  <1> QED BY <1>1, <1>5, <1>6, StepInv

\* Gemini's upload fails.
LEMMA GeminiUploadFailsInv ==
    ASSUME PipelineInv, NEW c \in Calls, GeminiUploadFails(c)
    PROVE  PipelineInv'
  <1>1. /\ CallsOK /\ FilesOK /\ calls[c].pc = "upload" /\ UploadLost(c) /\ Release(c)
        /\ NextProvider(c) /\ UNCHANGED <<uploadVars, plans>>
    BY DEF GeminiUploadFails, At, PipelineInv
  <1>2. PICK new : GoesOn(c, new) /\ new.pc \in {"choose", "ended"}
    BY <1>1, NextProviderGoesOn DEF Trying, AtProvider
  <1>3. new.pc \notin AtProvider
    BY <1>2 DEF AtProvider
  <1> QED BY <1>1, <1>2, <1>3, FilesLost, ReturnInv

\* wait_until_active.
LEMMA GeminiPollsInv ==
    ASSUME PipelineInv, NEW c \in Calls, NEW state \in {"PROCESSING", "ACTIVE"}, GeminiPolls(c, state)
    PROVE  PipelineInv'
  <1>1. PICK pc \in {"poll", "interact"} : Move(c, pc)
    BY DEF GeminiPolls
  <1> DEFINE new == [calls[c] EXCEPT !.pc = pc]
  <1>2. CallsOK /\ calls[c].pc = "poll" /\ UNCHANGED <<attemptVars, uploadVars, plans>>
    BY DEF GeminiPolls, At, PipelineInv
  <1>3. /\ calls[c].pc \in Live \cap Trying \cap AtProvider
        /\ pc \in Live \cap Trying \cap AtProvider
    BY <1>1, <1>2 DEF Live, AtProvider, Trying
  <1>4. plans[calls[c].op].op = "stt" /\ ~calls[c].audio
    BY <1>2, <1>3, LiveCall DEF CallStores, Storing, Exchanges, AtProvider
  <1>5. new.pc = pc /\ CallStores(new, plans[calls[c].op])
    BY <1>1, <1>2, <1>3, <1>4, StoresAt DEF Exchanges
  <1>6. GoesOn(c, new)
    BY <1>1, <1>2, <1>3, <1>5, MoveGoesOn
  <1> HIDE DEF new
  <1> QED BY <1>2, <1>3, <1>5, <1>6, QuietInv

\* The transcript is parsed, and the file is cleaned up.
LEMMA GeminiHearsInv ==
    ASSUME PipelineInv, NEW c \in Calls, GeminiHears(c)
    PROVE  PipelineInv'
  <1> DEFINE yes == TRUE
             new == [calls[c] EXCEPT !.pc = "cleaning", !.heard = yes]
  <1>0. yes \in BOOLEAN
    OBVIOUS
  <1> HIDE DEF yes
  <1>1. CallsOK /\ calls[c].pc = "interact" /\ UNCHANGED <<attemptVars, uploadVars, plans>>
    BY DEF GeminiHears, At, PipelineInv
  <1>2. calls' = [calls EXCEPT ![c] = new]
    BY DEF GeminiHears, CallsOK, PipelineInv, yes
  <1>3. /\ calls[c].pc \in Live \cap Trying \cap AtProvider
        /\ "cleaning" \in Live \cap Trying \cap AtProvider
    BY <1>1 DEF Live, AtProvider, Trying
  <1>4. calls[c] \in CallTypes /\ plans[calls[c].op].op = "stt" /\ ~calls[c].audio /\ calls[c].result = "none"
    BY <1>1, <1>3, LiveCall DEF CallStores, Storing, Exchanges, AtProvider
  <1>5. /\ new \in CallTypes /\ new.pc = "cleaning" /\ new.audio = calls[c].audio /\ new.op = calls[c].op
        /\ new.rest = calls[c].rest /\ new.tried = calls[c].tried /\ new.result = calls[c].result
    BY <1>0, <1>3, <1>4 DEF CallTypes
  <1> HIDE DEF new
  <1>6. CallStores(new, plans[calls[c].op])
    BY <1>4, <1>5 DEF CallStores, Exchanges
  <1>7. CallOK(new)
    BY <1>1, <1>3, <1>4, <1>5, <1>6, ChangedOK
  <1>8. GoesOn(c, new)
    BY <1>2, <1>3, <1>4, <1>5, <1>7 DEF GoesOn
  <1> QED BY <1>1, <1>3, <1>5, <1>8, QuietInv

\* Polling or transcribing fails, and the file is cleaned up.
LEMMA GeminiFailsInv ==
    ASSUME PipelineInv, NEW c \in Calls, GeminiFails(c)
    PROVE  PipelineInv'
  <1> DEFINE new == [calls[c] EXCEPT !.pc = "cleaning"]
  <1>1. /\ CallsOK /\ FilesOK /\ PermitsOK /\ calls[c].pc \in {"poll", "interact"} /\ Move(c, "cleaning")
        /\ SpendToken(c) \/ KeepToken(c)
        /\ UNCHANGED <<free, files, guards, cleanups, asked, plans, uploads, wire, held>>
        /\ wire \subseteq Messages
    BY DEF GeminiFails, PipelineInv, uploadVars, UploadsOK, UploadsTypeOK
  <1>2. /\ calls[c].pc \in Live \cap Trying \cap AtProvider
        /\ "cleaning" \in Live \cap Trying \cap AtProvider
    BY <1>1 DEF Live, AtProvider, Trying
  <1>3. plans[calls[c].op].op = "stt" /\ ~calls[c].audio
    BY <1>1, <1>2, LiveCall DEF CallStores, Storing, Exchanges, AtProvider
  <1>4. new.pc = "cleaning" /\ CallStores(new, plans[calls[c].op])
    BY <1>1, <1>2, <1>3, StoresAt DEF Exchanges
  <1>5. GoesOn(c, new)
    BY <1>1, <1>2, <1>4, MoveGoesOn
  <1> HIDE DEF new
  <1>6. /\ calls'[c] = new /\ \A d \in Calls \ {c} : calls'[d] = calls[d]
    BY <1>1, <1>5, CallWritten DEF GoesOn
  <1>7. \A d \in Calls : calls'[d].pc \in AtProvider <=> calls[d].pc \in AtProvider
    BY <1>2, <1>4, <1>6
  <1>8. "poll" \in Resendable
    BY DEF Resendable
  <1>9. PermitsOK' /\ FilesOK'
    BY <1>1, <1>7, <1>8, TokenUsed, FilesSame
  <1> QED BY <1>1, <1>5, <1>9, StepInv

\* Gemini's attempt returns: the transcript, or the next provider.
LEMMA GeminiReturnsInv ==
    ASSUME PipelineInv, NEW c \in Calls, calls[c].pc \in {"cleaning", "delete"},
           GeminiReturns(c), FilesOK', UNCHANGED <<uploadVars, plans>>
    PROVE  PipelineInv'
  <1>1. CallsOK /\ Release(c) /\ (End(c, "transcript") \/ NextProvider(c))
    BY DEF GeminiReturns, PipelineInv
  <1>2. calls[c].pc \in Live \cap Trying
    BY DEF Live, AtProvider, Trying
  <1>3. CASE NextProvider(c)
    <2>1. PICK new : GoesOn(c, new) /\ new.pc \in {"choose", "ended"}
      BY <1>1, <1>2, <1>3, NextProviderGoesOn
    <2>2. new.pc \notin AtProvider
      BY <2>1 DEF AtProvider
    <2> QED BY <1>1, <2>1, <2>2, ReturnInv
  <1>4. CASE End(c, "transcript")
    <2> DEFINE new == [calls[c] EXCEPT !.pc = "ended", !.result = "transcript"]
    <2>1. ~calls[c].audio /\ "transcript" \in Fulfilled
      BY <1>1, <1>2, LiveCall DEF CallStores, Storing, Exchanges, Fulfilled
    <2>2. GoesOn(c, new) /\ new.pc = "ended"
      BY <1>1, <1>2, <1>4, <2>1, EndGoesOn
    <2>3. new.pc \notin AtProvider
      BY <2>2 DEF AtProvider
    <2> HIDE DEF new
    <2> QED BY <1>1, <2>2, <2>3, ReturnInv
  <1> QED BY <1>1, <1>3, <1>4

\* run_until deletes within the deadline.
LEMMA CleanInTimeInv ==
    ASSUME PipelineInv, NEW c \in Calls, CleanInTime(c)
    PROVE  PipelineInv'
  <1> DEFINE new == [calls[c] EXCEPT !.pc = "delete"]
  <1>1. /\ CallsOK /\ FilesOK /\ PermitsOK /\ calls[c].pc = "cleaning" /\ DeleteSent(c) /\ Move(c, "delete")
        /\ UNCHANGED <<free, attempt, plans, uploads, wire, held>> /\ wire \subseteq Messages
    BY DEF CleanInTime, At, PipelineInv, uploadVars, UploadsOK, UploadsTypeOK
  <1>2. /\ calls[c].pc \in Live \cap Trying \cap AtProvider
        /\ "delete" \in Live \cap Trying \cap AtProvider
    BY <1>1 DEF Live, AtProvider, Trying
  <1>3. plans[calls[c].op].op = "stt" /\ ~calls[c].audio
    BY <1>1, <1>2, LiveCall DEF CallStores, Storing, Exchanges, AtProvider
  <1>4. new.pc = "delete" /\ CallStores(new, plans[calls[c].op])
    BY <1>1, <1>2, <1>3, StoresAt DEF Exchanges
  <1>5. GoesOn(c, new)
    BY <1>1, <1>2, <1>4, MoveGoesOn
  <1>6. PermitsOK' /\ FilesOK'
    BY <1>1, <1>2, <1>4, <1>5, PermitsSame, FilesDeleteSent
  <1> HIDE DEF new
  <1> QED BY <1>1, <1>5, <1>6, StepInv

\* run_until is past the deadline.
LEMMA CleanTooLateInv ==
    ASSUME PipelineInv, NEW c \in Calls, CleanTooLate(c)
    PROVE  PipelineInv'
  <1>1. FilesOK /\ calls[c].pc = "cleaning" /\ SpawnCleanup(c) /\ GeminiReturns(c)
        /\ UNCHANGED <<uploadVars, plans>>
    BY DEF CleanTooLate, At, PipelineInv
  <1> QED BY <1>1, FilesSpawned, GeminiReturnsInv

\* The deletion is answered or times out.
LEMMA DeletedInv ==
    ASSUME PipelineInv, NEW c \in Calls, Deleted(c) \/ DeleteTimesOut(c)
    PROVE  PipelineInv'
  <1>1. /\ FilesOK /\ calls[c].pc = "delete" /\ DeleteApplied(c) /\ GeminiReturns(c)
        /\ cleanups' = cleanups \/ cleanups' = cleanups \cup {c}
        /\ UNCHANGED <<guards, asked, uploadVars, plans>>
    BY DEF Deleted, DeleteTimesOut, At, PipelineInv
  <1>2. cleanups' \subseteq Calls /\ cleanups \subseteq cleanups' \cup {c}
        /\ (c \in cleanups' \cup asked' \/ cleanups' = cleanups)
    BY <1>1 DEF FilesOK
  <1>3. FilesOK'
    BY <1>1, <1>2, FilesDeleted
  <1> QED BY <1>1, <1>3, GeminiReturnsInv

\* The detached task sends its one deletion.
LEMMA DetachedCleanupInv ==
    ASSUME PipelineInv, NEW c \in Calls, DetachedCleanup(c)
    PROVE  PipelineInv'
  <1>1. /\ CallsOK /\ PermitsOK /\ FilesOK /\ UploadsOK /\ RunCleanup(c)
        /\ UNCHANGED <<free, attempt, guards, uploads, wire, held, plans, calls>>
    BY DEF DetachedCleanup, RunCleanup, PipelineInv, uploadVars
  <1>2. FilesOK'
    BY <1>1, FilesDeleted DEF RunCleanup, FilesOK
  <1>3. PermitsOK'
    BY <1>1, PermitsUnchanged
  <1>4. CallsOK'
    BY <1>1 DEF CallsOK, CallOK
  <1>5. UploadsOK'
    BY <1>1 DEF UploadsOK, UploadsTypeOK, OneAtATime, Owns, UploadsNamed, CheckedIsCommitted,
                AnswerIsStored
  <1> QED BY <1>2, <1>3, <1>4, <1>5 DEF PipelineInv

\* A TTS call that looks for a place to keep its audio has it.
LEMMA StoringCall ==
    ASSUME CallsOK, NEW c \in Calls, calls[c].pc \in Storing \cup {"read", "measure"}
    PROVE  /\ calls[c].pc \in Live \ Trying
           /\ plans[calls[c].op].op \in {"tts", "stt"}
           /\ Plan(c) = plans[calls[c].op]
           /\ plans[calls[c].op].op = "tts" <=> calls[c].audio
           /\ calls[c].pc \in Exchanges \cup {"check", "hold"} => plans[calls[c].op].op = "tts"
           /\ calls[c].pc \in {"read", "measure"} => plans[calls[c].op].op = "stt"
  <1>1. calls[c].pc \in Live \ Trying
    BY DEF Storing, Exchanges, Live, AtProvider, AtBriefcase, Trying
  <1>2. /\ plans[calls[c].op] \in Plans /\ CallStores(calls[c], plans[calls[c].op])
        /\ Plan(c) = plans[calls[c].op]
    BY <1>1, LiveCall
  <1>3. plans[calls[c].op].op \in {"tts", "stt"}
    BY <1>2, PlanFields
  <1> QED BY <1>1, <1>2, <1>3 DEF CallStores, Storing, Exchanges

\* The authority hands out a proof, the first or a renewed one.
LEMMA ProofHandedOutInv ==
    ASSUME PipelineInv, NEW c \in Calls, ProofHandedOut(c)
    PROVE  PipelineInv'
  <1> DEFINE proof == IF At(c, "proof") THEN "first" ELSE "renewed"
             pc == FirstBriefcaseExchange(c)
             new == [calls[c] EXCEPT !.proof = proof, !.pc = pc]
  <1>1. /\ CallsOK /\ calls[c].pc \in {"proof", "renew"} /\ UNCHANGED <<attemptVars, uploadVars, plans>>
        /\ calls' = [calls EXCEPT ![c] = new]
    BY DEF ProofHandedOut, PipelineInv, CallsOK
  <1>2. /\ calls[c].pc \in Live \ Trying /\ plans[calls[c].op].op \in {"tts", "stt"}
        /\ plans[calls[c].op].op = "tts" <=> calls[c].audio
        /\ Plan(c) = plans[calls[c].op]
    BY <1>1, StoringCall DEF Storing
  <1>3. /\ pc = IF plans[calls[c].op].op = "tts" THEN "reserve" ELSE "read"
        /\ proof \in {"none", "first", "renewed"}
    BY <1>2 DEF FirstBriefcaseExchange
  <1> HIDE DEF pc, proof
  <1>4. pc \in Live \ Trying /\ pc \notin AtProvider /\ calls[c].pc \notin AtProvider
    BY <1>1, <1>3 DEF Live, AtBriefcase, AtProvider, Trying
  <1>5. calls[c] \in CallTypes /\ calls[c].result = "none" /\ CallStores(calls[c], plans[calls[c].op])
        /\ calls[c].audio \in BOOLEAN
    BY <1>1, <1>2, LiveCall, CallFields
  <1>6. /\ new \in CallTypes /\ new.pc = pc /\ new.audio = calls[c].audio /\ new.op = calls[c].op
        /\ new.rest = calls[c].rest /\ new.tried = calls[c].tried /\ new.result = calls[c].result
    BY <1>3, <1>4, <1>5 DEF CallTypes
  <1> HIDE DEF new
  <1>7. CallStores(new, plans[calls[c].op])
    BY <1>2, <1>3, <1>5, <1>6 DEF CallStores, Exchanges, Storing, AtProvider
  <1>8. CallOK(new)
    BY <1>1, <1>2, <1>4, <1>5, <1>6, <1>7, ChangedOK
  <1>9. pc # "check"
    BY <1>3
  <1>10. GoesOn(c, new)
    BY <1>1, <1>2, <1>5, <1>6, <1>8, <1>9 DEF GoesOn
  <1> QED BY <1>1, <1>4, <1>6, <1>10, QuietInv

\* No usable proof: TTS holds its audio, STT cannot go on.
LEMMA StorageFailsInv ==
    ASSUME PipelineInv, NEW c \in Calls, calls[c].pc \in AtBriefcase \cup {"proof", "renew"},
           StorageFails(c, "Authority"), UNCHANGED <<attemptVars, uploadVars, plans>>
    PROVE  PipelineInv'
  <1>1. CallsOK
    BY DEF PipelineInv
  <1>2. /\ calls[c].pc \in Live \ Trying /\ plans[calls[c].op].op \in {"tts", "stt"}
        /\ plans[calls[c].op].op = "tts" <=> calls[c].audio
        /\ Plan(c) = plans[calls[c].op]
    BY <1>1, StoringCall DEF Storing, AtBriefcase, Exchanges
  <1>3. CASE plans[calls[c].op].op = "tts"
    <2>1. Move(c, "hold")
      BY <1>2, <1>3 DEF StorageFails
    <2>2. "hold" \in Live \ (Trying \cup {"check"}) /\ "hold" \in Storing
      BY DEF Live, Trying, AtProvider, Storing
    <2> QED BY <1>2, <1>3, <2>1, <2>2, QuietMoveInv
  <1>4. CASE plans[calls[c].op].op # "tts"
    <2>1. End(c, "Authority")
      BY <1>2, <1>4 DEF StorageFails
    <2>2. "Authority" \in Failures \ {"ProvidersExhausted"} /\ calls[c].pc \in Live \ AtProvider
      BY <1>2 DEF Failures, Trying
    <2> QED BY <1>2, <1>4, <2>1, <2>2, QuietEndInv
  <1> QED BY <1>3, <1>4

\* Briefcase refuses the proof.
LEMMA UnauthorizedInv ==
    ASSUME PipelineInv, NEW c \in Calls, Unauthorized(c)
    PROVE  PipelineInv'
  <1>1. /\ CallsOK /\ calls[c].pc \in AtBriefcase /\ UNCHANGED <<attemptVars, uploadVars, plans>>
        /\ Move(c, "renew") \/ StorageFails(c, "Authority")
    BY DEF Unauthorized, PipelineInv
  <1>2. CASE Move(c, "renew")
    <2>1. /\ calls[c].pc \in Live \ Trying
          /\ plans[calls[c].op].op = "tts" <=> calls[c].audio
      BY <1>1, StoringCall DEF Storing, AtBriefcase, Exchanges
    <2>2. "renew" \in Live \ (Trying \cup {"check"}) /\ "renew" \in Storing
          /\ "renew" \notin {"hold", "read", "measure"} \cup Exchanges
      BY DEF Live, Trying, AtProvider, Storing, Exchanges
    <2> QED BY <1>1, <1>2, <2>1, <2>2, QuietMoveInv
  <1>3. CASE StorageFails(c, "Authority")
    BY <1>1, <1>3, StorageFailsInv
  <1> QED BY <1>1, <1>2, <1>3

\* The STT source is read and measured.
LEMMA SourceInv ==
    ASSUME PipelineInv, NEW c \in Calls, SourceRead(c) \/ SourceMeasured(c)
    PROVE  PipelineInv'
  <1>1. PICK pc \in {"measure", "choose"} : Move(c, pc)
    BY DEF SourceRead, SourceMeasured
  <1>2. CallsOK /\ calls[c].pc \in {"read", "measure"} /\ UNCHANGED <<attemptVars, uploadVars, plans>>
    BY DEF SourceRead, SourceMeasured, At, PipelineInv
  <1>3. /\ calls[c].pc \in Live \ Trying /\ plans[calls[c].op].op = "stt" /\ ~calls[c].audio
    BY <1>2, StoringCall
  <1>4. pc \in Live \ (Trying \cup {"check"}) /\ pc \notin {"hold"} \cup Exchanges
    BY <1>1 DEF Live, Trying, AtProvider, Exchanges
  <1> QED BY <1>1, <1>2, <1>3, <1>4, QuietMoveInv

\* The STT source cannot be read or measured.
LEMMA SourceFailsInv ==
    ASSUME PipelineInv, NEW c \in Calls,
           ReadFails(c) \/ \E error \in {"UnsupportedMedia", "Normalizer"} : SourceNotMeasured(c, error)
    PROVE  PipelineInv'
  <1>1. PICK result \in {"Briefcase", "UnsupportedMedia", "Normalizer"} : End(c, result)
    BY DEF ReadFails, SourceNotMeasured
  <1>2. CallsOK /\ calls[c].pc \in {"read", "measure"} /\ UNCHANGED <<attemptVars, uploadVars, plans>>
    BY DEF ReadFails, SourceNotMeasured, At, PipelineInv
  <1>3. /\ calls[c].pc \in Live \ Trying /\ plans[calls[c].op].op = "stt" /\ ~calls[c].audio
    BY <1>2, StoringCall
  <1>4. result \in Failures \ {"ProvidersExhausted"} /\ calls[c].pc \in Live \ AtProvider
    BY <1>1, <1>3 DEF Failures, Trying
  <1> QED BY <1>1, <1>2, <1>3, <1>4, QuietEndInv

\* Waveform's audio store fails.
LEMMA HoldFailsInv ==
    ASSUME PipelineInv, NEW c \in Calls, HoldFails(c)
    PROVE  PipelineInv'
  <1>1. CallsOK /\ calls[c].pc = "hold" /\ End(c, "AudioStore") /\ UNCHANGED <<attemptVars, uploadVars, plans>>
    BY DEF HoldFails, At, PipelineInv
  <1>2. "AudioStore" \in Failures \ {"ProvidersExhausted"} /\ calls[c].pc \in Live \ AtProvider
    BY <1>1 DEF Failures, Live, AtProvider
  <1> QED BY <1>1, <1>2, QuietEndInv

\* A message of a live call at Briefcase is one Briefcase may see.
LEMMA MessageOK ==
    ASSUME CallsOK, NEW c \in Calls, calls[c].pc \in Exchanges
    PROVE  /\ Message(c) \in Messages
           /\ Message(c).op = calls[c].op
           /\ Message(c).exchange = calls[c].pc
           /\ Message(c).audio = c
  <1>1. calls[c].pc \in Live
    BY DEF Exchanges, Live, AtBriefcase
  <1>2. calls[c].op \in Operations
    BY <1>1, LiveCall
  <1> QED BY <1>2 DEF Message, Messages

\* An exchange is answered: only a committed upload of this audio is checked.
LEMMA ExchangedInv ==
    ASSUME PipelineInv, NEW c \in Calls, Exchanged(c)
    PROVE  PipelineInv'
  <1> DEFINE m == Message(c)
             next == IF ~Accepts(m) THEN "hold"
                     ELSE CASE At(c, "reserve")  -> AfterReserve(Applied(m).stage)
                            [] At(c, "transfer") -> "commit"
                            [] At(c, "commit")   -> "check"
             new == [calls[c] EXCEPT !.pc = next]
  <1>1. /\ CallsOK /\ PermitsOK /\ FilesOK /\ UploadsOK /\ calls[c].pc \in Exchanges
        /\ Apply(m) /\ Move(c, next)
        /\ UNCHANGED <<free, attempt, files, guards, cleanups, asked, wire, held, plans>>
    BY DEF Exchanged, PipelineInv, attemptVars
  <1>2. /\ m \in Messages /\ m.op = calls[c].op /\ m.exchange = calls[c].pc /\ m.audio = c
    BY <1>1, MessageOK
  <1>3. /\ calls[c].pc \in Live \ Trying /\ plans[calls[c].op].op = "tts" /\ calls[c].audio
    BY <1>1, StoringCall DEF Storing
  <1>4. /\ calls[c] \in CallTypes /\ calls[c].op \in Operations /\ calls[c].result = "none"
    BY <1>1, <1>3, LiveCall
  <1>5. UploadsTypeOK /\ UploadsNamed
    BY <1>1 DEF UploadsOK
  <1>6. /\ Accepts(m) => uploads'[m.op] = Applied(m)
        /\ uploads' \in [Operations -> [stage : Stages, audio : Calls \cup {None}]]
        /\ Accepts(m) /\ m.exchange = "reserve" =>
             Applied(m).stage \in {"reserved", "staged", "committed"} /\ Applied(m).audio = m.audio
    BY <1>1, <1>2, <1>5, ApplyEffect
  <1>7. /\ next \in {"hold", "transfer", "commit", "check"}
        /\ next = "check" => uploads'[calls[c].op] = [stage |-> "committed", audio |-> c]
    <2>1. CASE ~Accepts(m)
      BY <2>1
    <2>2. CASE Accepts(m) /\ calls[c].pc = "reserve"
      <3>1. /\ next = AfterReserve(Applied(m).stage)
            /\ Applied(m).stage \in {"reserved", "staged", "committed"} /\ Applied(m).audio = c
            /\ uploads'[m.op] = Applied(m)
        BY <1>2, <1>6, <2>2 DEF At
      <3>2. uploads'[m.op] \in [stage : Stages, audio : Calls \cup {None}]
        BY <1>2, <1>4, <1>6
      <3>3. Applied(m) = [stage |-> Applied(m).stage, audio |-> Applied(m).audio]
        BY <3>1, <3>2
      <3> HIDE DEF m, next
      <3> QED BY <1>2, <3>1, <3>3 DEF AfterReserve
    <2>3. CASE Accepts(m) /\ calls[c].pc = "transfer"
      BY <2>3 DEF At
    <2>4. CASE Accepts(m) /\ calls[c].pc = "commit"
      <3>1. next = "check"
        BY <2>4 DEF At
      <3>2. Applied(m) = [stage |-> "committed", audio |-> c]
        BY <1>2, <2>4 DEF Applied
      <3> QED BY <1>2, <1>6, <2>4, <3>1, <3>2
    <2> QED BY <1>1, <2>1, <2>2, <2>3, <2>4 DEF Exchanges
  <1>8. calls' = [calls EXCEPT ![c] = new]
    BY <1>1 DEF Move, CallsOK
  <1> HIDE DEF m, next
  <1>9. /\ next \in Live \ Trying /\ next \in Storing /\ next \notin AtProvider
        /\ next \notin {"read", "measure"} /\ calls[c].pc \notin AtProvider
    BY <1>1, <1>7 DEF Live, AtProvider, AtBriefcase, Trying, Storing, Exchanges
  <1>10. new \in CallTypes /\ new.pc = next /\ CallStores(new, plans[calls[c].op])
    BY <1>1, <1>3, <1>9, StoresAt
  <1>11. /\ new.audio = calls[c].audio /\ new.op = calls[c].op /\ new.rest = calls[c].rest
         /\ new.tried = calls[c].tried /\ new.result = calls[c].result
    BY <1>4 DEF CallTypes
  <1> HIDE DEF new
  <1>12. CallOK(new)
    BY <1>1, <1>3, <1>9, <1>10, <1>11, ChangedOK
  <1>13. /\ CallsOK' /\ calls'[c] = new /\ \A d \in Calls \ {c} : calls'[d] = calls[d]
    BY <1>1, <1>8, <1>10, <1>12, CallWritten
  <1>14. PermitsOK'
    BY <1>1, <1>9, <1>10, <1>13, PermitsUnchanged
  <1>15. FilesOK'
    BY <1>1, FilesSame
  <1>16. OneAtATime'
    BY <1>1, <1>3, <1>11, <1>13, OneAtATimeKept
  <1>17. \A d \in Calls : \/ calls'[d] = calls[d]
                          \/ /\ calls'[d].result \notin {"briefcase", "held"}
                             /\ calls'[d].pc = "check" =>
                                  uploads'[calls'[d].op] = [stage |-> "committed", audio |-> d]
    BY <1>4, <1>7, <1>10, <1>11, <1>13
  <1>18. UploadsOK'
    BY <1>1, <1>2, <1>16, <1>17, UploadsApplied
  <1> QED BY <1>13, <1>14, <1>15, <1>18 DEF PipelineInv

\* An exchange fails, and what was sent may still arrive.
LEMMA UploadFailsInv ==
    ASSUME PipelineInv, NEW c \in Calls, UploadFails(c)
    PROVE  PipelineInv'
  <1> DEFINE new == [calls[c] EXCEPT !.pc = "hold"]
  <1>1. /\ CallsOK /\ PermitsOK /\ FilesOK /\ calls[c].pc \in Exchanges \cup {"check"}
        /\ wire' = wire \cup (IF At(c, "check") THEN {} ELSE {Message(c)})
        /\ Move(c, "hold") /\ wire \subseteq Messages
        /\ UNCHANGED <<free, attempt, files, guards, cleanups, asked, uploads, held, plans>>
    BY DEF UploadFails, PipelineInv, UploadsOK, UploadsTypeOK, attemptVars
  <1>2. /\ calls[c].pc \in Live \ Trying /\ plans[calls[c].op].op = "tts" /\ calls[c].audio
    BY <1>1, StoringCall DEF Storing
  <1>3. wire' \subseteq Messages
    BY <1>1, MessageOK DEF At
  <1>4. /\ "hold" \in Live \ Trying /\ "hold" \in Storing /\ "hold" \notin AtProvider
        /\ calls[c].pc \notin AtProvider
    BY <1>2 DEF Live, Trying, AtProvider, Storing
  <1>5. new.pc = "hold" /\ CallStores(new, plans[calls[c].op])
    BY <1>1, <1>2, <1>4, StoresAt
  <1>6. GoesOn(c, new)
    BY <1>1, <1>2, <1>4, <1>5, MoveGoesOn
  <1> HIDE DEF new
  <1>7. PermitsOK' /\ FilesOK'
    BY <1>1, <1>4, <1>5, <1>6, PermitsSame, FilesSame
  <1> QED BY <1>1, <1>3, <1>6, <1>7, StepInv

\* A call with audio ends with the place of its audio.
LEMMA StoredOK ==
    ASSUME CallsOK, NEW c \in Calls, calls[c].pc \in {"check", "hold"},
           NEW result \in {"briefcase", "held"}, End(c, result), UNCHANGED plans
    PROVE  /\ CallsOK'
           /\ calls'[c].pc = "ended" /\ calls'[c].result = result /\ calls'[c].op = calls[c].op
           /\ \A d \in Calls \ {c} : calls'[d] = calls[d]
           /\ \A d \in Calls : calls'[d].pc \in AtProvider <=> calls[d].pc \in AtProvider
  <1> DEFINE call == calls[c]
             new == [call EXCEPT !.pc = "ended", !.result = result]
             plan == plans[call.op]
  <1>0. calls[c].pc \in Live /\ calls[c].pc \notin AtProvider
    BY DEF Live, AtProvider, AtBriefcase
  <1>1. /\ call \in CallTypes /\ CallOK(call) /\ call.op \in Operations
        /\ call.result = "none" /\ Order(plan) # <<>>
        /\ CallInOrder(call, plan) /\ CallStores(call, plan)
    BY <1>0, LiveCall
  <1>2. calls' = [calls EXCEPT ![c] = new]
    BY DEF End, CallsOK
  <1>3. /\ new \in CallTypes /\ new.pc = "ended" /\ new.op = call.op /\ new.rest = call.rest
        /\ new.tried = call.tried /\ new.audio = call.audio /\ new.result = result
    BY <1>1 DEF CallTypes, Fulfilled
  <1> HIDE DEF new, plan
  <1>4. "ended" \notin Live /\ "ended" \notin AtProvider \cup Exchanges /\ "ended" \notin Storing
    BY DEF Live, AtProvider, AtBriefcase, Exchanges, Storing
  <1>5. CallInOrder(new, plan)
    BY <1>1, <1>3, <1>4 DEF CallInOrder, TriedInOrder
  <1>6. CallStores(new, plan)
    BY <1>1, <1>3, <1>4 DEF CallStores
  <1>7. CallOK(new)
    BY <1>1, <1>3, <1>5, <1>6, CallsAssumption DEF CallOK, plan
  <1>8. /\ CallsOK' /\ calls'[c] = new /\ \A d \in Calls \ {c} : calls'[d] = calls[d]
    BY <1>2, <1>3, <1>7, CallWritten
  <1> QED BY <1>0, <1>3, <1>4, <1>8

\* What was checked is what is answered.
LEMMA StoredInv ==
    ASSUME PipelineInv, NEW c \in Calls, Stored(c)
    PROVE  PipelineInv'
  <1>1. /\ CallsOK /\ PermitsOK /\ FilesOK /\ UploadsOK /\ calls[c].pc = "check" /\ End(c, "briefcase")
        /\ UNCHANGED <<free, attempt, files, guards, cleanups, asked, uploads, wire, held, plans>>
    BY DEF Stored, At, PipelineInv, attemptVars, uploadVars
  <1>2. /\ CallsOK'
        /\ calls'[c].pc = "ended" /\ calls'[c].result = "briefcase" /\ calls'[c].op = calls[c].op
        /\ \A d \in Calls \ {c} : calls'[d] = calls[d]
        /\ \A d \in Calls : calls'[d].pc \in AtProvider <=> calls[d].pc \in AtProvider
    BY <1>1, StoredOK
  <1>3. PermitsOK' /\ FilesOK'
    BY <1>1, <1>2, PermitsUnchanged, FilesSame
  <1>4. calls[c].pc \in Live
    BY <1>1 DEF Live, AtBriefcase
  <1>5. OneAtATime'
    BY <1>1, <1>2, <1>4, OneAtATimeKept
  <1>6. UploadsTypeOK' /\ UploadsNamed'
    BY <1>1 DEF UploadsOK, UploadsTypeOK, UploadsNamed
  <1>7. CheckedIsCommitted'
    BY <1>1, <1>2 DEF UploadsOK, CheckedIsCommitted
  <1>8. AnswerIsStored'
    <2>1. uploads[calls[c].op] = [stage |-> "committed", audio |-> c]
      BY <1>1 DEF UploadsOK, CheckedIsCommitted
    <2> SUFFICES ASSUME NEW d \in Calls
                 PROVE  /\ calls'[d].result = "briefcase" =>
                             uploads'[calls'[d].op] = [stage |-> "committed", audio |-> d]
                        /\ calls'[d].result = "held" => held'[calls'[d].op] = d
      BY DEF AnswerIsStored
    <2>2. CASE d = c
      BY <1>1, <1>2, <2>1, <2>2
    <2>3. CASE d # c
      BY <1>1, <1>2, <2>3 DEF UploadsOK, AnswerIsStored
    <2> QED BY <2>2, <2>3
  <1> QED BY <1>2, <1>3, <1>5, <1>6, <1>7, <1>8 DEF PipelineInv, UploadsOK

\* No completed call has its answer in the place the held audio goes to.
LEMMA HeldInv ==
    ASSUME PipelineInv, NEW c \in Calls, Held(c)
    PROVE  PipelineInv'
  <1>1. /\ CallsOK /\ PermitsOK /\ FilesOK /\ UploadsOK /\ calls[c].pc = "hold" /\ End(c, "held")
        /\ held' = [held EXCEPT ![calls[c].op] = c]
        /\ UNCHANGED <<free, attempt, files, guards, cleanups, asked, uploads, wire, plans>>
    BY DEF Held, At, PipelineInv, attemptVars
  <1>2. /\ CallsOK'
        /\ calls'[c].pc = "ended" /\ calls'[c].result = "held" /\ calls'[c].op = calls[c].op
        /\ \A d \in Calls \ {c} : calls'[d] = calls[d]
        /\ \A d \in Calls : calls'[d].pc \in AtProvider <=> calls[d].pc \in AtProvider
    BY <1>1, StoredOK
  <1>3. PermitsOK' /\ FilesOK'
    BY <1>1, <1>2, PermitsUnchanged, FilesSame
  <1>4. calls[c].pc \in Live
    BY <1>1 DEF Live
  <1>5. OneAtATime'
    BY <1>1, <1>2, <1>4, OneAtATimeKept
  <1>6. calls[c].op \in Operations /\ held \in [Operations -> Calls \cup {None}]
    BY <1>1, <1>4, LiveCall DEF UploadsOK, UploadsTypeOK
  <1>7. UploadsTypeOK' /\ UploadsNamed'
    BY <1>1, <1>6 DEF UploadsOK, UploadsTypeOK, UploadsNamed
  <1>8. CheckedIsCommitted'
    BY <1>1, <1>2 DEF UploadsOK, CheckedIsCommitted
  <1>9. ASSUME NEW d \in Calls \ {c}, calls[d].result = "held"
        PROVE  calls[d].op # calls[c].op /\ held'[calls[d].op] = d
    <2>1. /\ calls[d] \in CallTypes /\ CallOK(calls[d]) /\ held[calls[d].op] = d
      BY <1>1, <1>9 DEF CallsOK, UploadsOK, AnswerIsStored
    <2>2. calls[d].pc = "ended" /\ calls[d].op # None
      BY <1>9, <2>1 DEF CallOK
    <2>3. Owns(calls[d])
      BY <1>9, <2>2 DEF Owns, Fulfilled
    <2>4. calls[d].op # calls[c].op
      BY <1>1, <1>4, <2>3, LiveOwns
    <2>5. calls[d].op \in Operations
      BY <2>1, <2>2, CallFields
    <2> QED BY <1>1, <1>6, <2>1, <2>4, <2>5
  <1>10. AnswerIsStored'
    <2> SUFFICES ASSUME NEW d \in Calls
                 PROVE  /\ calls'[d].result = "briefcase" =>
                             uploads'[calls'[d].op] = [stage |-> "committed", audio |-> d]
                        /\ calls'[d].result = "held" => held'[calls'[d].op] = d
      BY DEF AnswerIsStored
    <2>1. CASE d = c
      BY <1>1, <1>2, <1>6, <2>1
    <2>2. CASE d # c
      BY <1>1, <1>2, <1>9, <2>2 DEF UploadsOK, AnswerIsStored
    <2> QED BY <2>1, <2>2
  <1> QED BY <1>2, <1>3, <1>5, <1>7, <1>8, <1>10 DEF PipelineInv, UploadsOK

\* What earlier calls left on the way arrives.
LEMMA LateExchangeInv ==
    ASSUME PipelineInv, NEW m \in wire, LateExchange(m)
    PROVE  PipelineInv'
  <1>1. /\ CallsOK /\ PermitsOK /\ FilesOK /\ UploadsOK /\ Apply(m) /\ wire' \subseteq wire
        /\ UNCHANGED <<free, attempt, files, guards, cleanups, asked, held, plans, calls>>
    BY DEF LateExchange, ArriveLate, PipelineInv, attemptVars
  <1>2. m \in Messages
    BY <1>1 DEF UploadsOK, UploadsTypeOK
  <1>3. CallsOK'
    BY <1>1 DEF CallsOK, CallOK
  <1>4. PermitsOK'
    BY <1>1 DEF PermitsOK, PermitsAccounted, TokensSpent
  <1>5. FilesOK'
    BY <1>1, FilesSame
  <1>6. OneAtATime'
    BY <1>1 DEF UploadsOK, OneAtATime, Owns
  <1>7. UploadsOK'
    BY <1>1, <1>2, <1>6, UploadsApplied
  <1> QED BY <1>3, <1>4, <1>5, <1>7 DEF PipelineInv

\* A call is dropped, at any await.
LEMMA DropInv ==
    ASSUME PipelineInv, NEW c \in Calls, Drop(c)
    PROVE  PipelineInv'
  <1> DEFINE new == [calls[c] EXCEPT !.pc = "ended", !.result = "dropped"]
  <1>1. /\ CallsOK /\ PermitsOK /\ FilesOK /\ calls[c].pc \in Live
        /\ Release(c) /\ DropGuard(c) /\ End(c, "dropped")
        /\ wire' = wire \cup (IF calls[c].pc \in Exchanges THEN {Message(c)} ELSE {})
        /\ UNCHANGED <<uploads, held, plans>> /\ wire \subseteq Messages
    BY DEF Drop, PipelineInv, UploadsOK, UploadsTypeOK
  <1>2. \E f \in {"none", "lost", "gone", files[c]} : files' = [files EXCEPT ![c] = f]
    <2>1. CASE At(c, "upload")
      BY <2>1 DEF Drop
    <2>2. CASE ~At(c, "upload") /\ At(c, "delete")
      BY <2>2 DEF Drop, DeleteApplied
    <2>3. CASE ~At(c, "upload") /\ ~At(c, "delete")
      <3>1. files' = files
        BY <2>3 DEF Drop
      <3> QED BY <1>1, <3>1 DEF FilesOK
    <2> QED BY <2>1, <2>2, <2>3
  <1>3. FilesOK'
    BY <1>1, <1>2, FilesDropped
  <1>4. wire' \subseteq Messages
    BY <1>1, MessageOK
  <1>5. "dropped" \in Fulfilled \cup Failures
    BY DEF Failures
  <1>6. GoesOn(c, new) /\ new.pc = "ended"
    BY <1>1, <1>5, EndGoesOn
  <1>7. new.pc \notin AtProvider
    BY <1>6 DEF AtProvider
  <1> HIDE DEF new
  <1>8. PermitsOK'
    BY <1>1, <1>6, <1>7, PermitsReleased
  <1> QED BY <1>1, <1>3, <1>4, <1>6, <1>8, StepInv

\* The fields of a call that has not begun.
LEMMA WaitingFields ==
    /\ Waiting \in CallTypes
    /\ Waiting.pc = "idle" /\ Waiting.op = None /\ Waiting.rest = <<>> /\ Waiting.tried = <<>>
    /\ ~Waiting.audio /\ Waiting.result = "none"
  <1>1. <<>> \in Seq(Providers)
    OBVIOUS
  <1>2. Waiting \in CallTypes
    BY <1>1 DEF Waiting, CallTypes
  <1> QED BY <1>2 DEF Waiting

\* A call begins with the whole order before it, or is refused.
LEMMA BegunOK ==
    ASSUME CallsOK, NEW c \in Calls, NEW o \in Operations, Begin(c, o)
    PROVE  \E new \in CallTypes :
             /\ CallOK(new)
             /\ calls' = [calls EXCEPT ![c] = new]
             /\ new.op = o
             /\ new.pc \in {"choose", "proof", "ended"}
             /\ new.result \notin {"briefcase", "held"}
  <1> DEFINE plan == plans[o]
             pc == IF plan.op = "tts" THEN "choose" ELSE "proof"
             refused == [Waiting EXCEPT !.pc = "ended", !.op = o, !.result = "InvalidRequest"]
             begun == [Waiting EXCEPT !.pc = pc, !.op = o, !.rest = Asking(plan)]
  <1>1. /\ plan \in Plans /\ plan.op \in {"tts", "stt"} /\ o # None
    BY PlanFields, CallsAssumption DEF CallsOK
  <1>2. CASE Order(plan) = <<>>
    <2>1. calls' = [calls EXCEPT ![c] = refused]
      BY <1>2 DEF Begin
    <2>2. /\ refused \in CallTypes /\ refused.pc = "ended" /\ refused.op = o
          /\ refused.tried = <<>> /\ ~refused.audio /\ refused.result = "InvalidRequest"
      BY WaitingFields DEF CallTypes, Failures
    <2> HIDE DEF plan, refused
    <2>3. CallInOrder(refused, plan)
      BY <1>2, <2>2 DEF CallInOrder
    <2>4. CallStores(refused, plan)
      BY <2>2 DEF CallStores, AtProvider, Exchanges, Storing
    <2>5. CallOK(refused)
      BY <1>1, <2>2, <2>3, <2>4 DEF CallOK, plan
    <2> QED BY <2>1, <2>2, <2>5
  <1>3. CASE Order(plan) # <<>>
    <2>1. calls' = [calls EXCEPT ![c] = begun]
      BY <1>3 DEF Begin
    <2>2. /\ Asking(plan) \in Seq(Providers) /\ Len(Asking(plan)) \in Nat /\ Len(Asking(plan)) >= 1
      BY <1>1, <1>3, AskingEffect
    <2>3. pc \in {"choose", "proof"} /\ pc \in Live
      BY DEF Live
    <2>4. plan.op = "tts" => pc = "choose"
      OBVIOUS
    <2> HIDE DEF plan, pc
    <2>5. /\ begun \in CallTypes /\ begun.pc = pc /\ begun.op = o /\ begun.rest = Asking(plan)
          /\ begun.tried = <<>> /\ ~begun.audio /\ begun.result = "none"
      BY <2>2, <2>3, WaitingFields DEF CallTypes
    <2> HIDE DEF begun
    <2>6. Len(begun.tried) = 0 /\ pc \notin Trying /\ pc \notin AtProvider \cup Exchanges
      BY <2>3, <2>5 DEF Trying, AtProvider, Exchanges
    <2>7. RestFollows(begun, plan, 0)
      BY <2>2, <2>5 DEF RestFollows
    <2>8. CallInOrder(begun, plan)
      BY <1>3, <2>2, <2>5, <2>6, <2>7 DEF CallInOrder, TriedInOrder, Done
    <2>9. CallStores(begun, plan)
      BY <2>3, <2>4, <2>5, <2>6 DEF CallStores, Storing, Exchanges
    <2>10. CallOK(begun)
      BY <1>1, <2>3, <2>5, <2>8, <2>9 DEF CallOK, plan
    <2> QED BY <2>1, <2>3, <2>5, <2>10
  <1> QED BY <1>2, <1>3

\* A call takes its operation only when no other has it.
LEMMA BeginInv ==
    ASSUME PipelineInv, NEW c \in Calls, NEW o \in Operations, Begin(c, o)
    PROVE  PipelineInv'
  <1>1. /\ CallsOK /\ PermitsOK /\ FilesOK /\ UploadsOK /\ calls[c].pc = "idle"
        /\ \A d \in Calls : calls[d].op = o => calls[d].pc = "ended" /\ calls[d].result \notin Fulfilled
        /\ UNCHANGED <<free, attempt, files, guards, cleanups, asked, uploads, wire, held, plans>>
    BY DEF Begin, At, PipelineInv, attemptVars, uploadVars
  <1>2. PICK new \in CallTypes :
             /\ CallOK(new)
             /\ calls' = [calls EXCEPT ![c] = new]
             /\ new.op = o
             /\ new.pc \in {"choose", "proof", "ended"}
             /\ new.result \notin {"briefcase", "held"}
    BY <1>1, BegunOK
  <1>3. /\ CallsOK' /\ calls'[c] = new /\ \A d \in Calls \ {c} : calls'[d] = calls[d]
    BY <1>1, <1>2, CallWritten
  <1>4. \A d \in Calls : calls'[d].pc \in AtProvider <=> calls[d].pc \in AtProvider
    BY <1>1, <1>2, <1>3 DEF AtProvider
  <1>5. PermitsOK' /\ FilesOK'
    BY <1>1, <1>4, PermitsUnchanged, FilesSame
  <1>6. UploadsTypeOK' /\ UploadsNamed'
    BY <1>1 DEF UploadsOK, UploadsTypeOK, UploadsNamed
  <1>7. CheckedIsCommitted'
    BY <1>1, <1>2, <1>3 DEF UploadsOK, CheckedIsCommitted
  <1>8. AnswerIsStored'
    BY <1>1, <1>2, <1>3 DEF UploadsOK, AnswerIsStored
  <1>9. ASSUME NEW d \in Calls, calls[d].op = o PROVE ~Owns(calls[d])
    BY <1>1, <1>9 DEF Owns
  <1>10. ASSUME NEW d \in Calls, NEW e \in Calls,
                Owns(calls'[d]), Owns(calls'[e]), calls'[d].op = calls'[e].op
         PROVE  d = e
    <2>1. CASE d = c /\ e # c
      BY <1>2, <1>3, <1>9, <1>10, <2>1
    <2>2. CASE d # c /\ e = c
      BY <1>2, <1>3, <1>9, <1>10, <2>2
    <2>3. CASE d # c /\ e # c
      BY <1>1, <1>3, <1>10, <2>3 DEF UploadsOK, OneAtATime
    <2> QED BY <2>1, <2>2, <2>3
  <1>11. \A d, e \in Calls : Owns(calls[d])' /\ Owns(calls[e])' /\ calls'[d].op = calls'[e].op => d = e
    BY <1>10 DEF Owns
  <1>12. OneAtATime'
    BY <1>11 DEF OneAtATime
  <1> QED BY <1>3, <1>5, <1>6, <1>7, <1>8, <1>12 DEF PipelineInv, UploadsOK

\* Before the first call.
LEMMA PipelineInitInv ==
    ASSUME PipelineInit
    PROVE  PipelineInv
  <1>1. /\ calls = [c \in Calls |-> Waiting] /\ plans \in [Operations -> Plans]
        /\ free = [p \in Providers |-> Permits] /\ attempt = [c \in Calls |-> NoAttempt]
        /\ files = [c \in Calls |-> "none"] /\ guards = {} /\ cleanups = {} /\ asked = {}
        /\ uploads = [o \in Operations |-> NoUpload] /\ wire = {}
        /\ held = [o \in Operations |-> None]
    BY DEF PipelineInit, AttemptsInit, UploadsInit
  <1>2. CallsOK
    <2>1. CallOK(Waiting)
      BY WaitingFields DEF CallOK
    <2> QED BY <1>1, <2>1, WaitingFields DEF CallsOK
  <1>3. PermitsOK
    <2>1. Permits \in Nat /\ Permits \in 0 .. Permits
      BY ProvidersAssumption
    <2>2. ASSUME NEW p \in Providers
          PROVE  Cardinality({c \in Calls : attempt[c].at = p}) = 0
      <3>1. {c \in Calls : attempt[c].at = p} = {}
        BY <1>1, NoAttemptFields, ProvidersAssumption
      <3> QED BY <3>1, FS_EmptySet
    <2>3. free \in [Providers -> 0 .. Permits] /\ attempt \in [Calls -> AttemptTypes]
      BY <1>1, <2>1, NoAttemptFields
    <2>4. \A c \in Calls : attempt[c].at = None /\ calls[c].pc = "idle"
      BY <1>1, NoAttemptFields, WaitingFields
    <2>5. PermitsAccounted
      BY <1>1, <2>1, <2>2, <2>4 DEF PermitsAccounted, AtProvider
    <2>6. TokensSpent
      <3>1. Range(<<>>) \subseteq Resendable /\ Len(<<>>) <= 1
        BY DEF Range
      <3> QED BY <1>1, <3>1, NoAttemptFields DEF TokensSpent
    <2> QED BY <2>3, <2>5, <2>6 DEF PermitsOK
  <1>4. FilesOK
    BY <1>1 DEF FilesOK, UploadsReclaimed, FileStates
  <1>5. UploadsOK
    <2>1. UploadsTypeOK /\ UploadsNamed
      BY <1>1 DEF UploadsTypeOK, UploadsNamed, NoUpload, Stages
    <2>2. \A c \in Calls : calls[c].pc = "idle" /\ calls[c].result = "none" /\ calls[c].op = None
      BY <1>1, WaitingFields
    <2> QED BY <2>1, <2>2 DEF UploadsOK, OneAtATime, Owns, CheckedIsCommitted, AnswerIsStored
  <1> QED BY <1>2, <1>3, <1>4, <1>5 DEF PipelineInv

\* Every step keeps the invariant.
LEMMA PipelineNextInv ==
    ASSUME PipelineInv, [PipelineNext]_pipelineVars
    PROVE  PipelineInv'
  <1>1. CASE UNCHANGED pipelineVars
    <2>1. UNCHANGED <<free, attempt, files, guards, cleanups, asked, uploads, wire, held, plans, calls>>
      BY <1>1 DEF pipelineVars, attemptVars, uploadVars
    <2>2. CallsOK'
      BY <2>1 DEF PipelineInv, CallsOK, CallOK
    <2>3. PermitsOK' /\ FilesOK'
      BY <2>1 DEF PipelineInv, PermitsOK, PermitsAccounted, TokensSpent, FilesOK, UploadsReclaimed
    <2>4. UploadsOK'
      BY <2>1 DEF PipelineInv, UploadsOK, UploadsTypeOK, OneAtATime, Owns, UploadsNamed,
                  CheckedIsCommitted, AnswerIsStored
    <2> QED BY <2>2, <2>3, <2>4 DEF PipelineInv
  <1>2. ASSUME NEW c \in Calls, CallStep(c) PROVE PipelineInv'
    <2>1. CASE \/ Choose(c) \/ ChooseFails(c) \/ AttemptFails(c) \/ SendAgain(c)
               \/ Synthesized(c) \/ Transcribed(c) \/ Normalized(c)
               \/ \E error \in {"InvalidAudio", "Failed", "Unavailable"} : NormalizeFails(c, error)
      BY <2>1, ChooseInv, ChooseFailsInv, AttemptFailsInv, SendAgainInv, SynthesizedInv,
         TranscribedInv, NormalizedInv, NormalizeFailsInv
    <2>2. CASE \/ GeminiUploads(c) \/ GeminiUploadFails(c)
               \/ \E state \in {"PROCESSING", "ACTIVE"} : GeminiPolls(c, state)
               \/ GeminiHears(c) \/ GeminiFails(c)
               \/ CleanInTime(c) \/ CleanTooLate(c) \/ Deleted(c) \/ DeleteTimesOut(c)
      BY <2>2, GeminiUploadsInv, GeminiUploadFailsInv, GeminiPollsInv, GeminiHearsInv,
         GeminiFailsInv, CleanInTimeInv, CleanTooLateInv, DeletedInv
    <2>3. CASE ProofFails(c)
      BY <2>3, StorageFailsInv DEF ProofFails
    <2>4. CASE \/ ProofHandedOut(c) \/ Unauthorized(c)
               \/ SourceRead(c) \/ ReadFails(c) \/ SourceMeasured(c)
               \/ \E error \in {"UnsupportedMedia", "Normalizer"} : SourceNotMeasured(c, error)
      BY <2>4, ProofHandedOutInv, UnauthorizedInv, SourceInv, SourceFailsInv
    <2>5. CASE Exchanged(c) \/ UploadFails(c) \/ Stored(c) \/ Held(c) \/ HoldFails(c)
      BY <2>5, ExchangedInv, UploadFailsInv, StoredInv, HeldInv, HoldFailsInv
    <2> QED BY <1>2, <2>1, <2>2, <2>3, <2>4, <2>5 DEF CallStep
  <1>3. ASSUME NEW c \in Calls, Drop(c) \/ DetachedCleanup(c) PROVE PipelineInv'
    BY <1>3, DropInv, DetachedCleanupInv
  <1>4. ASSUME NEW c \in Calls, NEW o \in Operations, Begin(c, o) PROVE PipelineInv'
    BY <1>4, BeginInv
  <1>5. ASSUME NEW m \in wire, LateExchange(m) PROVE PipelineInv'
    BY <1>5, LateExchangeInv
  <1> QED BY <1>1, <1>2, <1>3, <1>4, <1>5 DEF PipelineNext
-----------------------------------------------------------------------------
(***************************************************************************)
(* The theorems                                                            *)
(***************************************************************************)

\* The invariant holds of every call the service makes, for any number of
\* calls and operations, any providers and any chain.
THEOREM PipelineInvariant == PipelineSpec => []PipelineInv
  <1>1. PipelineInit => PipelineInv
    BY PipelineInitInv
  <1>2. PipelineInv /\ [PipelineNext]_pipelineVars => PipelineInv'
    BY PipelineNextInv
  <1> QED BY <1>1, <1>2, PTL DEF PipelineSpec

\* Attempts, uploads and calls keep their shape.
THEOREM PipelineTypes == PipelineSpec => []PipelineTypeOK
  <1>1. PipelineInv => PipelineTypeOK
    BY DEF PipelineInv, CallsOK, PermitsOK, FilesOK, UploadsOK, PipelineTypeOK, AttemptsTypeOK
  <1> QED BY <1>1, PipelineInvariant, PTL

\* Every permit of an adapter is free or with one call that is in an exchange
\* with it: no error, deadline or dropped call leaks one.
THEOREM NoPermitLeaks == PipelineSpec => []PermitsAccounted
  <1>1. PipelineInv => PermitsAccounted
    BY DEF PipelineInv, PermitsOK
  <1> QED BY <1>1, PipelineInvariant, PTL

\* A file whose name Waveform has learned is deleted, guarded, or its
\* deletion is under way or sent.
THEOREM NoFileIsForgotten == PipelineSpec => []UploadsReclaimed
  <1>1. PipelineInv => UploadsReclaimed
    BY DEF PipelineInv, FilesOK
  <1> QED BY <1>1, PipelineInvariant, PTL

\* An attempt sends at most one exchange again, and only one that may be.
THEOREM OneSafeResend == PipelineSpec => []ResendsAreSafe
  <1>1. PipelineInv => ResendsAreSafe
    BY DEF PipelineInv, PermitsOK, TokensSpent, ResendsAreSafe
  <1> QED BY <1>1, PipelineInvariant, PTL

\* An answer that names stored audio names the audio of this very call.
THEOREM AnswersNameTheirAudio == PipelineSpec => []AnswerIsStored
  <1>1. PipelineInv => AnswerIsStored
    BY DEF PipelineInv, UploadsOK
  <1> QED BY <1>1, PipelineInvariant, PTL

\* Once the audio exists, no failure of Briefcase or of a proof fails the call.
THEOREM StorageNeverFailsSpeech == PipelineSpec => []BriefcaseNeverFails
  <1>1. ASSUME PipelineInv, NEW c \in Calls, calls[c].audio, calls[c].pc = "ended"
        PROVE  calls[c].result \in {"briefcase", "held", "AudioStore", "dropped"}
    <2>1. CallOK(calls[c])
      BY <1>1 DEF PipelineInv, CallsOK
    <2> QED BY <1>1, <2>1 DEF CallOK, CallStores
  <1>2. PipelineInv => BriefcaseNeverFails
    BY <1>1 DEF BriefcaseNeverFails
  <1> QED BY <1>2, PipelineInvariant, PTL

\* Providers are exhausted only after all of the chain have been asked, each
\* once and in the order of the request.
THEOREM AllProvidersAreAsked == PipelineSpec => []FallbackIsComplete
  <1>1. ASSUME PipelineInv, NEW c \in Calls
        PROVE  /\ calls[c].result = "ProvidersExhausted" =>
                    /\ Range(calls[c].tried) = Range(Chain)
                    /\ Plan(c).requested # None =>
                         SubSeq(calls[c].tried, 1, Len(Plan(c).requested)) = Plan(c).requested
               /\ calls[c].tried # <<>> => IsInjective(calls[c].tried)
               /\ calls[c].tried # <<>> /\ Plan(c).op = "tts" /\ ~Plan(c).fallback
                    => Len(calls[c].tried) = 1
    <2> DEFINE call == calls[c]
               plan == plans[call.op]
               tried == call.tried
               ask == Asking(plan)
    <2>1. /\ call \in CallTypes /\ CallOK(call) /\ Plan(c) = plan
          /\ tried \in Seq(Providers) /\ Len(tried) \in Nat
      BY <1>1, CallFields DEF PipelineInv, CallsOK, Plan
    <2>2. CASE call.op = None
      <3>1. tried = <<>> /\ call.result = "none"
        BY <2>1, <2>2 DEF CallOK
      <3> QED BY <3>1
    <2>3. CASE call.op # None /\ Order(plan) = <<>>
      <3>1. tried = <<>> /\ call.result = "InvalidRequest"
        BY <2>1, <2>3 DEF CallOK, CallInOrder
      <3> QED BY <3>1
    <2>4. CASE call.op # None /\ Order(plan) # <<>>
      <3>1. plan \in Plans
        BY <1>1, <2>1, <2>4, CallFields DEF PipelineInv, CallsOK
      <3>2. /\ Len(tried) <= Len(ask) /\ \A i \in 1 .. Len(tried) : tried[i] = ask[i]
            /\ call.result = "ProvidersExhausted" =>
                 Len(tried) = Len(ask) /\ ~(plan.op = "tts" /\ ~plan.fallback)
        BY <2>1, <2>4 DEF CallOK, CallInOrder, TriedInOrder
      <3>3. /\ ask \in Seq(Providers) /\ Len(ask) \in Nat /\ IsInjective(ask)
            /\ plan.op = "tts" /\ ~plan.fallback => Len(ask) = 1
            /\ ~(plan.op = "tts" /\ ~plan.fallback) => ask = Order(plan)
        BY <2>4, <3>1, AskingEffect
      <3> HIDE DEF plan, tried, ask
      <3>4. IsInjective(tried)
        <4>1. DOMAIN tried = 1 .. Len(tried) /\ DOMAIN ask = 1 .. Len(ask)
          BY <2>1, <3>3
        <4>2. \A i \in 1 .. Len(tried) : i \in 1 .. Len(ask)
          BY <2>1, <3>2, <3>3
        <4>3. ASSUME NEW i \in 1 .. Len(tried), NEW j \in 1 .. Len(tried), tried[i] = tried[j]
              PROVE  i = j
          <5>1. i \in DOMAIN ask /\ j \in DOMAIN ask
            BY <4>1, <4>2
          <5>2. ask[i] = ask[j]
            BY <3>2, <4>3
          <5> QED BY <3>3, <5>1, <5>2 DEF IsInjective
        <4> QED BY <4>1, <4>3 DEF IsInjective
      <3>5. tried # <<>> /\ plan.op = "tts" /\ ~plan.fallback => Len(tried) = 1
        <4>1. tried # <<>> => Len(tried) # 0
          BY <2>1
        <4> QED BY <2>1, <3>2, <3>3, <4>1
      <3>6. ASSUME call.result = "ProvidersExhausted" PROVE tried = Order(plan)
        <4>1. Len(tried) = Len(ask) /\ ask = Order(plan)
          BY <3>2, <3>3, <3>6
        <4>2. DOMAIN tried = DOMAIN ask /\ \A i \in DOMAIN tried : tried[i] = ask[i]
          BY <2>1, <3>2, <3>3, <4>1
        <4>3. tried = ask
          BY <2>1, <3>3, <4>1, <4>2
        <4> QED BY <4>1, <4>3
      <3>7. Range(Order(plan)) = Range(Chain) /\ Order(plan) \in Seq(Providers)
        BY <2>4, <3>1, OrderEffect
      <3>8. ASSUME plan.requested # None
            PROVE  SubSeq(Order(plan), 1, Len(plan.requested)) = plan.requested
        <4> DEFINE req == plan.requested
                   full == Order(plan)
        <4>1. /\ req \in Seq(Providers) /\ Len(req) \in Nat /\ Len(req) <= Len(full)
              /\ full \in Seq(Providers) /\ Len(full) \in Nat
              /\ \A i \in 1 .. Len(req) : full[i] = req[i]
          BY <2>4, <3>1, <3>7, <3>8, OrderEffect
        <4> HIDE DEF req, full
        <4>2. /\ SubSeq(full, 1, Len(req)) \in Seq(Providers)
              /\ Len(SubSeq(full, 1, Len(req))) = Len(req)
              /\ \A i \in 1 .. Len(req) : SubSeq(full, 1, Len(req))[i] = full[i]
          BY <4>1
        <4>3. SubSeq(full, 1, Len(req)) = req
          BY <4>1, <4>2
        <4> QED BY <4>3 DEF req, full
      <3> QED BY <2>1, <3>4, <3>5, <3>6, <3>7, <3>8 DEF tried
    <2> QED BY <2>2, <2>3, <2>4
  <1>2. PipelineInv => FallbackIsComplete
    BY <1>1 DEF FallbackIsComplete
  <1> QED BY <1>2, PipelineInvariant, PTL
=============================================================================
