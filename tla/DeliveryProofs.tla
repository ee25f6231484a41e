--------------------------- MODULE DeliveryProofs ---------------------------
(***************************************************************************)
(* Delivery, for every deposit, every gas price and every route on which    *)
(* the tables agree.                                                       *)
(***************************************************************************)
EXTENDS DeliveryProperties, TLAPS, WellFoundedInduction, SequenceTheorems, FiniteSetTheorems

USE CallsAssumption, FeesAssumption, DeliveryAssumption

-----------------------------------------------------------------------------
(***************************************************************************)
(* Induction and recursion, stated for sets and functions in place of      *)
(* predicates and operators.                                               *)
(***************************************************************************)

LEMMA LeastElement ==
    ASSUME NEW S \in SUBSET Nat, S # {}
    PROVE  \E m \in S : \A n \in S : m <= n
<1>1. PICK m \in S : \A n \in S : <<n, m>> \notin OpToRel(<, Nat)
  <2> DEFINE R == OpToRel(<, Nat)
  <2>1. IsWellFoundedOn(R, Nat)
    BY NatLessThanWellFounded
  <2> HIDE DEF R
  <2>2. \E x \in S : \A y \in S : ~ (<<y, x>> \in R)
    BY <2>1, WFMin
  <2> USE DEF R
  <2>3. QED
    BY <2>2
<1>2. \A n \in S : ~(n < m)
  BY <1>1 DEF OpToRel
<1>3. QED
  BY <1>2

LEMMA Induction ==
    ASSUME NEW S \in SUBSET Nat, 0 \in S, \A n \in S : n + 1 \in S
    PROVE  S = Nat
<1> SUFFICES ASSUME S # Nat PROVE FALSE
  OBVIOUS
<1>1. PICK m \in Nat \ S : \A n \in Nat \ S : m <= n
  BY LeastElement
<1>2. m - 1 \in Nat /\ m - 1 \in S
  BY <1>1
<1>3. QED
  BY <1>1, <1>2

\* A function on 0..n may be defined from its first value and a step.
StepFunction(step, n, V) == step \in [1..n -> [V -> V]]
Recurses(f, n, V, first, step) ==
    f \in [0..n -> V] /\ f[0] = first /\ \A k \in 1..n : f[k] = step[k][f[k - 1]]

LEMMA Recursion ==
    ASSUME NEW n \in Nat, NEW V, NEW first \in V, NEW step, StepFunction(step, n, V)
    PROVE  \E f : Recurses(f, n, V, first, step)
<1> DEFINE S == {m \in Nat : m <= n => \E f : Recurses(f, m, V, first, step)}
<1>1. 0 \in S
  <2>1. Recurses([k \in 0..0 |-> first], 0, V, first, step)
    BY DEF Recurses
  <2>2. QED
    BY <2>1
<1>2. ASSUME NEW m \in Nat, NEW f, Recurses(f, m, V, first, step), m + 1 <= n
      PROVE  \E g : Recurses(g, m + 1, V, first, step)
  <2> DEFINE g == [k \in 0..(m + 1) |-> IF k = m + 1 THEN step[m + 1][f[m]] ELSE f[k]]
  <2>1. f \in [0..m -> V] /\ f[0] = first /\ \A k \in 1..m : f[k] = step[k][f[k - 1]]
    BY <1>2 DEF Recurses
  <2>2. step[m + 1][f[m]] \in V
    BY <1>2, <2>1 DEF StepFunction
  <2>3. g \in [0..(m + 1) -> V]
    BY <2>1, <2>2
  <2>4. \A k \in 0..m : g[k] = f[k]
    OBVIOUS
  <2>5. g[m + 1] = step[m + 1][f[m]]
    OBVIOUS
  <2> HIDE DEF g
  <2>6. \A k \in 1..(m + 1) : g[k] = step[k][g[k - 1]]
    BY <2>1, <2>4, <2>5
  <2>7. QED
    BY <2>1, <2>3, <2>4, <2>6 DEF Recurses
<1>3. \A m \in S : m + 1 \in S
  BY <1>2
<1>4. S = Nat
  <2> HIDE DEF S
  <2>1. S \in SUBSET Nat
    BY DEF S
  <2>2. QED
    BY <1>1, <1>3, <2>1, Induction
<1>5. n \in S
  BY <1>4
<1>6. QED
  BY <1>5

\* What holds of 0 and is passed on to the next number up to n holds of all of them.
LEMMA InductionUpto ==
    ASSUME NEW n \in Nat, NEW S, 0 \in S, \A k \in 1..n : k - 1 \in S => k \in S
    PROVE  0..n \subseteq S
<1> DEFINE T == {m \in Nat : m <= n => m \in S}
<1>1. T \in SUBSET Nat /\ 0 \in T
  OBVIOUS
<1>2. ASSUME NEW m \in T PROVE m + 1 \in T
  <2>1. CASE m + 1 <= n
    <3>1. m + 1 \in 1..n /\ (m + 1) - 1 = m /\ m \in S
      BY <2>1
    <3>2. QED
      BY <3>1
  <2>2. CASE ~(m + 1 <= n)
    BY <2>2
  <2>3. QED
    BY <2>1, <2>2
<1>3. T = Nat
  <2> HIDE DEF T
  <2>1. QED
    BY <1>1, <1>2, Induction
<1>4. QED
  BY <1>3

-----------------------------------------------------------------------------
(***************************************************************************)
(* What a batch of calls yields.                                           *)
(***************************************************************************)
LEMMA YieldsType ==
    ASSUME NEW c, NEW call, NEW amount \in Nat
    PROVE  Yields(c, call, amount) \in Nat /\ (Yields(c, call, amount) > 0 <=> amount > 0)
<1>1. amount - amount \div 100 \in Nat /\ (amount - amount \div 100 > 0 <=> amount > 0)
  OBVIOUS
<1>2. QED
  BY <1>1 DEF Yields, SwapFee

\* Each call takes what the one before has yielded.
IsBatch(b) == Len(b) \in Nat \ {0} /\ \A k \in 1..Len(b) : b[k].input_call = InputCall(k)

\* The result of the k-th call, from that of the one before.
Yielded(c, b, amount, k, before) ==
    Yields(c, b[k].params,
           IF k = 1 THEN amount ELSE IF FeedsInto(c, b, k - 1, k) THEN before ELSE 0)

LEMMA ResultsEquation ==
    ASSUME NEW c, NEW b, IsBatch(b), NEW amount \in Nat
    PROVE  Results(c, b, amount)
             = [k \in 1..Len(b) |-> Yielded(c, b, amount, k, Results(c, b, amount)[k - 1])]
<1> DEFINE Equation(f) ==
             f = [k \in 1..Len(b) |->
                    LET j == b[k].input_call + 1
                    IN  Yields(c, b[k].params,
                               IF k = 1 THEN amount
                               ELSE IF FeedsInto(c, b, j, k) THEN f[j] ELSE 0)]
           step == [k \in 1..Len(b) |-> [v \in Nat |-> Yielded(c, b, amount, k, v)]]
<1>1. \A k \in 1..Len(b) : k = 1 \/ b[k].input_call + 1 = k - 1
  BY DEF IsBatch, InputCall
<1>2. Len(b) \in Nat
  BY DEF IsBatch
<1>3. \E f : Equation(f)
  <2>1. \A k \in 1..Len(b), v \in Nat : Yielded(c, b, amount, k, v) \in Nat
    BY YieldsType DEF Yielded
  <2>2. StepFunction(step, Len(b), Nat)
    BY <2>1 DEF StepFunction
  <2> HIDE DEF step
  <2>3. PICK g : Recurses(g, Len(b), Nat, amount, step)
    BY <1>2, <2>2, Recursion
  <2>4. \A k \in 1..Len(b) : g[k] = Yielded(c, b, amount, k, g[k - 1])
    <3>1. \A k \in 1..Len(b) : g[k - 1] \in Nat /\ g[k] = step[k][g[k - 1]]
      BY <1>2, <2>3 DEF Recurses
    <3>2. QED
      BY <3>1 DEF step
  <2> DEFINE f == [k \in 1..Len(b) |-> g[k]]
  <2>5. \A k \in 1..Len(b) : k # 1 => g[k - 1] = f[k - 1]
    BY <1>2
  <2>6. \A k \in 1..Len(b) : g[k] = Yielded(c, b, amount, k, f[k - 1])
    BY <2>4, <2>5 DEF Yielded
  <2>7. Equation(f)
    BY <1>1, <2>6 DEF Yielded
  <2>8. QED
    BY <2>7
<1>4. Results(c, b, amount) = CHOOSE f : Equation(f)
  BY DEF Results
<1>5. Equation(Results(c, b, amount))
  <2> HIDE DEF Equation
  <2>1. QED
    BY <1>3, <1>4
<1>6. QED
  BY <1>1, <1>5 DEF Yielded

\* The results are numbers; whether a batch yields anything does not depend on the amount.
LEMMA ResultsType ==
    ASSUME NEW c, NEW b, IsBatch(b), NEW amount \in Nat
    PROVE  Results(c, b, amount) \in [1..Len(b) -> Nat]
<1> DEFINE result == Results(c, b, amount)
           S == {k \in Nat : k = 0 \/ result[k] \in Nat}
<1>1. result = [k \in 1..Len(b) |-> Yielded(c, b, amount, k, result[k - 1])]
  BY ResultsEquation
<1>2. Len(b) \in Nat
  BY DEF IsBatch
<1> HIDE DEF result
<1>3. ASSUME NEW k \in 1..Len(b), k - 1 \in S
      PROVE  k \in S
  <2>1. k = 1 \/ result[k - 1] \in Nat
    BY <1>3
  <2>2. Yielded(c, b, amount, k, result[k - 1]) \in Nat
    BY <2>1, YieldsType DEF Yielded
  <2>3. QED
    BY <1>1, <1>2, <2>2
<1>4. 0..Len(b) \subseteq S
  <2>1. 0 \in S
    OBVIOUS
  <2> HIDE DEF S
  <2>2. QED
    BY <1>2, <1>3, <2>1, InductionUpto
<1>5. \A k \in 1..Len(b) : result[k] \in Nat
  BY <1>2, <1>4
<1>6. QED
  BY <1>1, <1>5 DEF result

LEMMA ResultsPositive ==
    ASSUME NEW c, NEW b, IsBatch(b), NEW x \in Nat \ {0}, NEW y \in Nat \ {0},
           NEW k \in 1..Len(b)
    PROVE  Results(c, b, x)[k] > 0 <=> Results(c, b, y)[k] > 0
<1> DEFINE f == Results(c, b, x)
           g == Results(c, b, y)
           S == {j \in Nat : j \in 1..Len(b) => (f[j] > 0 <=> g[j] > 0)}
<1>1. /\ f = [j \in 1..Len(b) |-> Yielded(c, b, x, j, f[j - 1])]
      /\ g = [j \in 1..Len(b) |-> Yielded(c, b, y, j, g[j - 1])]
  BY ResultsEquation
<1>2. f \in [1..Len(b) -> Nat] /\ g \in [1..Len(b) -> Nat]
  BY ResultsType
<1>3. Len(b) \in Nat
  BY DEF IsBatch
<1> HIDE DEF f, g
<1>4. ASSUME NEW j \in 1..Len(b), j - 1 \in S
      PROVE  j \in S
  <2>1. f[j] = Yielded(c, b, x, j, f[j - 1]) /\ g[j] = Yielded(c, b, y, j, g[j - 1])
    BY <1>1
  <2>2. CASE j = 1
    BY <1>3, <2>1, <2>2, YieldsType DEF Yielded
  <2>3. CASE j # 1
    <3>1. j - 1 \in 1..Len(b)
      BY <1>3, <2>3
    <3>2. f[j - 1] \in Nat /\ g[j - 1] \in Nat /\ (f[j - 1] > 0 <=> g[j - 1] > 0)
      BY <1>2, <1>4, <3>1
    <3>3. CASE FeedsInto(c, b, j - 1, j)
      BY <2>1, <2>3, <3>2, <3>3, YieldsType DEF Yielded
    <3>4. CASE ~FeedsInto(c, b, j - 1, j)
      BY <2>1, <2>3, <3>4, YieldsType DEF Yielded
    <3>5. QED
      BY <3>3, <3>4
  <2>4. QED
    BY <2>2, <2>3
<1>5. 0..Len(b) \subseteq S
  <2>1. 0 \in S
    OBVIOUS
  <2> HIDE DEF S
  <2>2. QED
    BY <1>3, <1>4, <2>1, InductionUpto
<1>6. QED
  BY <1>3, <1>5 DEF f, g

-----------------------------------------------------------------------------
(***************************************************************************)
(* The calls of a merged step.                                             *)
(***************************************************************************)
LEMMA MergedType ==
    ASSUME NEW m \in MergedStep
    PROVE  Len(m) \in Nat \ {0} /\ \A k \in 1..Len(m) : m[k].src \in Chain
<1> DEFINE Record == [exe : STRING, exact : BOOLEAN, src : Chain, dst : Chain, spend : STRING,
                      receive : STRING, to : [owner : STRING, form : STRING]]
<1>1. m \in Seq(Record) /\ m # <<>>
  BY DEF MergedStep
<1> HIDE DEF Record
<1>2. \A k \in 1..Len(m) : m[k] \in Record
  BY <1>1, ElementOfSeq
<1>3. Len(m) \in Nat /\ Len(m) # 0
  BY <1>1, EmptySeq, LenProperties
<1>4. QED
  BY <1>2, <1>3 DEF Record

LEMMA DerivedIsBatch ==
    ASSUME NEW m \in MergedStep, NEW calls \in DeriveCalls(m), NEW c
    PROVE  /\ Len(calls) = Len(m) /\ IsBatch(calls)
           /\ IsBatch(Executed(c, calls))
           /\ c \notin EvmChains => Len(Executed(c, calls)) = 1
<1>1. Len(m) \in Nat \ {0}
  BY MergedType
<1> DEFINE call(k) == [params |-> CHOOSE p \in StepCalls(m[k]) : TRUE,
                       call_index |-> k - 1, input_call |-> InputCall(k)]
           All == {call(k) : k \in 1..Len(m)}
<1>2. calls = [k \in 1..Len(m) |-> call(k)]
  BY DEF DeriveCalls, When
<1>3. calls \in [1..Len(m) -> All]
  BY <1>2
<1>4. calls \in Seq(All) /\ Len(calls) = Len(m)
  <2> HIDE DEF All
  <2>1. calls \in Seq(All)
    BY <1>1, <1>3, SeqDef
  <2>2. DOMAIN calls = 1..Len(calls) /\ DOMAIN calls = 1..Len(m) /\ Len(calls) \in Nat
    BY <1>3, <2>1, LenProperties
  <2>3. QED
    BY <1>1, <2>1, <2>2
<1>5. IsBatch(calls)
  BY <1>1, <1>2, <1>4 DEF IsBatch
<1>6. Len(SubSeq(calls, 1, 1)) = 1 /\ SubSeq(calls, 1, 1)[1] = calls[1]
  BY <1>1, <1>4, SubSeqProperties
<1>7. IsBatch(SubSeq(calls, 1, 1))
  BY <1>5, <1>6 DEF IsBatch
<1>8. QED
  BY <1>4, <1>5, <1>6, <1>7 DEF Executed

LEMMA DeliversType ==
    ASSUME NEW m \in MergedStep, NEW calls \in DeriveCalls(m), NEW c, NEW amount \in Nat
    PROVE  Delivers(c, calls, amount) \in Nat
<1> DEFINE b == Executed(c, calls)
<1>1. IsBatch(b) /\ Results(c, b, amount) \in [1..Len(b) -> Nat]
  BY DerivedIsBatch, ResultsType
<1> HIDE DEF b
<1>2. Results(c, b, amount)[Len(b)] \in Nat
  BY <1>1 DEF IsBatch
<1>3. QED
  BY <1>2 DEF Delivers, b

\* A batch that works for one amount works for all, a Substrate transaction always.
LEMMA DeliversPositive ==
    ASSUME NEW m \in MergedStep, NEW calls \in DeriveCalls(m), NEW c,
           NEW amount \in Nat \ {0},
           c \in EvmChains => \E x \in Nat \ {0} : Delivers(c, calls, x) > 0
    PROVE  Delivers(c, calls, amount) > 0
<1> DEFINE b == Executed(c, calls)
           f == Results(c, b, amount)
<1>1. IsBatch(b) /\ f \in [1..Len(b) -> Nat]
  BY DerivedIsBatch, ResultsType
<1>2. \A k \in 1..Len(b) : f[k] > 0
  <2>1. CASE c \in EvmChains
    <3>1. PICK x \in Nat \ {0} : Delivers(c, calls, x) > 0
      BY <2>1
    <3>2. Results(c, b, x) \in [1..Len(b) -> Nat]
      BY <1>1, ResultsType
    <3>3. \A k \in 1..Len(b) : Results(c, b, x)[k] > 0
      BY <3>1, <3>2 DEF Delivers
    <3>4. QED
      BY <1>1, <3>3, ResultsPositive
  <2>2. CASE c \notin EvmChains
    <3>1. Len(b) = 1
      BY <2>2, DerivedIsBatch
    <3>2. f = [k \in 1..Len(b) |-> Yielded(c, b, amount, k, f[k - 1])]
      BY <1>1, ResultsEquation
    <3> HIDE DEF f, b
    <3>3. f[1] = Yields(c, b[1].params, amount)
      BY <3>1, <3>2 DEF Yielded
    <3>4. QED
      BY <3>1, <3>3, YieldsType
  <2>3. QED
    BY <2>1, <2>2
<1> HIDE DEF b
<1>3. QED
  BY <1>1, <1>2 DEF Delivers, IsBatch, b

-----------------------------------------------------------------------------
(***************************************************************************)
(* Values and fees are numbers.                                            *)
(***************************************************************************)
\* f adds up x[1], ..., x[n].
IsSum(f, n, x) == f = [k \in 0..n |-> IF k = 0 THEN 0 ELSE f[k - 1] + x[k]]

LEMMA SumDefined ==
    ASSUME NEW n \in Nat, NEW x \in [1..n -> Nat]
    PROVE  \E f : IsSum(f, n, x)
<1> DEFINE step == [k \in 1..n |-> [v \in Nat |-> v + x[k]]]
<1>1. StepFunction(step, n, Nat)
  BY DEF StepFunction
<1>2. \A k \in 1..n : \A v \in Nat : step[k][v] = v + x[k]
  OBVIOUS
<1> HIDE DEF step
<1>3. PICK f : Recurses(f, n, Nat, 0, step)
  BY <1>1, Recursion
<1>4. f \in [0..n -> Nat] /\ f[0] = 0 /\ \A k \in 1..n : f[k] = step[k][f[k - 1]]
  BY <1>3 DEF Recurses
<1>5. ASSUME NEW k \in 1..n
      PROVE  f[k] = f[k - 1] + x[k]
  <2>1. f[k - 1] \in Nat
    BY <1>4
  <2>2. step[k][f[k - 1]] = f[k - 1] + x[k]
    BY <1>2, <2>1
  <2>3. QED
    BY <1>4, <2>2
<1>6. \A k \in 0..n : f[k] = IF k = 0 THEN 0 ELSE f[k - 1] + x[k]
  BY <1>4, <1>5
<1>7. f = [k \in 0..n |-> f[k]]
  BY <1>4
<1>8. IsSum(f, n, x)
  <2> DEFINE g == [k \in 0..n |-> IF k = 0 THEN 0 ELSE f[k - 1] + x[k]]
  <2>1. g = [k \in 0..n |-> f[k]]
    BY <1>6
  <2>2. QED
    BY <1>7, <2>1 DEF IsSum
<1>9. QED
  BY <1>8

LEMMA SumType ==
    ASSUME NEW n \in Nat, NEW x \in [1..n -> Nat], NEW f, IsSum(f, n, x)
    PROVE  f[n] \in Nat
<1> DEFINE S == {k \in Nat : f[k] \in Nat}
<1>1. 0 \in S
  BY DEF IsSum
<1>2. ASSUME NEW k \in 1..n, k - 1 \in S
      PROVE  k \in S
  <2>1. f[k] = f[k - 1] + x[k]
    BY DEF IsSum
  <2>2. QED
    BY <1>2, <2>1
<1>3. 0..n \subseteq S
  <2> HIDE DEF S
  <2>1. QED
    BY <1>1, <1>2, InductionUpto
<1>4. QED
  BY <1>3

LEMMA ValuesType ==
    ASSUME NEW c, NEW calls, Len(calls) \in Nat,
           \A k \in 1..Len(calls) : calls[k].params.value \in Nat
    PROVE  Values(c, calls) \in Nat
<1> DEFINE x == [k \in 1..Len(calls) |-> calls[k].params.value]
           Equation(f) == f = [k \in 0..Len(calls) |->
                                 IF k = 0 THEN 0 ELSE f[k - 1] + calls[k].params.value]
           value == CHOOSE f : Equation(f)
<1>1. x \in [1..Len(calls) -> Nat] /\ \A k \in 1..Len(calls) : x[k] = calls[k].params.value
  OBVIOUS
<1> HIDE DEF x
<1>2. ASSUME NEW f
      PROVE  Equation(f) <=> IsSum(f, Len(calls), x)
  <2>1. \A k \in 0..Len(calls) : k # 0 => x[k] = calls[k].params.value
    BY <1>1
  <2>2. QED
    BY <2>1 DEF IsSum
<1>3. PICK f : Equation(f)
  <2> HIDE DEF Equation
  <2>1. QED
    BY <1>1, <1>2, SumDefined
<1>4. Equation(value)
  <2> HIDE DEF Equation
  <2>1. QED
    BY <1>3
<1>5. value[Len(calls)] \in Nat
  <2> HIDE DEF Equation, value
  <2>1. QED
    BY <1>1, <1>2, <1>4, SumType
<1>6. QED
  BY <1>5 DEF Values

Builders == {"NativeWrapper", "UniswapV2", "UniswapV3", "EvmSygmaBridge", "XTokenBridge",
             "XTransferXcm", "XTransferSygma", "Transactor", "AstarTransactor",
             "AstarSubToEvmTransactor", "AstarXtokens", "PolkadotXcmV2", "PolkadotXcmV3",
             "AcalaSwap", "AcalaTransactor"}

LEMMA ActionBuilder ==
    ASSUME NEW exe, NEW builder, NEW dest, NEW form
    PROVE  Action(exe, builder, dest, form).builder = builder
  BY DEF Action

LEMMA LocalBuilder ==
    ASSUME NEW exe, NEW builder
    PROVE  Local(exe, builder).builder = builder
  BY ActionBuilder DEF Local

LEMMA ActionType ==
    ASSUME NEW s, s.src \in Chain, NEW action \in GetActions(s)
    PROVE  action.builder \in Builders
<1>1. \/ action \in EthereumActions \/ action \in MoonbeamActions \/ action \in AstarEvmActions
      \/ action \in AstarActions \/ action \in PhalaActions \/ action \in AcalaActions
      \/ action \in PolkadotActions
  BY DEF GetActions, CreateActions, Chain, EvmChains, SubChains
<1> USE ActionBuilder, LocalBuilder
<1>2. CASE action \in EthereumActions
  BY <1>2 DEF Builders, EthereumActions
<1>3. CASE action \in MoonbeamActions
  BY <1>3 DEF Builders, MoonbeamActions
<1>4. CASE action \in AstarEvmActions \/ action \in AstarActions
  BY <1>4 DEF Builders, AstarEvmActions, AstarActions
<1>5. CASE action \in PhalaActions
  BY <1>5 DEF Builders, PhalaActions
<1>6. CASE action \in AcalaActions \/ action \in PolkadotActions
  BY <1>6 DEF Builders, AcalaActions, PolkadotActions
<1>7. QED
  BY <1>1, <1>2, <1>3, <1>4, <1>5, <1>6

LEMMA CallValue ==
    ASSUME NEW s, s.src \in Chain, NEW call \in StepCalls(s)
    PROVE  call.value \in Nat
<1>1. PICK action \in GetActions(s) : call \in BuildCall(action, s)
  BY DEF StepCalls
<1>2. action.builder \in {"NativeWrapper", "UniswapV2", "UniswapV3", "EvmSygmaBridge", "XTokenBridge"}
        => call.value \in Nat
  BY <1>1 DEF BuildCall, NativeWrapper, UniswapV2, UniswapV3, EvmSygmaBridge, XTokenBridge,
              EvmCall, When
<1>3. action.builder \in {"XTransferXcm", "XTransferSygma", "AstarXtokens", "PolkadotXcmV2",
                          "PolkadotXcmV3"} => call.value \in Nat
  BY <1>1 DEF BuildCall, XTransferXcm, XTransferSygma, AstarXtokens, PolkadotXcmV2,
              PolkadotXcmV3, Bridge, SubCall, When
<1>4. action.builder \in {"Transactor", "AstarTransactor", "AstarSubToEvmTransactor"}
        => call.value \in Nat
  BY <1>1 DEF BuildCall, Transactor, AstarTransactor, AstarSubToEvmTransactor, Transfer,
              SubCall, When
<1>5. action.builder \in {"AcalaSwap", "AcalaTransactor"} => call.value \in Nat
  BY <1>1 DEF BuildCall, AcalaSwap, AcalaTransactor, Transfer, SubCall, When
<1>6. QED
  BY <1>1, <1>2, <1>3, <1>4, <1>5, ActionType DEF Builders

LEMMA DerivedValues ==
    ASSUME NEW m \in MergedStep, NEW calls \in DeriveCalls(m), NEW c
    PROVE  Values(c, calls) \in Nat
<1>1. Len(calls) = Len(m) /\ Len(m) \in Nat
  BY MergedType, DerivedIsBatch
<1>2. ASSUME NEW k \in 1..Len(m)
      PROVE  calls[k].params.value \in Nat
  <2>1. StepCalls(m[k]) # {}
    BY DEF DeriveCalls, When
  <2>2. calls[k].params \in StepCalls(m[k])
    <3> DEFINE chosen == CHOOSE call \in StepCalls(m[k]) : TRUE
    <3>1. chosen \in StepCalls(m[k])
      BY <2>1
    <3> HIDE DEF chosen
    <3>2. calls[k] = [params |-> chosen, call_index |-> k - 1, input_call |-> InputCall(k)]
      BY DEF DeriveCalls, When, chosen
    <3>3. QED
      BY <3>1, <3>2
  <2>3. QED
    BY <2>2, MergedType, CallValue
<1>3. QED
  BY <1>1, <1>2, ValuesType

LEMMA WorthType ==
    ASSUME NEW c, NEW value \in Nat
    PROVE  Worth(c, value) \in Nat
<1> DEFINE total == value * GetPrice(c, NativeAsset[c])
<1>1. GetPrice(c, NativeAsset[c]) \in Nat
  BY DEF GetPrice
<1>2. total \in Nat
  BY <1>1
<1> HIDE DEF total
<1>3. total \div 10000 \in Nat
  BY <1>2
<1>4. QED
  BY <1>3 DEF Worth, total

LEMMA ProtoFeeType ==
    ASSUME NEW c \in DOMAIN ProtoFees, NEW exe \in DOMAIN ProtoFees[c]
    PROVE  ProtoFees[c][exe] \in Nat
<1>1. c \in {"Ethereum", "Moonbeam", "AstarEvm", "Astar", "Khala", "Phala", "Acala"}
  BY DEF ProtoFees
<1>2. ProtoFees[c] \in {EthereumFees, MoonbeamFees, AstarFees, PhalaFees, AcalaFees}
  BY <1>1 DEF ProtoFees
<1>3. \A x \in DOMAIN EthereumFees : EthereumFees[x] \in Nat
  BY DEF EthereumFees
<1>4. \A x \in DOMAIN MoonbeamFees : MoonbeamFees[x] \in Nat
  BY DEF MoonbeamFees
<1>5. \A x \in DOMAIN AstarFees : AstarFees[x] \in Nat
  BY DEF AstarFees
<1>6. \A x \in DOMAIN PhalaFees : PhalaFees[x] \in Nat
  BY DEF PhalaFees
<1>7. \A x \in DOMAIN AcalaFees : AcalaFees[x] \in Nat
  BY DEF AcalaFees
<1>8. QED
  BY <1>2, <1>3, <1>4, <1>5, <1>6, <1>7

LEMMA ExtraFeesType ==
    ASSUME NEW m \in MergedStep, \A k \in 1..Len(m) : ExtraInfo(m[k]) # {}
    PROVE  ExtraFees(m) \in Nat
<1> DEFINE info(k) == CHOOSE i \in ExtraInfo(m[k]) : TRUE
           x == [k \in 1..Len(m) |-> info(k).extra_proto_fee_in_usd]
           Equation(f) == f = [k \in 0..Len(m) |->
                                 IF k = 0 THEN 0 ELSE f[k - 1] + info(k).extra_proto_fee_in_usd]
           fee == CHOOSE f : Equation(f)
<1>1. Len(m) \in Nat
  BY MergedType
<1>2. \A k \in 1..Len(m) : info(k).extra_proto_fee_in_usd \in Nat
  <2> SUFFICES ASSUME NEW k \in 1..Len(m) PROVE info(k).extra_proto_fee_in_usd \in Nat
    OBVIOUS
  <2>1. info(k) \in ExtraInfo(m[k])
    OBVIOUS
  <2> HIDE DEF info
  <2>2. QED
    BY <2>1, ProtoFeeType DEF ExtraInfo
<1> HIDE DEF info
<1>3. x \in [1..Len(m) -> Nat] /\ \A k \in 1..Len(m) : x[k] = info(k).extra_proto_fee_in_usd
  BY <1>2
<1> HIDE DEF x
<1>4. ASSUME NEW f
      PROVE  Equation(f) <=> IsSum(f, Len(m), x)
  <2>1. \A k \in 0..Len(m) : k # 0 => x[k] = info(k).extra_proto_fee_in_usd
    BY <1>1, <1>3
  <2>2. QED
    BY <2>1 DEF IsSum
<1>5. PICK f : Equation(f)
  <2> HIDE DEF Equation
  <2>1. QED
    BY <1>1, <1>3, <1>4, SumDefined
<1>6. Equation(fee)
  <2> HIDE DEF Equation
  <2>1. QED
    BY <1>5
<1>7. fee[Len(m)] \in Nat
  <2> HIDE DEF Equation, fee
  <2>1. QED
    BY <1>1, <1>3, <1>4, <1>6, SumType
<1>8. QED
  BY <1>7 DEF ExtraFees, info

\* A sum of fees, each step of it reduced to a u32.
WrappedSum(f, r) ==
    /\ f \in [0..Len(r) -> Nat] /\ f[0] = 0
    /\ \A i \in 1..Len(r) :
          f[i] = (f[i - 1] + r[i].tx_fee_in_usd + r[i].extra_proto_fee_in_usd) % U32

LEMMA FeeInUsdEquation ==
    ASSUME NEW r, Len(r) \in Nat,
           \A i \in 1..Len(r) : r[i].tx_fee_in_usd \in Nat /\ r[i].extra_proto_fee_in_usd \in Nat
    PROVE  \E f : WrappedSum(f, r) /\ FeeInUsd(r) = f[Len(r)]
<1> DEFINE Sum(i, v) == (v + r[i].tx_fee_in_usd + r[i].extra_proto_fee_in_usd) % U32
           step == [i \in 1..Len(r) |-> [v \in Nat |-> Sum(i, v)]]
           Equation(f) == f = [i \in 0..Len(r) |-> IF i = 0 THEN 0 ELSE Sum(i, f[i - 1])]
           fee == CHOOSE f : Equation(f)
<1>1. \A i \in 1..Len(r) : \A v \in Nat : Sum(i, v) \in Nat
  OBVIOUS
<1>2. FeeInUsd(r) = fee[Len(r)]
  BY DEF FeeInUsd
<1> HIDE DEF Sum
<1>3. PICK f : Equation(f)
  <2>1. StepFunction(step, Len(r), Nat) /\ \A i \in 1..Len(r) : \A v \in Nat : step[i][v] = Sum(i, v)
    BY <1>1 DEF StepFunction
  <2> HIDE DEF step
  <2>2. PICK f : Recurses(f, Len(r), Nat, 0, step)
    BY <2>1, Recursion
  <2>3. f \in [0..Len(r) -> Nat] /\ f[0] = 0 /\ \A i \in 1..Len(r) : f[i] = step[i][f[i - 1]]
    BY <2>2 DEF Recurses
  <2>4. ASSUME NEW i \in 1..Len(r)
        PROVE  f[i] = Sum(i, f[i - 1])
    <3>1. f[i - 1] \in Nat
      <4>1. i - 1 \in 0..Len(r)
        OBVIOUS
      <4>2. QED
        BY <2>3, <4>1
    <3>2. QED
      BY <2>1, <2>3, <3>1
  <2>5. \A i \in 0..Len(r) : f[i] = IF i = 0 THEN 0 ELSE Sum(i, f[i - 1])
    BY <2>3, <2>4
  <2>6. f = [i \in 0..Len(r) |-> f[i]]
    BY <2>3
  <2> DEFINE g == [i \in 0..Len(r) |-> IF i = 0 THEN 0 ELSE Sum(i, f[i - 1])]
  <2>7. g = [i \in 0..Len(r) |-> f[i]]
    BY <2>5
  <2>8. QED
    BY <2>6, <2>7
<1>4. Equation(fee)
  <2> HIDE DEF Equation
  <2>1. QED
    BY <1>3
<1> HIDE DEF fee
<1> DEFINE S == {i \in Nat : fee[i] \in Nat}
<1>5. 0..Len(r) \subseteq S
  <2>1. 0 \in S
    BY <1>4
  <2>2. ASSUME NEW i \in 1..Len(r), i - 1 \in S
        PROVE  i \in S
    <3>1. fee[i] = Sum(i, fee[i - 1])
      BY <1>4
    <3>2. fee[i - 1] \in Nat
      BY <2>2
    <3>3. fee[i] \in Nat
      BY <1>1, <3>1, <3>2
    <3>4. QED
      BY <3>3
  <2> HIDE DEF S
  <2>3. QED
    BY <2>1, <2>2, InductionUpto
<1>6. fee \in [0..Len(r) -> Nat] /\ fee[0] = 0 /\ \A i \in 1..Len(r) : fee[i] = Sum(i, fee[i - 1])
  BY <1>4, <1>5
<1>7. QED
  BY <1>2, <1>6 DEF WrappedSum, Sum

LEMMA FeeInUsdType ==
    ASSUME NEW r, Len(r) \in Nat,
           \A i \in 1..Len(r) : r[i].tx_fee_in_usd \in Nat /\ r[i].extra_proto_fee_in_usd \in Nat
    PROVE  FeeInUsd(r) \in Nat
<1>1. PICK f : WrappedSum(f, r) /\ FeeInUsd(r) = f[Len(r)]
  BY FeeInUsdEquation
<1>2. QED
  BY <1>1 DEF WrappedSum

LEMMA DerivedUnique ==
    ASSUME NEW m, NEW b \in DeriveCalls(m), NEW d \in DeriveCalls(m)
    PROVE  b = d
<1> DEFINE calls == [k \in 1..Len(m) |->
                       [params |-> CHOOSE call \in StepCalls(m[k]) : TRUE,
                        call_index |-> k - 1, input_call |-> InputCall(k)]]
<1>1. \A x \in DeriveCalls(m) : x = calls
  BY DEF DeriveCalls, When
<1> HIDE DEF calls
<1>2. QED
  BY <1>1

LEMMA SimulateType ==
    ASSUME NEW l, NEW allowed, NEW used, NEW gas \in Nat, NEW m \in MergedStep,
           NEW r \in Simulate(l, allowed, used, gas, m, Minimal)
    PROVE  /\ r.tx_fee_in_usd \in Nat /\ r.extra_proto_fee_in_usd \in Nat
           /\ Accepted(allowed, m)
<1>1. PICK d \in DeriveCalls(m) :
          /\ \A k \in 1..Len(m) : ExtraInfo(m[k]) # {}
          /\ m[1].src \in EvmChains => EstimateGas(l, allowed, used, m, d, Minimal)
          /\ r = [tx_fee_in_usd |-> IF m[1].src \in EvmChains THEN gas ELSE SubTxFee,
                  extra_proto_fee_in_usd |-> ExtraFees(m)]
  BY DEF Simulate
<1>2. r.tx_fee_in_usd \in Nat /\ r.extra_proto_fee_in_usd \in Nat
  BY <1>1, ExtraFeesType DEF SubTxFee
<1>3. \A calls \in DeriveCalls(m) : calls = d
  BY DerivedUnique
<1>4. Accepted(allowed, m)
  BY <1>1, <1>3 DEF Accepted, EstimateGas
<1>5. QED
  BY <1>2, <1>4

LEMMA FeeType ==
    ASSUME NEW r \in Seq(MergedStep) \ {<<>>}, NEW registered, NEW l, NEW allowed, NEW used, NEW gas \in Nat,
           NEW fee \in CalculateFee(registered, l, allowed, used, gas, r)
    PROVE  fee \in Nat /\ \A i \in 1..Len(r) : Accepted(allowed, r[i])
<1> DEFINE Offers(i) == {x \in Simulate(l, allowed, used, gas, r[i], Minimal) :
                           <<r[i][1].src, r[i][1].spend>> \in registered}
           results == [i \in 1..Len(r) |-> CHOOSE x \in Offers(i) : TRUE]
           price == GetPrice(r[1][1].src, r[1][1].spend)
<1>1. Len(r) \in Nat /\ \A i \in 1..Len(r) : r[i] \in MergedStep
  BY LenProperties, ElementOfSeq
<1>2. SimulateSolution(registered, l, allowed, used, gas, r)
        = When(\A i \in 1..Len(r) : Offers(i) # {}, results)
  BY DEF SimulateSolution
<1>3. /\ \A i \in 1..Len(r) : Offers(i) # {}
      /\ fee = (Unit * FeeInUsd(results)) \div price
  <2> HIDE DEF Offers, results
  <2>1. QED
    BY <1>2 DEF CalculateFee, When
<1>4. \A i \in 1..Len(r) : (CHOOSE x \in Offers(i) : TRUE) \in Offers(i)
  BY <1>3
<1>5. \A i \in 1..Len(r) : /\ Accepted(allowed, r[i])
                           /\ results[i].tx_fee_in_usd \in Nat
                           /\ results[i].extra_proto_fee_in_usd \in Nat
  <2> SUFFICES ASSUME NEW i \in 1..Len(r)
               PROVE  /\ Accepted(allowed, r[i])
                      /\ results[i].tx_fee_in_usd \in Nat
                      /\ results[i].extra_proto_fee_in_usd \in Nat
    OBVIOUS
  <2> DEFINE x == CHOOSE x \in Offers(i) : TRUE
  <2>1. x \in Simulate(l, allowed, used, gas, r[i], Minimal) /\ results[i] = x
    BY <1>4
  <2> HIDE DEF x, results, Offers
  <2>2. QED
    BY <1>1, <2>1, SimulateType
<1>6. Len(results) = Len(r)
  <2> DEFINE All == {results[i] : i \in 1..Len(r)}
  <2>1. results \in [1..Len(r) -> All] /\ DOMAIN results = 1..Len(r)
    OBVIOUS
  <2> HIDE DEF results, All
  <2>2. results \in Seq(All)
    BY <1>1, <2>1, SeqDef
  <2>3. DOMAIN results = 1..Len(results) /\ Len(results) \in Nat
    BY <2>2, LenProperties
  <2>4. QED
    BY <1>1, <2>1, <2>3
<1> HIDE DEF results
<1>7. FeeInUsd(results) \in Nat
  BY <1>1, <1>5, <1>6, FeeInUsdType
<1>8. price \in Nat \ {0}
  BY DEF GetPrice
<1>9. fee \in Nat
  <2> DEFINE total == Unit * FeeInUsd(results)
  <2>1. total \in Nat
    BY <1>7
  <2> HIDE DEF total, price
  <2>2. total \div price \in Nat
    BY <1>8, <2>1
  <2>3. QED
    BY <1>3, <2>2 DEF total, price
<1>10. QED
  BY <1>5, <1>9

-----------------------------------------------------------------------------
(***************************************************************************)
(* Entries and ledgers.                                                    *)
(***************************************************************************)
LEMMA OneWatched ==
    ASSUME NEW m, Watched(m) # {}
    PROVE  \E e : Watched(m) = {e} /\ Goal(m) = {Canonical(e)}
<1> DEFINE s == AsSingleStep(m)
<1>1. Watched(m) = GetBalance(s.dst, s.receive, s.to)
  BY DEF Watched
<1> HIDE DEF s
<1> DEFINE keys == IF s.dst \in EvmChains THEN {EvmKey(s.dst, s.receive)} ELSE SubKeys(s.dst, s.receive)
<1>2. \A k, l \in keys : k = l
  BY DEF SubKeys
<1> HIDE DEF keys
<1>3. Watched(m) = {} \/ Watched(m) = {Entry(s.dst, k, s.to) : k \in keys}
  BY <1>1 DEF GetBalance, keys
<1>4. \A e, f \in Watched(m) : e = f
  BY <1>2, <1>3
<1>5. PICK e : e \in Watched(m)
  OBVIOUS
<1>6. Watched(m) = {e}
  BY <1>4, <1>5
<1>7. QED
  BY <1>6 DEF Goal

LEMMA OneSpentFrom ==
    ASSUME NEW m, NEW calls \in DeriveCalls(m)
    PROVE  SpentFrom(m) = {TakenFrom(m[1].src, calls[1].params, Worker(m[1].src))}
<1>1. DeriveCalls(m) = {calls}
  BY DerivedUnique
<1>2. QED
  BY <1>1 DEF SpentFrom

LEMMA LatestIsGoal ==
    ASSUME NEW i, NEW g, Goal(route[i]) = {g}
    PROVE  LatestBalance(i) = Balance(ledger, g) /\ Watched(route[i]) # {}
<1>1. Watched(route[i]) # {}
  BY DEF Goal
<1>2. PICK e : Watched(route[i]) = {e} /\ Goal(route[i]) = {Canonical(e)}
  BY <1>1, OneWatched
<1>3. Canonical(e) = g
  BY <1>2
<1>4. {Balance(ledger, Canonical(x)) : x \in Watched(route[i])} = {Balance(ledger, g)}
  BY <1>2, <1>3
<1>5. QED
  BY <1>1, <1>4 DEF LatestBalance

\* The balances of a ledger are numbers.
Sound(l) == \A e \in DOMAIN l : l[e] \in Nat

LEMMA BalanceType ==
    ASSUME NEW l, Sound(l), NEW e
    PROVE  Balance(l, e) \in Nat
  BY DEF Sound, Balance

\* Ledger new is ledger l with amount more for e.
Credited(l, e, amount, new) ==
    /\ Sound(new) /\ DOMAIN new = DOMAIN l \cup {e}
    /\ Balance(new, e) = Balance(l, e) + amount
    /\ \A x : x # e => Balance(new, x) = Balance(l, x)

LEMMA CreditBalance ==
    ASSUME NEW l, NEW e, NEW amount \in Int, Sound(l), Balance(l, e) + amount \in Nat
    PROVE  Credited(l, e, amount, Credit(l, e, amount))
<1>1. \A x : Balance(l, x) \in Nat
  BY BalanceType
<1>2. QED
  BY <1>1 DEF Sound, Credit, Balance, Credited

LEMMA RouteType ==
    ASSUME route \in Routes
    PROVE  /\ route \in Seq(MergedStep) \ {<<>>}
           /\ Len(route) \in Nat \ {0} /\ 1 \in Steps
           /\ \A i \in Steps : i \in Nat \ {0} /\ route[i] \in MergedStep
<1>1. route \in Seq(MergedStep) /\ route # <<>>
  OBVIOUS
<1>2. Len(route) \in Nat /\ Len(route) # 0
  BY <1>1, EmptySeq, LenProperties
<1>3. \A i \in 1..Len(route) : route[i] \in MergedStep
  BY <1>1, ElementOfSeq
<1>4. QED
  BY <1>1, <1>2, <1>3 DEF Steps

\* The type of the stored task.
TaskType ==
    [status : {"Initialized", "Executing", "Completed"}, index : Steps, fee : Nat,
     spend : [Steps -> Nat], origin : [Steps -> Nat \cup {NoBalance}]]

-----------------------------------------------------------------------------
(***************************************************************************)
(* Types, whatever the tables say.                                         *)
(***************************************************************************)
LEMMA LatestType ==
    ASSUME TypeOK, NEW i, Watched(route[i]) # {}
    PROVE  LatestBalance(i) \in Nat
<1>1. PICK g : Goal(route[i]) = {g}
  BY OneWatched
<1>2. Sound(ledger)
  BY DEF TypeOK, Sound
<1>3. QED
  BY <1>1, <1>2, LatestIsGoal, BalanceType

\* What running the current step of t does to the task and to the transactions on their way.
LEMMA ExecuteEffect ==
    ASSUME TypeOK, NEW t \in TaskType, ExecuteStep(t)
    PROVE  /\ task' \in TaskType
           /\ task'.index = t.index /\ task'.spend = t.spend /\ task'.fee = t.fee
           /\ \A j \in Steps : j # t.index => task'.origin[j] = t.origin[j]
           /\ ran[t.index] # "no" => task' = t /\ pending' = pending
           /\ ran[t.index] = "no" =>
                 /\ task'.status = "Executing"
                 /\ DeriveCalls(route[t.index]) # {} /\ Watched(route[t.index]) # {} =>
                       task'.origin[t.index] = LatestBalance(t.index)
                 /\ \/ pending' = pending
                    \/ \A tx \in pending' :
                          /\ tx.kind = "step" /\ tx.step = t.index /\ tx.amount = t.spend[t.index]
                          /\ tx.calls \in Sendable(t.index, t.spend[t.index])
<1> DEFINE i == t.index
<1>1. i \in Steps
  BY DEF TaskType
<1>2. CASE ran[i] # "no"
  BY <1>2 DEF ExecuteStep
<1>3. CASE ran[i] = "no" /\ (DeriveCalls(route[i]) = {} \/ Watched(route[i]) = {})
  <2>1. task' = [t EXCEPT !.status = "Executing"]
    BY <1>3 DEF ExecuteStep
  <2>2. Sendable(i, t.spend[i]) = {}
    BY <1>3 DEF Sendable
  <2>3. pending' = pending
    BY <1>3, <2>2 DEF ExecuteStep
  <2>4. QED
    BY <1>3, <2>1, <2>3 DEF TaskType
<1>4. CASE ran[i] = "no" /\ DeriveCalls(route[i]) # {} /\ Watched(route[i]) # {}
  <2>1. task' = [t EXCEPT !.status = "Executing", !.origin[i] = LatestBalance(i)]
    BY <1>4 DEF ExecuteStep
  <2>2. LatestBalance(i) \in Nat
    BY <1>4, LatestType
  <2>3. /\ task' \in TaskType /\ task'.index = i /\ task'.spend = t.spend /\ task'.fee = t.fee
        /\ task'.status = "Executing" /\ task'.origin[i] = LatestBalance(i)
        /\ \A j \in Steps : j # i => task'.origin[j] = t.origin[j]
    BY <1>1, <2>1, <2>2 DEF TaskType
  <2>4. \/ pending' = pending
        \/ \A tx \in pending' :
              /\ tx.kind = "step" /\ tx.step = i /\ tx.amount = t.spend[i]
              /\ tx.calls \in Sendable(i, t.spend[i])
    BY <1>4 DEF ExecuteStep, Tx
  <2>5. QED
    BY <1>4, <2>3, <2>4
<1>5. QED
  BY <1>2, <1>3, <1>4

\* What call, the last of step i, does with d taken out of ledger l.
Received(i, call, d, l) ==
    LET paid == PaidTo(route[i][1].src, call)
    IN  \/ /\ call.dest = "local"
           /\ ledger' = Credit(l, paid, d)
           /\ arrived' = [arrived EXCEPT ![i] = d]
           /\ UNCHANGED transit
        \/ /\ call.dest # "local"
           /\ ledger' = l
           /\ transit' = transit \cup {[step |-> i, entry |-> paid, amount |-> d]}
           /\ UNCHANGED arrived

\* What executing calls does to balances and bridges, if it yields anything.
LEMMA DeliverEffect ==
    ASSUME TypeOK, NEW i \in Steps, NEW calls \in DeriveCalls(route[i]), NEW amount \in Nat,
           NEW l, Sound(l), Delivers(route[i][1].src, calls, amount) > 0,
           Deliver(i, calls, amount, l)
    PROVE  /\ ran' = [ran EXCEPT ![i] = "ok"]
           /\ Sound(ledger') /\ drawn' \in [EvmChains -> Nat] /\ cost' \in Nat
           /\ Delivers(route[i][1].src, calls, amount) \in Nat \ {0}
           /\ Received(i, LastCall(route[i][1].src, calls),
                       Delivers(route[i][1].src, calls, amount), l)
<1> DEFINE c == route[i][1].src
           call == LastCall(c, calls)
           d == Delivers(c, calls, amount)
<1>1. route[i] \in MergedStep
  BY RouteType DEF TypeOK
<1>2. d \in Nat \ {0}
  BY <1>1, DeliversType
<1>3. Values(c, calls) \in Nat
  BY <1>1, DerivedValues
<1>4. txFee \in Nat /\ drawn \in [EvmChains -> Nat] /\ cost \in Nat
  BY DEF TypeOK
<1>5. drawn' \in [EvmChains -> Nat] /\ cost' \in Nat
  <2>1. CASE c \in EvmChains
    <3>1. drawn' = [drawn EXCEPT ![c] = @ + Values(c, calls)]
      BY <2>1 DEF Deliver
    <3>2. drawn' \in [EvmChains -> Nat]
      <4> DEFINE v == Values(c, calls)
      <4>1. v \in Nat /\ drawn' = [drawn EXCEPT ![c] = @ + v]
        BY <1>3, <3>1
      <4> HIDE DEF v, c
      <4>2. QED
        BY <1>4, <2>1, <4>1
    <3>3. cost' = cost + txFee + Worth(c, Values(c, calls))
      BY <2>1 DEF Deliver
    <3>4. Worth(c, Values(c, calls)) \in Nat
      BY <1>3, WorthType
    <3>5. QED
      BY <1>4, <3>2, <3>3, <3>4
  <2>2. CASE c \notin EvmChains
    BY <1>4, <2>2 DEF Deliver, SubTxFee
  <2>3. QED
    BY <2>1, <2>2
<1> HIDE DEF d, call
<1>6. CASE call.dest = "local"
  <2>1. ledger' = Credit(l, PaidTo(c, call), d) /\ arrived' = [arrived EXCEPT ![i] = d] /\ UNCHANGED transit
    BY <1>6 DEF Deliver, d, call
  <2>2. Balance(l, PaidTo(c, call)) + d \in Nat
    BY <1>2, BalanceType
  <2>3. Sound(ledger')
    <3>1. d \in Int
      BY <1>2
    <3>2. Sound(Credit(l, PaidTo(c, call), d))
      BY <2>2, <3>1, CreditBalance DEF Credited
    <3>3. QED
      BY <2>1, <3>2
  <2>4. QED
    BY <1>2, <1>5, <1>6, <2>1, <2>3 DEF Deliver, call, d, Received
<1>7. CASE call.dest # "local"
  <2>1. /\ ledger' = l /\ UNCHANGED arrived
        /\ transit' = transit \cup {[step |-> i, entry |-> PaidTo(c, call), amount |-> d]}
    BY <1>7 DEF Deliver, d, call
  <2>2. QED
    BY <1>2, <1>5, <1>7, <2>1 DEF Deliver, call, d, Received
<1>8. QED
  BY <1>6, <1>7

\* Balances, bridges and results keep their types.
WorldType ==
    /\ ran \in [Steps -> {"no", "ok", "failed"}]
    /\ Sound(ledger)
    /\ \A t \in transit : t.step \in Steps /\ t.amount \in Nat \ {0}
    /\ arrived \in [Steps -> Nat] /\ drawn \in [EvmChains -> Nat] /\ cost \in Nat

PendingType ==
    \A tx \in pending : tx.kind \in {"claim", "step"} /\ tx.step = task.index /\ tx.amount \in Nat

FrameType ==
    /\ route \in Routes /\ txFee \in TxFees
    /\ assets \subseteq RegisteredAssets \cup {<<route[i][1].src, route[i][1].spend>> : i \in Steps}
    /\ approved \subseteq {<<route[i][1].src, route[i][1].spend>> : i \in Steps}
    /\ claimed \in BOOLEAN /\ given \in [Steps -> Nat]

LEMMA TypeParts ==
    /\ TypeOK <=> FrameType /\ task \in TaskType /\ PendingType /\ WorldType
    /\ TypeOK' <=> FrameType' /\ task' \in TaskType' /\ PendingType' /\ WorldType'
  BY DEF TypeOK, FrameType, TaskType, PendingType, WorldType, Sound

LEMMA DeliverType ==
    ASSUME TypeOK, UNCHANGED route,
           NEW i \in Steps, NEW calls \in DeriveCalls(route[i]), NEW amount \in Nat,
           NEW l, Sound(l), Delivers(route[i][1].src, calls, amount) > 0,
           Deliver(i, calls, amount, l)
    PROVE  WorldType'
<1> DEFINE c == route[i][1].src
           call == LastCall(c, calls)
           d == Delivers(c, calls, amount)
<1>a. /\ ran' = [ran EXCEPT ![i] = "ok"]
      /\ Sound(ledger') /\ drawn' \in [EvmChains -> Nat] /\ cost' \in Nat
      /\ d \in Nat \ {0} /\ Received(i, call, d, l)
  BY DeliverEffect
<1> HIDE DEF call, d
<1> DEFINE paid == PaidTo(c, call)
<1>1. \/ arrived' = [arrived EXCEPT ![i] = d] /\ UNCHANGED transit
      \/ /\ transit' = transit \cup {[step |-> i, entry |-> paid, amount |-> d]}
         /\ UNCHANGED arrived
  BY <1>a DEF Received
<1> HIDE DEF paid
<1>2. /\ ran \in [Steps -> {"no", "ok", "failed"}] /\ arrived \in [Steps -> Nat]
      /\ \A t \in transit : t.step \in Steps /\ t.amount \in Nat \ {0}
  BY DEF TypeOK
<1>3. /\ ran' \in [Steps -> {"no", "ok", "failed"}] /\ arrived' \in [Steps -> Nat]
      /\ \A t \in transit' : t.step \in Steps /\ t.amount \in Nat \ {0}
  <2>1. ran' \in [Steps -> {"no", "ok", "failed"}]
    BY <1>2, <1>a
  <2>2. d \in Nat \ {0}
    BY <1>a
  <2>3. arrived' \in [Steps -> Nat]
    BY <1>1, <1>2, <2>2
  <2>4. \A t \in transit' : t.step \in Steps /\ t.amount \in Nat \ {0}
    BY <1>1, <1>2, <2>2
  <2>5. QED
    BY <2>1, <2>3, <2>4
<1>4. Steps' = Steps
  BY DEF Steps
<1>5. Sound(ledger')
  BY <1>a
<1>6. QED
  BY <1>a, <1>3, <1>4, <1>5 DEF WorldType, Sound

LEMMA ChainsApart == EvmChains \cap SubChains = {}
  BY DEF EvmChains, SubChains

LEMMA ClaimedTaskType ==
    ASSUME TypeOK, NEW fee \in Nat, fee < Amount
    PROVE  /\ ClaimedTask(fee) \in TaskType
           /\ ClaimedTask(fee).index = task.index /\ ClaimedTask(fee).status = task.status
           /\ \A j \in Steps : j # 1 => /\ ClaimedTask(fee).spend[j] = task.spend[j]
                                        /\ ClaimedTask(fee).origin[j] = task.origin[j]
           /\ Source \in EvmChains /\ Watched(route[1]) # {} =>
                 ClaimedTask(fee).origin[1] = LatestBalance(1)
           /\ Source \notin EvmChains => ClaimedTask(fee).spend[1] = Amount
<1>1. task \in TaskType /\ 1 \in Steps
  BY TypeParts, RouteType DEF TypeOK
<1>2. Amount - fee \in Nat /\ Amount \in Nat
  OBVIOUS
<1>3. Watched(route[1]) # {} => LatestBalance(1) \in Nat
  BY LatestType
<1> DEFINE origin == IF Watched(route[1]) = {} THEN task.origin[1] ELSE LatestBalance(1)
<1>4. origin \in Nat \cup {NoBalance}
  BY <1>1, <1>3 DEF TaskType
<1>5. CASE Source \in EvmChains
  <2>1. ClaimedTask(fee) = [task EXCEPT !.fee = fee, !.spend[1] = Amount - fee, !.origin[1] = origin]
    BY <1>1, <1>5 DEF ClaimedTask, TaskType
  <2>2. Watched(route[1]) # {} => origin = LatestBalance(1)
    OBVIOUS
  <2> HIDE DEF origin
  <2>3. /\ [task.spend EXCEPT ![1] = Amount - fee] \in [Steps -> Nat]
        /\ [task.origin EXCEPT ![1] = origin] \in [Steps -> Nat \cup {NoBalance}]
        /\ [task.origin EXCEPT ![1] = origin][1] = origin
        /\ \A j \in Steps : j # 1 => /\ [task.spend EXCEPT ![1] = Amount - fee][j] = task.spend[j]
                                     /\ [task.origin EXCEPT ![1] = origin][j] = task.origin[j]
    BY <1>1, <1>2, <1>4 DEF TaskType
  <2>4. /\ ClaimedTask(fee).spend = [task.spend EXCEPT ![1] = Amount - fee]
        /\ ClaimedTask(fee).origin = [task.origin EXCEPT ![1] = origin]
        /\ ClaimedTask(fee).fee = fee /\ ClaimedTask(fee).index = task.index
        /\ ClaimedTask(fee).status = task.status
    BY <1>1, <2>1 DEF TaskType
  <2>5. ClaimedTask(fee) \in TaskType
    <3>1. ClaimedTask(fee) = [task EXCEPT !.fee = fee, !.spend = [task.spend EXCEPT ![1] = Amount - fee],
                                          !.origin = [task.origin EXCEPT ![1] = origin]]
      BY <1>1, <2>1 DEF TaskType
    <3>2. QED
      BY <1>1, <2>3, <3>1 DEF TaskType
  <2>6. QED
    BY <1>5, <2>2, <2>3, <2>4, <2>5
<1>6. CASE Source \notin EvmChains
  BY <1>1, <1>2, <1>6 DEF ClaimedTask, TaskType
<1>7. QED
  BY <1>5, <1>6

\* What a claim sends.
LEMMA ClaimEffect ==
    ASSUME TypeInv, Claim
    PROVE  /\ ~claimed /\ task.index = 1
           /\ \E fee \in Nat :
                 /\ fee < Amount /\ fee \in CalculateFee(assets, ledger, approved, drawn, txFee, route)
                 /\ task' = ClaimedTask(fee)
                 /\ \/ /\ Source \in EvmChains /\ pending' = pending
                    \/ /\ Source \in EvmChains
                       /\ \A tx \in pending' :
                             /\ tx.kind = "claim" /\ tx.step = 1 /\ tx.amount = Amount - fee
                             /\ tx.calls \in DeriveCalls(route[1]) /\ Watched(route[1]) # {}
                             /\ HandlerPays(drawn, Source, tx.calls)
                             /\ Delivers(Source, tx.calls, tx.amount) > 0
                    \/ /\ Source \notin EvmChains
                       /\ \A tx \in pending' :
                             tx.kind = "claim" /\ tx.step = 1 /\ tx.amount = Amount
<1>1. ~claimed /\ task.index = 1
  BY DEF Claim, TypeInv, ClaimFirst
<1>2. route \in Seq(MergedStep) \ {<<>>} /\ txFee \in Nat
  BY RouteType DEF TypeInv, TypeOK
<1>3. PICK fee \in CalculateFee(assets, ledger, approved, drawn, txFee, route) :
        /\ fee < Amount /\ task' = ClaimedTask(fee)
        /\ \/ /\ Source \in EvmChains
              /\ ClaimCalls(fee) # {}
              /\ pending' = {Tx("claim", 1, calls, Amount - fee) : calls \in ClaimCalls(fee)}
           \/ /\ Source \in EvmChains
              /\ ClaimCalls(fee) = {}
              /\ UNCHANGED pending
           \/ /\ Source \in SubChains
              /\ pending' = {Tx("claim", 1, <<>>, Amount)}
  BY DEF Claim, Affordable
<1>4. fee \in Nat
  BY <1>2, FeeType
<1>5. CASE Source \in EvmChains /\ pending' = {Tx("claim", 1, calls, Amount - fee) : calls \in ClaimCalls(fee)}
  <2>1. \A tx \in pending' :
          /\ tx.kind = "claim" /\ tx.step = 1 /\ tx.amount = Amount - fee
          /\ tx.calls \in DeriveCalls(route[1]) /\ Watched(route[1]) # {}
          /\ HandlerPays(drawn, Source, tx.calls)
          /\ Delivers(Source, tx.calls, tx.amount) > 0
    BY <1>5 DEF ClaimCalls, Tx
  <2>2. QED
    BY <1>1, <1>3, <1>4, <1>5, <2>1
<1>6. CASE Source \in EvmChains /\ UNCHANGED pending
  BY <1>1, <1>3, <1>4, <1>6
<1>7. CASE Source \in SubChains /\ pending' = {Tx("claim", 1, <<>>, Amount)}
  <2>1. Source \notin EvmChains
    BY <1>7, ChainsApart
  <2>2. \A tx \in pending' : tx.kind = "claim" /\ tx.step = 1 /\ tx.amount = Amount
    BY <1>7 DEF Tx
  <2>3. QED
    BY <1>1, <1>3, <1>4, <2>1, <2>2
<1>8. QED
  BY <1>3, <1>5, <1>6, <1>7

LEMMA ClaimKeepsTypes ==
    ASSUME TypeInv, Claim
    PROVE  TypeInv'
<1>1. UNCHANGED <<route, txFee, assets, approved, claimed, world, given>>
  BY DEF Claim
<1>2. UNCHANGED <<ran, ledger, transit, arrived, drawn, cost>>
  BY <1>1 DEF world
<1>3. Steps' = Steps /\ Source' = Source /\ TaskType' = TaskType
  BY <1>1 DEF Steps, Source, TaskType
<1>4. ran[1] = "no"
  BY DEF Claim
<1>5. PICK fee \in Nat :
        /\ fee < Amount
        /\ task' = ClaimedTask(fee)
        /\ \/ /\ Source \in EvmChains /\ pending' = pending
           \/ /\ Source \in EvmChains
              /\ \A tx \in pending' :
                    /\ tx.kind = "claim" /\ tx.step = 1 /\ tx.amount = Amount - fee
                    /\ tx.calls \in DeriveCalls(route[1]) /\ Watched(route[1]) # {}
                    /\ HandlerPays(drawn, Source, tx.calls)
                    /\ Delivers(Source, tx.calls, tx.amount) > 0
           \/ /\ Source \notin EvmChains
              /\ \A tx \in pending' :
                    tx.kind = "claim" /\ tx.step = 1 /\ tx.amount = Amount
  BY ClaimEffect
<1>6. task' \in TaskType /\ task'.index = 1 /\ task.index = 1 /\ task'.status = task.status /\ ~claimed
  BY <1>5, ClaimedTaskType, ClaimEffect DEF TypeInv
<1>7. FrameType' /\ WorldType'
  BY <1>1, <1>2, <1>3, TypeParts DEF TypeInv, FrameType, WorldType
<1>8. Amount - fee \in Nat /\ Amount - fee <= Amount /\ Amount \in Nat
  BY <1>5
<1>9. PendingType'
  <2>1. PendingType
    BY TypeParts DEF TypeInv
  <2>2. QED
    BY <1>5, <1>6, <1>8, <2>1 DEF PendingType
<1>10. TypeOK'
  BY <1>3, <1>6, <1>7, <1>9, TypeParts
<1>11. ClaimFirst'
  <2>1. \A tx \in pending' : tx.kind = "claim"
    BY <1>5, <1>6 DEF TypeInv, ClaimFirst
  <2>2. QED
    BY <1>1, <1>2, <1>3, <1>4, <1>6, <2>1 DEF TypeInv, ClaimFirst
<1>12. BuiltAsDerived'
  <2>1. \A i : Watched(route[i])' = Watched(route[i]) /\ DeriveCalls(route[i])' = DeriveCalls(route[i])
    BY <1>1
  <2>2. \A tx : Carries(tx)' = Carries(tx)
    BY <1>3 DEF Carries
  <2>3. CASE pending' = pending
    BY <1>2, <1>3, <1>1, <1>6, <2>2, <2>3 DEF TypeInv, BuiltAsDerived
  <2>4. CASE Source \in EvmChains /\ \A tx \in pending' :
                    /\ tx.kind = "claim" /\ tx.step = 1 /\ tx.amount = Amount - fee
                    /\ tx.calls \in DeriveCalls(route[1]) /\ Watched(route[1]) # {}
                    /\ HandlerPays(drawn, Source, tx.calls)
                    /\ Delivers(Source, tx.calls, tx.amount) > 0
    BY <1>1, <1>2, <1>3, <1>6, <1>8, <2>4 DEF TypeInv, BuiltAsDerived, Carries
  <2>5. CASE Source \notin EvmChains /\ \A tx \in pending' :
                    tx.kind = "claim" /\ tx.step = 1 /\ tx.amount = Amount
    BY <1>1, <1>2, <1>3, <1>6, <1>8, <2>5 DEF TypeInv, BuiltAsDerived, Carries
  <2>6. QED
    BY <1>5, <2>3, <2>4, <2>5
<1>13. QED
  BY <1>10, <1>11, <1>12 DEF TypeInv

\* Running the current step of t, which differs from the stored task in the index and the
\* amount at most.
LEMMA ExecuteKeepsTypes ==
    ASSUME TypeInv, claimed, NEW t \in TaskType, ExecuteStep(t),
           t.index = task.index \/ pending = {},
           UNCHANGED <<route, txFee, assets, approved, claimed, world, given>>
    PROVE  TypeInv'
<1>1. UNCHANGED <<ran, ledger, transit, arrived, drawn, cost>>
  BY DEF world
<1>2. Steps' = Steps /\ Source' = Source /\ TaskType' = TaskType
  BY DEF Steps, Source, TaskType
<1>3. /\ task' \in TaskType /\ task'.index = t.index /\ t.index \in Steps
      /\ \/ pending' = pending
         \/ /\ ran[t.index] = "no"
            /\ \A tx \in pending' :
                  /\ tx.kind = "step" /\ tx.step = t.index /\ tx.amount = t.spend[t.index]
                  /\ tx.calls \in Sendable(t.index, t.spend[t.index])
  BY ExecuteEffect DEF TypeInv, TaskType
<1>4. t.spend[t.index] \in Nat
  BY <1>3 DEF TaskType
<1>5. FrameType' /\ WorldType'
  BY <1>1, <1>2, TypeParts DEF TypeInv, FrameType, WorldType
<1>6. PendingType'
  <2>1. PendingType
    BY TypeParts DEF TypeInv
  <2>2. QED
    BY <1>3, <1>4, <2>1 DEF PendingType
<1>7. ClaimFirst'
  BY <1>1, <1>2, <1>3 DEF TypeInv, ClaimFirst
<1>8. BuiltAsDerived'
  <2>1. CASE pending' = pending
    BY <1>1, <1>2, <1>3, <2>1 DEF TypeInv, BuiltAsDerived, Carries
  <2>2. CASE \A tx \in pending' :
                  /\ tx.kind = "step" /\ tx.step = t.index /\ tx.amount = t.spend[t.index]
                  /\ tx.calls \in Sendable(t.index, t.spend[t.index])
    <3>1. \A tx \in pending' : /\ tx.calls \in DeriveCalls(route[t.index])
                               /\ Watched(route[t.index]) # {}
      BY <2>2 DEF Sendable
    <3>2. QED
      BY <1>1, <1>2, <1>3, <2>2, <3>1 DEF TypeInv, BuiltAsDerived, Carries
  <2>3. QED
    BY <1>3, <2>1, <2>2
<1>9. QED
  BY <1>2, <1>3, <1>5, <1>6, <1>7, <1>8, TypeParts DEF TypeInv

LEMMA FinishedFacts ==
    ASSUME TypeInv, HasFinished(task.index)
    PROVE  /\ ran[task.index] = "ok" /\ pending = {}
           /\ Watched(route[task.index]) # {} /\ LatestBalance(task.index) \in Nat
<1>1. ran[task.index] = "ok"
  BY DEF HasFinished
<1>2. pending = {}
  BY <1>1 DEF TypeInv, ClaimFirst
<1>3. task.index \in Steps
  BY DEF TypeInv, TypeOK
<1>4. Watched(route[task.index]) # {}
  BY <1>1, <1>3 DEF TypeInv, BuiltAsDerived
<1>5. QED
  BY <1>1, <1>2, <1>4, LatestType DEF TypeInv

\* The task as settle and set_spend leave it.
Settled ==
    [task EXCEPT !.index = @ + 1, !.spend[task.index + 1] = Settle(task.index)]

LEMMA SettledType ==
    ASSUME TypeInv, task.index < Len(route), HasFinished(task.index)
    PROVE  /\ Settled \in TaskType /\ Settled.index = task.index + 1
           /\ task.index + 1 \in Steps
           /\ Settled.spend[task.index + 1] = Settle(task.index)
           /\ \A j \in Steps : j # task.index + 1 => Settled.spend[j] = task.spend[j]
           /\ Settled.origin = task.origin
<1>1. task \in TaskType /\ Len(route) \in Nat
  BY TypeParts, RouteType DEF TypeInv, TypeOK
<1>2. task.index \in Nat /\ task.index + 1 \in Steps
  BY <1>1 DEF TaskType, Steps
<1>3. Settle(task.index) \in Nat
  <2>1. LatestBalance(task.index) \in Nat
    BY FinishedFacts
  <2>2. task.origin[task.index] \in Nat \cup {NoBalance}
    BY <1>1 DEF TaskType
  <2>3. NoBalance = -1
    BY DEF NoBalance
  <2> HIDE DEF NoBalance
  <2>4. QED
    BY <2>1, <2>2, <2>3 DEF Settle
<1> HIDE DEF Settle
<1> DEFINE spend == [task.spend EXCEPT ![task.index + 1] = Settle(task.index)]
<1>4. /\ spend \in [Steps -> Nat] /\ spend[task.index + 1] = Settle(task.index)
      /\ \A j \in Steps : j # task.index + 1 => spend[j] = task.spend[j]
  BY <1>1, <1>2, <1>3 DEF TaskType
<1>5. Settled = [task EXCEPT !.index = task.index + 1, !.spend = spend]
  BY <1>1 DEF Settled, TaskType
<1> HIDE DEF spend
<1>6. /\ Settled \in TaskType /\ Settled.index = task.index + 1
      /\ Settled.spend = spend /\ Settled.origin = task.origin
  BY <1>1, <1>2, <1>4, <1>5 DEF TaskType
<1>7. QED
  BY <1>2, <1>4, <1>6

LEMMA ExecutorKeepsTypes ==
    ASSUME TypeInv, RunStep \/ Advance \/ Complete
    PROVE  TypeInv'
<1>1. task \in TaskType
  BY TypeParts DEF TypeInv
<1>2. CASE RunStep
  BY <1>1, <1>2, ExecuteKeepsTypes DEF RunStep
<1>3. CASE Advance
  <2>1. Settled \in TaskType /\ pending = {}
    BY <1>3, SettledType, FinishedFacts DEF Advance
  <2>2. ExecuteStep(Settled)
    BY <1>3 DEF Advance, Settled
  <2>3. QED
    BY <1>3, <2>1, <2>2, ExecuteKeepsTypes DEF Advance
<1>4. CASE Complete
  <2>1. task' \in TaskType /\ task'.index = task.index
    BY <1>1, <1>4 DEF Complete, TaskType
  <2>2. Steps' = Steps /\ Source' = Source /\ TaskType' = TaskType
    BY <1>4 DEF Complete, Steps, Source, TaskType
  <2>3. claimed /\ UNCHANGED <<route, txFee, assets, approved, claimed, pending, given,
                               ran, ledger, transit, arrived, drawn, cost>>
    BY <1>4 DEF Complete, world
  <2>4. TypeOK'
    BY <2>1, <2>2, <2>3, TypeParts DEF TypeInv, FrameType, PendingType, WorldType
  <2>5. ClaimFirst' /\ BuiltAsDerived'
    BY <2>1, <2>2, <2>3 DEF TypeInv, ClaimFirst, BuiltAsDerived, Carries
  <2>6. QED
    BY <2>4, <2>5 DEF TypeInv
<1>5. QED
  BY <1>2, <1>3, <1>4

\* What the inclusion of a claim does, with the transaction and the worker's entry named.
LEMMA IncludeClaimEffect ==
    ASSUME TypeInv, IncludeClaim
    PROVE  \E tx \in pending, own \in SpentFrom(route[1]) :
              /\ tx.kind = "claim" /\ task.index = 1 /\ ~claimed /\ ran[1] = "no"
              /\ claimed' = TRUE /\ pending' = {} /\ Amount - tx.amount \in Nat
              /\ UNCHANGED <<route, txFee, assets, approved, task, given>>
              /\ \/ /\ Source \in EvmChains
                    /\ tx.calls \in DeriveCalls(route[1])
                    /\ Delivers(Source, tx.calls, tx.amount) > 0
                    /\ Deliver(1, tx.calls, tx.amount, Credit(ledger, own, Amount - tx.amount))
                 \/ /\ Source \notin EvmChains
                    /\ ledger' = Credit(ledger, own, Amount)
                    /\ cost' = cost + SubTxFee
                    /\ UNCHANGED <<ran, transit, arrived, drawn>>
<1>1. PICK tx \in pending, own \in SpentFrom(route[1]) :
        /\ tx.kind = "claim" /\ claimed' = TRUE
        /\ IF Source \in EvmChains
           THEN Deliver(1, tx.calls, tx.amount, Credit(ledger, own, Amount - tx.amount))
           ELSE /\ ledger' = Credit(ledger, own, Amount)
                /\ cost' = cost + SubTxFee
                /\ UNCHANGED <<ran, transit, arrived, drawn>>
  BY DEF IncludeClaim
<1>2. task.index = 1 /\ ~claimed /\ ran[1] = "no"
  BY <1>1 DEF TypeInv, ClaimFirst
<1>3. tx.amount \in Nat /\ tx.amount <= Amount
  BY <1>1 DEF TypeInv, TypeOK, BuiltAsDerived
<1>4. Source \in EvmChains => /\ tx.calls \in DeriveCalls(route[1])
                              /\ Delivers(Source, tx.calls, tx.amount) > 0
  BY <1>1, <1>2 DEF TypeInv, BuiltAsDerived, Carries
<1>5. pending' = {} /\ UNCHANGED <<route, txFee, assets, approved, task, given>>
  BY DEF IncludeClaim
<1>6. Amount - tx.amount \in Nat
  BY <1>3
<1>7. QED
  BY <1>1, <1>2, <1>4, <1>5, <1>6

LEMMA IncludeClaimKeepsTypes ==
    ASSUME TypeInv, IncludeClaim
    PROVE  TypeInv'
<1>1. PICK tx \in pending, own \in SpentFrom(route[1]) :
              /\ tx.kind = "claim" /\ task.index = 1 /\ ~claimed /\ ran[1] = "no"
              /\ claimed' = TRUE /\ pending' = {} /\ Amount - tx.amount \in Nat
              /\ UNCHANGED <<route, txFee, assets, approved, task, given>>
              /\ \/ /\ Source \in EvmChains
                    /\ tx.calls \in DeriveCalls(route[1])
                    /\ Delivers(Source, tx.calls, tx.amount) > 0
                    /\ Deliver(1, tx.calls, tx.amount, Credit(ledger, own, Amount - tx.amount))
                 \/ /\ Source \notin EvmChains
                    /\ ledger' = Credit(ledger, own, Amount)
                    /\ cost' = cost + SubTxFee
                    /\ UNCHANGED <<ran, transit, arrived, drawn>>
  BY IncludeClaimEffect
<1>2. Steps' = Steps /\ Source' = Source /\ TaskType' = TaskType
  BY <1>1 DEF Steps, Source, TaskType
<1>3. TypeOK /\ Sound(ledger) /\ 1 \in Steps /\ tx.amount \in Nat
  BY RouteType DEF TypeInv, TypeOK, Sound
<1>4. ASSUME NEW amount \in Nat
      PROVE  Sound(Credit(ledger, own, amount))
  <2>1. Balance(ledger, own) \in Nat /\ amount \in Int
    BY <1>3, BalanceType
  <2>2. Balance(ledger, own) + amount \in Nat
    BY <2>1
  <2>3. QED
    BY <1>3, <2>1, <2>2, CreditBalance DEF Credited
<1>5. WorldType'
  <2>1. CASE Source \in EvmChains
    <3>1. route[1][1].src = Source
      BY DEF Source
    <3>2. QED
      BY <1>1, <1>3, <1>4, <2>1, <3>1, DeliverType
  <2>2. CASE Source \notin EvmChains
    <3>1. Sound(ledger')
      BY <1>1, <1>4, <2>2
    <3>2. cost' \in Nat
      BY <1>1, <1>3, <2>2 DEF TypeOK, SubTxFee
    <3>3. QED
      BY <1>1, <1>2, <1>3, <2>2, <3>1, <3>2 DEF TypeOK, WorldType, Sound
  <2>3. QED
    BY <2>1, <2>2
<1>6. TypeOK'
  BY <1>1, <1>2, <1>5, TypeParts DEF TypeInv, FrameType, PendingType
<1>7. ClaimFirst'
  BY <1>1 DEF ClaimFirst
<1>8. BuiltAsDerived'
  <2>1. Source \in EvmChains => Watched(route[1]) # {}
    BY <1>1 DEF TypeInv, BuiltAsDerived, Carries
  <2>2. \A i \in Steps : ran'[i] = "ok" => ran[i] = "ok" \/ (i = 1 /\ Source \in EvmChains)
    BY <1>1, <1>3 DEF TypeOK, Deliver
  <2>3. QED
    BY <1>1, <1>2, <2>1, <2>2 DEF TypeInv, BuiltAsDerived
<1>9. QED
  BY <1>6, <1>7, <1>8 DEF TypeInv

\* The same for a step.
LEMMA IncludeStepEffect ==
    ASSUME TypeInv, IncludeStep
    PROVE  \E tx \in pending, own \in SpentFrom(route[task.index]) :
              /\ tx.kind = "step" /\ tx.step = task.index /\ claimed /\ ran[task.index] = "no"
              /\ tx.calls \in DeriveCalls(route[task.index]) /\ Watched(route[task.index]) # {}
              /\ pending' = {}
              /\ UNCHANGED <<route, txFee, assets, approved, task, claimed, given>>
              /\ \/ /\ Balance(ledger, own) >= tx.amount
                    /\ Delivers(route[task.index][1].src, tx.calls, tx.amount) > 0
                    /\ Deliver(task.index, tx.calls, tx.amount, Credit(ledger, own, -tx.amount))
                 \/ /\ ~(/\ Balance(ledger, own) >= tx.amount
                         /\ route[task.index][1].src \in EvmChains =>
                               HandlerPays(drawn, route[task.index][1].src, tx.calls)
                         /\ Delivers(route[task.index][1].src, tx.calls, tx.amount) > 0)
                    /\ ran' = [ran EXCEPT ![task.index] = "failed"]
                    /\ UNCHANGED <<ledger, transit, arrived, drawn, cost>>
<1>1. PICK tx \in pending, own \in SpentFrom(route[task.index]) :
        /\ tx.kind = "step"
        /\ IF /\ Balance(ledger, own) >= tx.amount
              /\ route[tx.step][1].src \in EvmChains =>
                    HandlerPays(drawn, route[tx.step][1].src, tx.calls)
              /\ Delivers(route[tx.step][1].src, tx.calls, tx.amount) > 0
           THEN Deliver(tx.step, tx.calls, tx.amount, Credit(ledger, own, -tx.amount))
           ELSE /\ ran' = [ran EXCEPT ![tx.step] = "failed"]
                /\ UNCHANGED <<ledger, transit, arrived, drawn, cost>>
  BY DEF IncludeStep
<1>2. claimed /\ ran[task.index] = "no" /\ tx.step = task.index
  BY <1>1 DEF TypeInv, ClaimFirst, TypeOK
<1>3. tx.calls \in DeriveCalls(route[task.index]) /\ Watched(route[task.index]) # {}
  BY <1>1 DEF TypeInv, BuiltAsDerived, Carries
<1>4. pending' = {} /\ UNCHANGED <<route, txFee, assets, approved, task, claimed, given>>
  BY DEF IncludeStep
<1>5. QED
  BY <1>1, <1>2, <1>3, <1>4

LEMMA IncludeStepKeepsTypes ==
    ASSUME TypeInv, IncludeStep
    PROVE  TypeInv'
<1>1. PICK tx \in pending, own \in SpentFrom(route[task.index]) :
              /\ tx.kind = "step" /\ tx.step = task.index /\ claimed /\ ran[task.index] = "no"
              /\ tx.calls \in DeriveCalls(route[task.index]) /\ Watched(route[task.index]) # {}
              /\ pending' = {}
              /\ UNCHANGED <<route, txFee, assets, approved, task, claimed, given>>
              /\ \/ /\ Balance(ledger, own) >= tx.amount
                    /\ Delivers(route[task.index][1].src, tx.calls, tx.amount) > 0
                    /\ Deliver(task.index, tx.calls, tx.amount, Credit(ledger, own, -tx.amount))
                 \/ /\ ~(/\ Balance(ledger, own) >= tx.amount
                         /\ route[task.index][1].src \in EvmChains =>
                               HandlerPays(drawn, route[task.index][1].src, tx.calls)
                         /\ Delivers(route[task.index][1].src, tx.calls, tx.amount) > 0)
                    /\ ran' = [ran EXCEPT ![task.index] = "failed"]
                    /\ UNCHANGED <<ledger, transit, arrived, drawn, cost>>
  BY IncludeStepEffect
<1>2. Steps' = Steps /\ Source' = Source /\ TaskType' = TaskType
  BY <1>1 DEF Steps, Source, TaskType
<1>3. TypeOK /\ Sound(ledger) /\ task.index \in Steps /\ tx.amount \in Nat
  BY DEF TypeInv, TypeOK, Sound
<1>4. WorldType'
  <2>1. CASE /\ Balance(ledger, own) >= tx.amount
             /\ Delivers(route[task.index][1].src, tx.calls, tx.amount) > 0
             /\ Deliver(task.index, tx.calls, tx.amount, Credit(ledger, own, -tx.amount))
    <3>1. Balance(ledger, own) + (-tx.amount) \in Nat /\ -tx.amount \in Int
      BY <1>3, <2>1, BalanceType
    <3>2. Sound(Credit(ledger, own, -tx.amount))
      BY <1>3, <3>1, CreditBalance DEF Credited
    <3>3. QED
      BY <1>1, <1>3, <2>1, <3>2, DeliverType
  <2>2. CASE /\ ran' = [ran EXCEPT ![task.index] = "failed"]
             /\ UNCHANGED <<ledger, transit, arrived, drawn, cost>>
    BY <1>1, <1>2, <1>3, <2>2 DEF TypeOK, WorldType, Sound
  <2>3. QED
    BY <1>1, <2>1, <2>2
<1>5. TypeOK'
  BY <1>1, <1>2, <1>4, TypeParts DEF TypeInv, FrameType, PendingType
<1>6. ClaimFirst'
  BY <1>1 DEF ClaimFirst
<1>7. BuiltAsDerived'
  <2>1. \A i \in Steps : ran'[i] = "ok" => ran[i] = "ok" \/ i = task.index
    BY <1>1, <1>3 DEF TypeOK, Deliver
  <2>2. QED
    BY <1>1, <1>2, <2>1 DEF TypeInv, BuiltAsDerived
<1>8. QED
  BY <1>5, <1>6, <1>7 DEF TypeInv

LEMMA ArriveEffect ==
    ASSUME TypeInv, NEW t \in transit,
           ledger' = Credit(ledger, t.entry, t.amount)
    PROVE  /\ t.amount \in Nat \ {0} /\ t.step \in Steps
           /\ Credited(ledger, t.entry, t.amount, ledger')
<1>1. Sound(ledger) /\ t.amount \in Nat \ {0} /\ t.step \in Steps
  BY DEF TypeInv, TypeOK, Sound
<1>2. Balance(ledger, t.entry) \in Nat /\ t.amount \in Int
  BY <1>1, BalanceType
<1>3. Balance(ledger, t.entry) + t.amount \in Nat
  BY <1>1, <1>2
<1>4. QED
  BY <1>1, <1>2, <1>3, CreditBalance

LEMMA ArriveKeepsTypes ==
    ASSUME TypeInv, Arrive
    PROVE  TypeInv'
<1>1. PICK t \in transit :
        /\ ledger' = Credit(ledger, t.entry, t.amount)
        /\ arrived' = [arrived EXCEPT ![t.step] = t.amount]
        /\ transit' = transit \ {t}
  BY DEF Arrive
<1>2. UNCHANGED <<route, txFee, assets, approved, task, claimed, pending, ran, given, drawn, cost>>
  BY DEF Arrive
<1>3. Steps' = Steps /\ Source' = Source /\ TaskType' = TaskType
  BY <1>2 DEF Steps, Source, TaskType
<1>4. Sound(ledger') /\ t.amount \in Nat \ {0} /\ t.step \in Steps
  BY <1>1, ArriveEffect DEF Credited
<1>5. WorldType'
  BY <1>1, <1>2, <1>3, <1>4 DEF TypeInv, TypeOK, WorldType, Sound
<1>6. TypeOK'
  BY <1>2, <1>3, <1>5, TypeParts DEF TypeInv, FrameType, PendingType
<1>7. ClaimFirst' /\ BuiltAsDerived'
  BY <1>2, <1>3 DEF TypeInv, ClaimFirst, BuiltAsDerived, Carries
<1>8. QED
  BY <1>6, <1>7 DEF TypeInv

\* Somebody pays the recipient of step i.
LEMMA GiftEffect ==
    ASSUME TypeInv, Gift
    PROVE  \E i \in Steps, amount \in Nat \ {0} : \E g :
              /\ Goal(route[i]) = {g}
              /\ given' = [given EXCEPT ![i] = amount]
              /\ given[i] = 0
              /\ Credited(ledger, g, amount, ledger')
              /\ UNCHANGED <<route, txFee, assets, approved, task, claimed, pending, ran, transit,
                             arrived, drawn, cost>>
<1>0. PICK i \in Steps, amount \in Gifts \ {0} : \E e \in Watched(route[i]) :
        /\ ledger' = Credit(ledger, Canonical(e), amount)
        /\ given' = [given EXCEPT ![i] = amount]
  BY DEF Gift
<1>1. PICK e \in Watched(route[i]) :
        /\ ledger' = Credit(ledger, Canonical(e), amount)
        /\ given' = [given EXCEPT ![i] = amount]
  BY <1>0
<1>2. Goal(route[i]) = {Canonical(e)}
  BY <1>1, OneWatched
<1>3. Sound(ledger) /\ amount \in Nat \ {0} /\ amount \in Int
  <2>1. Sound(ledger)
    BY DEF TypeInv, TypeOK, Sound
  <2>2. QED
    BY <2>1
<1>4. Balance(ledger, Canonical(e)) + amount \in Nat
  <2>1. Balance(ledger, Canonical(e)) \in Nat
    BY <1>3, BalanceType
  <2>2. QED
    BY <1>3, <2>1
<1>5. Credited(ledger, Canonical(e), amount, ledger')
  BY <1>1, <1>3, <1>4, CreditBalance
<1>6. given[i] = 0 /\ UNCHANGED <<route, txFee, assets, approved, task, claimed, pending, ran,
                                  transit, arrived, drawn, cost>>
  BY DEF Gift
<1>7. QED
  BY <1>1, <1>2, <1>3, <1>5, <1>6

LEMMA GiftKeepsTypes ==
    ASSUME TypeInv, Gift
    PROVE  TypeInv'
<1>1. PICK i \in Steps, amount \in Nat \ {0} :
              /\ given' = [given EXCEPT ![i] = amount]
              /\ Sound(ledger')
              /\ UNCHANGED <<route, txFee, assets, approved, task, claimed, pending, ran, transit,
                             arrived, drawn, cost>>
  BY GiftEffect DEF Credited
<1>2. Steps' = Steps /\ Source' = Source /\ TaskType' = TaskType
  BY <1>1 DEF Steps, Source, TaskType
<1>3. TypeOK'
  BY <1>1, <1>2, TypeParts DEF TypeInv, FrameType, PendingType, WorldType
<1>4. ClaimFirst' /\ BuiltAsDerived'
  BY <1>1, <1>2 DEF TypeInv, ClaimFirst, BuiltAsDerived, Carries
<1>5. QED
  BY <1>3, <1>4 DEF TypeInv

LEMMA OwnerKeepsTypes ==
    ASSUME TypeInv, RegisterAsset \/ WorkerApprove
    PROVE  TypeInv'
<1>1. UNCHANGED <<route, txFee, task, claimed, pending, given, ran, ledger, transit, arrived, drawn, cost>>
  BY DEF RegisterAsset, WorkerApprove, world
<1>2. Steps' = Steps /\ Source' = Source /\ TaskType' = TaskType
  BY <1>1 DEF Steps, Source, TaskType
<1>3. /\ assets' \subseteq RegisteredAssets \cup {<<route[i][1].src, route[i][1].spend>> : i \in Steps}
      /\ approved' \subseteq {<<route[i][1].src, route[i][1].spend>> : i \in Steps}
  <2>1. CASE RegisterAsset
    BY <2>1 DEF TypeInv, TypeOK, RegisterAsset
  <2>2. CASE WorkerApprove
    BY <2>2 DEF TypeInv, TypeOK, WorkerApprove
  <2>3. QED
    BY <2>1, <2>2
<1>4. TypeOK'
  BY <1>1, <1>2, <1>3, TypeParts DEF TypeInv, FrameType, PendingType, WorldType
<1>5. ClaimFirst' /\ BuiltAsDerived'
  BY <1>1, <1>2 DEF TypeInv, ClaimFirst, BuiltAsDerived, Carries
<1>6. QED
  BY <1>4, <1>5 DEF TypeInv

LEMMA InitTypes == Init => TypeInv
<1> SUFFICES ASSUME Init PROVE TypeInv
  OBVIOUS
<1>1. route \in Routes /\ 1 \in Steps
  BY RouteType DEF Init
<1>2. \A e \in DOMAIN ledger : ledger[e] \in Nat
  BY DEF Init
<1>3. task \in TaskType
  BY <1>1 DEF Init, TaskType
<1>4. TypeOK
  BY <1>1, <1>2, <1>3, TypeParts DEF Init, FrameType, PendingType, WorldType, Sound
<1>5. ClaimFirst /\ BuiltAsDerived
  BY DEF Init, ClaimFirst, BuiltAsDerived
<1>6. QED
  BY <1>4, <1>5 DEF TypeInv

LEMMA NextTypes == TypeInv /\ [Next]_vars => TypeInv'
<1> SUFFICES ASSUME TypeInv, [Next]_vars PROVE TypeInv'
  OBVIOUS
<1>1. CASE UNCHANGED vars
  <2>1. UNCHANGED <<route, txFee, assets, approved, task, claimed, pending, given, ran, ledger,
                    transit, arrived, drawn, cost>>
    BY <1>1 DEF vars, world
  <2>2. Steps' = Steps /\ Source' = Source /\ TaskType' = TaskType
    BY <2>1 DEF Steps, Source, TaskType
  <2>3. TypeOK'
    BY <2>1, <2>2, TypeParts DEF TypeInv, FrameType, PendingType, WorldType
  <2>4. ClaimFirst' /\ BuiltAsDerived'
    BY <2>1, <2>2 DEF TypeInv, ClaimFirst, BuiltAsDerived, Carries
  <2>5. QED
    BY <2>3, <2>4 DEF TypeInv
<1>2. QED
  BY <1>1, ClaimKeepsTypes, ExecutorKeepsTypes, IncludeClaimKeepsTypes, IncludeStepKeepsTypes,
     ArriveKeepsTypes, GiftKeepsTypes, OwnerKeepsTypes DEF Next, Execute, ChainStep

\* Whatever the tables say: balances are never negative, an EVM claim leaves something, a
\* step that was settled had a recipient whose balance can be read.
THEOREM DeliveryTypeCorrect == Spec => []TypeOK
<1>1. Init => TypeInv
  BY InitTypes
<1>2. TypeInv /\ [Next]_vars => TypeInv'
  BY NextTypes
<1>3. TypeInv => TypeOK
  BY DEF TypeInv
<1>4. QED
  BY <1>1, <1>2, <1>3, PTL DEF Spec

-----------------------------------------------------------------------------
(***************************************************************************)
(* What each step delivers is seen, and passed on: given that the tables    *)
(* agree and that no entry gets what two steps deliver.                     *)
(***************************************************************************)
RoutesFit == \A r \in Routes : TablesAgree(r) /\ Separate(r)

LEMMA LatestNext ==
    ASSUME NEW i, NEW g, Goal(route[i]) = {g}, UNCHANGED route
    PROVE  LatestBalance(i)' = Balance(ledger', g)
<1>1. Watched(route[i]) # {}
  BY DEF Goal
<1>2. PICK e : Watched(route[i]) = {e} /\ Goal(route[i]) = {Canonical(e)}
  BY <1>1, OneWatched
<1>3. Canonical(e) = g
  BY <1>2
<1>4. {Balance(ledger', Canonical(x)) : x \in Watched(route[i])} = {Balance(ledger', g)}
  BY <1>2, <1>3
<1>5. LatestBalance(i)'
        = CHOOSE balance \in {Balance(ledger', Canonical(x)) : x \in Watched(route[i])} : TRUE
  BY DEF LatestBalance
<1>6. QED
  BY <1>4, <1>5

LEMMA GoalExists ==
    ASSUME NEW i, Watched(route[i]) # {}
    PROVE  \E g : Goal(route[i]) = {g}
  BY OneWatched

\* What Noted says of step i.
NotedOf(i) ==
    /\ task.origin[i] # NoBalance
    /\ task.origin[i] + arrived[i] <= LatestBalance(i)
    /\ LatestBalance(i) <= task.origin[i] + arrived[i] + given[i]

\* What arrives adds to the balance and to what has arrived alike.
LEMMA GrowTogether ==
    ASSUME NEW o \in Nat, NEW a \in Nat, NEW b \in Nat, NEW g \in Nat, NEW d \in Nat,
           o + a <= b, b <= o + a + g
    PROVE  o + (a + d) <= b + d /\ b + d <= o + (a + d) + g
  OBVIOUS

\* Step i delivers to an entry of its own.
LEMMA GoalsApart ==
    ASSUME Separate(route), NEW i \in Steps, NEW j \in Steps, i # j,
           NEW g, NEW h, Goal(route[i]) = {g}, Goal(route[j]) = {h}
    PROVE  g # h
<1>1. Goal(route[i]) \cap (SpentFrom(route[i]) \cup Goal(route[j])) = {}
  BY DEF Separate, Steps
<1>2. QED
  BY <1>1

LEMMA GoalNotSpent ==
    ASSUME Separate(route), NEW i \in Steps, NEW g, Goal(route[i]) = {g}
    PROVE  g \notin SpentFrom(route[i])
<1>1. Goal(route[i]) \cap SpentFrom(route[i]) = {}
  BY DEF Separate, Steps
<1>2. QED
  BY <1>1

LEMMA ExecuteKeepsNoted ==
    ASSUME TypeInv, InTurn, NEW t \in TaskType, ExecuteStep(t), ran[t.index] = "no",
           t.index = task.index \/ pending = {},
           UNCHANGED <<route, world, given>>
    PROVE  Noted'
<1> DEFINE i == t.index
<1>1. TypeOK
  BY DEF TypeInv
<1>2. /\ task'.index = i /\ i \in Steps /\ ran[i] = "no" /\ ran' = ran
      /\ UNCHANGED <<route, ledger, arrived, given>>
  BY <1>1, ExecuteEffect DEF TaskType, world
<1> SUFFICES ASSUME NEW tx \in pending', Carries(tx)'
             PROVE  NotedOf(i)'
  BY <1>2 DEF Noted, NotedOf
<1>3. DeriveCalls(route[i]) # {} /\ Watched(route[i]) # {}
  <2>1. CASE tx \in pending
    BY <1>2, <2>1 DEF TypeInv, BuiltAsDerived, Carries, Source
  <2>2. CASE tx \notin pending
    <3>1. tx.calls \in Sendable(i, t.spend[i])
      BY <1>1, <1>2, <2>2, ExecuteEffect
    <3>2. QED
      BY <3>1 DEF Sendable
  <2>3. QED
    BY <2>1, <2>2
<1>4. task'.origin[i] = LatestBalance(i)
  BY <1>1, <1>2, <1>3, ExecuteEffect
<1>5. PICK g : Goal(route[i]) = {g}
  BY <1>3, GoalExists
<1>6. LatestBalance(i) = Balance(ledger, g) /\ LatestBalance(i)' = Balance(ledger', g)
  BY <1>2, <1>5, LatestIsGoal, LatestNext
<1>7. LatestBalance(i) \in Nat
  BY <1>1, <1>3, LatestType
<1>8. arrived'[i] = 0 /\ given'[i] \in Nat
  BY <1>1, <1>2 DEF InTurn, TypeOK
<1>9. task'.origin[i] = LatestBalance(i)' /\ task'.origin[i] \in Nat
  BY <1>2, <1>4, <1>6, <1>7
<1> HIDE DEF i
<1>10. QED
  BY <1>8, <1>9 DEF NotedOf, NoBalance

LEMMA ClaimKeepsDelivery ==
    ASSUME TypeInv, DeliveryInv, Claim
    PROVE  DeliveryInv'
<1>1. UNCHANGED <<route, claimed, ran, ledger, transit, arrived, given>>
  BY DEF Claim, world
<1>2. PICK fee \in Nat :
        /\ fee < Amount /\ task' = ClaimedTask(fee)
        /\ \/ /\ Source \in EvmChains /\ pending' = pending
           \/ /\ Source \in EvmChains
              /\ \A tx \in pending' : Watched(route[1]) # {}
           \/ /\ Source \notin EvmChains
              /\ \A tx \in pending' : tx.kind = "claim"
  BY ClaimEffect
<1>3. TypeOK /\ ~claimed /\ task.index = 1 /\ ran[1] = "no" /\ 1 \in Steps
  BY RouteType, ClaimEffect DEF TypeInv, TypeOK, ClaimFirst
<1>4. task'.index = 1
  BY <1>2, <1>3, ClaimedTaskType
<1>5. Steps' = Steps /\ Source' = Source
  BY <1>1 DEF Steps, Source
<1>6. InTurn'
  BY <1>1, <1>3, <1>4, <1>5 DEF DeliveryInv, InTurn
<1>7. SettledWhole'
  BY <1>4 DEF SettledWhole
<1>8. Noted'
  <2> SUFFICES ASSUME NEW tx \in pending', Carries(tx)'
               PROVE  NotedOf(1)'
    BY <1>1, <1>3, <1>4 DEF Noted, NotedOf
  <2>1. Source \in EvmChains /\ Watched(route[1]) # {}
    <3>1. CASE Source \in EvmChains /\ pending' = pending
      BY <1>3, <3>1 DEF TypeInv, BuiltAsDerived, Carries
    <3>2. CASE ~(Source \in EvmChains /\ pending' = pending)
      BY <1>2, <1>5, <3>2 DEF Carries
    <3>3. QED
      BY <3>1, <3>2
  <2>2. task'.origin[1] = LatestBalance(1)
    BY <1>2, <1>3, <2>1, ClaimedTaskType
  <2>3. PICK g : Goal(route[1]) = {g}
    BY <2>1, GoalExists
  <2>4. LatestBalance(1) = Balance(ledger, g) /\ LatestBalance(1)' = Balance(ledger', g)
    BY <1>1, <2>3, LatestIsGoal, LatestNext
  <2>5. LatestBalance(1) \in Nat
    BY <1>3, <2>1, LatestType
  <2>6. arrived'[1] = 0 /\ given'[1] \in Nat
    BY <1>1, <1>3 DEF DeliveryInv, InTurn, TypeOK
  <2>7. task'.origin[1] = LatestBalance(1)' /\ task'.origin[1] \in Nat
    BY <1>1, <2>2, <2>4, <2>5
  <2>8. QED
    BY <2>6, <2>7 DEF NotedOf, NoBalance
<1>9. QED
  BY <1>6, <1>7, <1>8 DEF DeliveryInv

LEMMA RunStepKeepsDelivery ==
    ASSUME TypeInv, DeliveryInv, RunStep
    PROVE  DeliveryInv'
<1>1. /\ ExecuteStep(task) /\ UNCHANGED <<route, txFee, assets, approved, claimed, world, given>>
      /\ UNCHANGED <<route, ran, ledger, transit, arrived, given>>
  BY DEF RunStep, world
<1>2. TypeOK /\ task \in TaskType /\ task.index \in Steps
  BY DEF TypeInv, TypeOK, TaskType
<1>3. task'.index = task.index /\ task'.spend = task.spend
  BY <1>1, <1>2, ExecuteEffect
<1>4. Steps' = Steps
  BY <1>1 DEF Steps
<1>5. InTurn'
  BY <1>1, <1>3, <1>4 DEF DeliveryInv, InTurn
<1>6. SettledWhole'
  BY <1>1, <1>3 DEF DeliveryInv, SettledWhole
<1>7. Noted'
  <2>1. CASE ran[task.index] = "no"
    BY <1>1, <1>2, <2>1, ExecuteKeepsNoted DEF DeliveryInv
  <2>2. CASE ran[task.index] # "no"
    <3>1. task' = task /\ pending' = pending
      BY <1>1, <1>2, <2>2, ExecuteEffect
    <3>2. QED
      BY <1>1, <3>1 DEF DeliveryInv, Noted, Carries, LatestBalance, Source
  <2>3. QED
    BY <2>1, <2>2
<1>8. QED
  BY <1>5, <1>6, <1>7 DEF DeliveryInv

\* What settle takes for the gain of the current step.
LEMMA SettleGain ==
    ASSUME TypeInv, DeliveryInv, HasFinished(task.index)
    PROVE  /\ Settle(task.index) <= arrived[task.index] + given[task.index]
           /\ given[task.index] = 0 =>
                 /\ Settle(task.index) = arrived[task.index]
                 /\ \A t \in transit : t.step # task.index
<1> DEFINE i == task.index
<1>1. ran[i] = "ok" /\ LatestBalance(i) \in Nat /\ i \in Steps
  BY FinishedFacts DEF TypeInv, TypeOK
<1>2. arrived[i] \in Nat /\ given[i] \in Nat /\ task.origin[i] \in Nat \cup {NoBalance}
  BY <1>1 DEF TypeInv, TypeOK
<1>3. /\ task.origin[i] \in Nat
      /\ task.origin[i] + arrived[i] <= LatestBalance(i)
      /\ LatestBalance(i) <= task.origin[i] + arrived[i] + given[i]
  BY <1>1, <1>2 DEF DeliveryInv, Noted
<1>4. Settle(i) = IF LatestBalance(i) > task.origin[i] THEN LatestBalance(i) - task.origin[i] ELSE 0
  BY DEF Settle
<1>5. \A t \in transit : t.step = i => arrived[i] = 0 /\ LatestBalance(i) > task.origin[i]
  BY DEF DeliveryInv, InTurn, HasFinished
<1> HIDE DEF i
<1>6. Settle(i) <= arrived[i] + given[i]
  BY <1>1, <1>2, <1>3, <1>4
<1>7. given[i] = 0 => Settle(i) = arrived[i] /\ \A t \in transit : t.step # i
  BY <1>1, <1>2, <1>3, <1>4, <1>5
<1>8. QED
  BY <1>6, <1>7 DEF i

LEMMA AdvanceKeepsDelivery ==
    ASSUME TypeInv, DeliveryInv, Advance
    PROVE  DeliveryInv'
<1> DEFINE i == task.index
<1>1. /\ ExecuteStep(Settled) /\ UNCHANGED <<route, world, given>>
      /\ UNCHANGED <<route, ran, ledger, transit, arrived, given>>
      /\ i < Len(route) /\ HasFinished(i)
  BY DEF Advance, Settled, world
<1>2. /\ TypeOK /\ Settled \in TaskType /\ Settled.index = i + 1 /\ i \in Nat /\ i + 1 \in Steps
      /\ i \in Steps /\ ran[i] = "ok" /\ pending = {}
  BY <1>1, SettledType, FinishedFacts, RouteType DEF TypeInv, TypeOK
<1>3. /\ task'.index = i + 1 /\ task'.spend[i + 1] = Settle(i)
      /\ \A j \in Steps : j # i + 1 => task'.spend[j] = task.spend[j]
  BY <1>1, <1>2, ExecuteEffect, SettledType DEF TypeInv
<1>4. Steps' = Steps /\ \A j \in Steps : j \in Nat
  BY <1>1, <1>2, RouteType DEF Steps, TypeOK
<1>5. ran[i + 1] = "no"
  BY <1>2 DEF DeliveryInv, InTurn
<1>6. InTurn'
  <2>1. \A j \in Steps : /\ j < i + 1 => ran[j] = "ok"
                         /\ j > i + 1 => ran[j] = "no"
    BY <1>2, <1>4 DEF DeliveryInv, InTurn
  <2>2. \A j \in Steps : /\ ran[j] # "ok" => arrived[j] = 0
                         /\ ran[j] = "ok" /\ arrived[j] = 0 => \E t \in transit : t.step = j
    BY DEF DeliveryInv, InTurn
  <2>3. /\ \A t \in transit : /\ ran[t.step] = "ok" /\ arrived[t.step] = 0
                               /\ IsBridgeStep(route[t.step])
                               /\ Goal(route[t.step]) = {t.entry}
        /\ \A t, u \in transit : t.step = u.step => t = u
    BY DEF DeliveryInv, InTurn
  <2>4. /\ task'.index = i + 1 /\ Steps' = Steps
        /\ route' = route /\ ran' = ran /\ transit' = transit /\ arrived' = arrived
    BY <1>1, <1>3, <1>4
  <2> HIDE DEF i
  <2>5. QED
    BY <2>1, <2>2, <2>3, <2>4 DEF InTurn
<1>7. SettledWhole'
  <2> SUFFICES ASSUME NEW j \in 1..i
               PROVE  /\ task'.spend[j + 1] <= arrived[j] + given[j]
                      /\ given[j] = 0 => /\ task'.spend[j + 1] = arrived[j]
                                         /\ \A t \in transit : t.step # j
    BY <1>1, <1>2, <1>3 DEF SettledWhole
  <2>1. CASE j = i
    BY <1>1, <1>3, <2>1, SettleGain
  <2>2. CASE j # i
    <3>1. j \in 1..(i - 1) /\ j + 1 \in Steps /\ j + 1 # i + 1
      BY <1>2, <2>2 DEF Steps
    <3>2. task'.spend[j + 1] = task.spend[j + 1]
      BY <1>3, <3>1
    <3>3. QED
      BY <3>1, <3>2 DEF DeliveryInv, SettledWhole
  <2>3. QED
    BY <2>1, <2>2
<1>8. Noted'
  BY <1>1, <1>2, <1>5, ExecuteKeepsNoted DEF DeliveryInv
<1>9. QED
  BY <1>6, <1>7, <1>8 DEF DeliveryInv

LEMMA OthersKeepDelivery ==
    ASSUME TypeInv, DeliveryInv, Complete \/ RegisterAsset \/ WorkerApprove \/ UNCHANGED vars
    PROVE  DeliveryInv'
<1>1. /\ UNCHANGED <<route, pending, ran, ledger, transit, arrived, given>>
      /\ task'.index = task.index /\ task'.spend = task.spend /\ task'.origin = task.origin
  BY DEF TypeInv, TypeOK, Complete, RegisterAsset, WorkerApprove, vars, world
<1>2. Steps' = Steps /\ Source' = Source
  BY <1>1 DEF Steps, Source
<1>3. InTurn'
  BY <1>1, <1>2 DEF DeliveryInv, InTurn
<1>4. Noted'
  BY <1>1, <1>2 DEF DeliveryInv, Noted, Carries, LatestBalance
<1>5. SettledWhole'
  BY <1>1 DEF DeliveryInv, SettledWhole
<1>6. QED
  BY <1>3, <1>4, <1>5 DEF DeliveryInv

LEMMA ArriveKeepsDelivery ==
    ASSUME TypeInv, DeliveryInv, Separate(route), Arrive
    PROVE  DeliveryInv'
<1>1. PICK t \in transit :
        /\ ledger' = Credit(ledger, t.entry, t.amount)
        /\ arrived' = [arrived EXCEPT ![t.step] = t.amount]
        /\ transit' = transit \ {t}
  BY DEF Arrive
<1>2. UNCHANGED <<route, task, pending, ran, given>>
  BY DEF Arrive
<1>3. /\ t.amount \in Nat \ {0} /\ t.step \in Steps
      /\ Credited(ledger, t.entry, t.amount, ledger')
  BY <1>1, ArriveEffect
<1>4. /\ ran[t.step] = "ok" /\ arrived[t.step] = 0 /\ Goal(route[t.step]) = {t.entry}
      /\ \A u \in transit : u.step = t.step => u = t
  BY DEF DeliveryInv, InTurn
<1>5. Steps' = Steps /\ Source' = Source
  BY <1>2 DEF Steps, Source
<1>6. /\ arrived \in [Steps -> Nat] /\ arrived'[t.step] = t.amount
      /\ \A j \in Steps : j # t.step => arrived'[j] = arrived[j]
  BY <1>1, <1>3 DEF TypeInv, TypeOK
<1>7. InTurn'
  <2>1. \A j \in Steps : /\ j < task.index => ran[j] = "ok"
                         /\ j > task.index => ran[j] = "no"
                         /\ ran[j] # "ok" => arrived'[j] = 0
    BY <1>4, <1>6 DEF DeliveryInv, InTurn
  <2>2. ASSUME NEW j \in Steps, ran[j] = "ok", arrived'[j] = 0
        PROVE  \E u \in transit' : u.step = j
    <3>1. j # t.step /\ arrived[j] = 0
      BY <1>3, <1>6, <2>2
    <3>2. QED
      BY <1>1, <2>2, <3>1 DEF DeliveryInv, InTurn
  <2>3. ASSUME NEW u \in transit'
        PROVE  /\ ran[u.step] = "ok" /\ arrived'[u.step] = 0 /\ IsBridgeStep(route[u.step])
               /\ Goal(route[u.step]) = {u.entry}
    <3>1. u \in transit /\ u.step # t.step /\ u.step \in Steps
      BY <1>1, <1>4 DEF TypeInv, TypeOK
    <3>2. QED
      BY <1>6, <3>1 DEF DeliveryInv, InTurn
  <2>4. \A u, v \in transit' : u.step = v.step => u = v
    BY <1>1 DEF DeliveryInv, InTurn
  <2>5. QED
    BY <1>2, <1>5, <2>1, <2>2, <2>3, <2>4 DEF InTurn
<1>8. Noted'
  <2>0. PICK i \in Steps : i = task.index
    BY DEF TypeInv, TypeOK
  <2> SUFFICES ASSUME ran[i] = "ok" \/ \E tx \in pending : Carries(tx)
               PROVE  NotedOf(i)'
    BY <1>2, <1>5, <2>0 DEF Noted, NotedOf, Carries
  <2>1. NotedOf(i) /\ i \in Steps /\ TypeOK
    BY <2>0 DEF DeliveryInv, Noted, NotedOf, TypeInv, TypeOK
  <2>2. Watched(route[i]) # {}
    BY <2>0 DEF TypeInv, BuiltAsDerived
  <2>3. PICK g : Goal(route[i]) = {g}
    BY <2>2, GoalExists
  <2>4. LatestBalance(i) = Balance(ledger, g) /\ LatestBalance(i)' = Balance(ledger', g)
    BY <1>2, <2>3, LatestIsGoal, LatestNext
  <2>5. LatestBalance(i) \in Nat /\ arrived[i] \in Nat /\ given[i] \in Nat
        /\ task.origin[i] \in Nat \cup {NoBalance}
    BY <2>1, <2>2, LatestType DEF TypeOK
  <2>6. CASE t.step = i
    <3>1. g = t.entry
      BY <1>4, <2>3, <2>6
    <3>2. LatestBalance(i)' = LatestBalance(i) + t.amount /\ arrived'[i] = arrived[i] + t.amount
      BY <1>3, <1>4, <1>6, <2>4, <2>6, <3>1 DEF Credited
    <3>3. task.origin[i] \in Nat
      BY <2>1, <2>5 DEF NotedOf
    <3>4. /\ task.origin[i] + (arrived[i] + t.amount) <= LatestBalance(i) + t.amount
          /\ LatestBalance(i) + t.amount <= task.origin[i] + (arrived[i] + t.amount) + given[i]
      BY <1>3, <2>1, <2>5, <3>3, GrowTogether DEF NotedOf
    <3>5. task'.origin[i] # NoBalance /\ task' = task /\ given' = given
      BY <1>2, <2>1 DEF NotedOf
    <3>6. QED
      BY <3>2, <3>4, <3>5 DEF NotedOf
  <2>7. CASE t.step # i
    <3>1. g # t.entry
      BY <1>3, <1>4, <2>1, <2>3, <2>7, GoalsApart
    <3>2. LatestBalance(i)' = LatestBalance(i) /\ arrived'[i] = arrived[i]
      BY <1>3, <1>6, <2>1, <2>4, <2>7, <3>1 DEF Credited
    <3>3. QED
      BY <1>2, <2>1, <3>2 DEF NotedOf
  <2>8. QED
    BY <2>6, <2>7
<1>9. SettledWhole'
  <2> SUFFICES ASSUME NEW j \in 1..(task.index - 1)
               PROVE  /\ task.spend[j + 1] <= arrived'[j] + given[j]
                      /\ given[j] = 0 => /\ task.spend[j + 1] = arrived'[j]
                                         /\ \A u \in transit' : u.step # j
    BY <1>2 DEF SettledWhole
  <2>1. /\ task.spend[j + 1] <= arrived[j] + given[j]
        /\ given[j] = 0 => /\ task.spend[j + 1] = arrived[j]
                           /\ \A u \in transit : u.step # j
    BY DEF DeliveryInv, SettledWhole
  <2>2. j \in Steps /\ j + 1 \in Steps
    BY RouteType DEF TypeInv, TypeOK, Steps
  <2>3. arrived[j] \in Nat /\ given[j] \in Nat /\ task.spend[j + 1] \in Nat
    BY <2>2 DEF TypeInv, TypeOK
  <2>4. CASE j = t.step
    BY <1>3, <1>4, <1>6, <2>1, <2>3, <2>4
  <2>5. CASE j # t.step
    BY <1>1, <1>6, <2>1, <2>2, <2>5
  <2>6. QED
    BY <2>4, <2>5
<1>10. QED
  BY <1>7, <1>8, <1>9 DEF DeliveryInv

LEMMA GiftKeepsDelivery ==
    ASSUME TypeInv, DeliveryInv, Separate(route), Gift
    PROVE  DeliveryInv'
<1>1. PICK k \in Steps, amount \in Nat \ {0} : \E h :
        /\ Goal(route[k]) = {h}
        /\ given' = [given EXCEPT ![k] = amount]
        /\ given[k] = 0
        /\ Credited(ledger, h, amount, ledger')
        /\ UNCHANGED <<route, task, pending, ran, transit, arrived>>
  BY GiftEffect
<1>2. PICK h :
        /\ Goal(route[k]) = {h}
        /\ given' = [given EXCEPT ![k] = amount]
        /\ given[k] = 0
        /\ Credited(ledger, h, amount, ledger')
        /\ UNCHANGED <<route, task, pending, ran, transit, arrived>>
  BY <1>1
<1>3. Steps' = Steps /\ Source' = Source
  BY <1>2 DEF Steps, Source
<1>4. /\ given \in [Steps -> Nat] /\ given'[k] = amount
      /\ \A j \in Steps : j # k => given'[j] = given[j]
  BY <1>2 DEF TypeInv, TypeOK
<1>5. InTurn'
  BY <1>2, <1>3 DEF DeliveryInv, InTurn
<1>6. Noted'
  <2>0. PICK i \in Steps : i = task.index
    BY DEF TypeInv, TypeOK
  <2> SUFFICES ASSUME ran[i] = "ok" \/ \E tx \in pending : Carries(tx)
               PROVE  NotedOf(i)'
    BY <1>2, <1>3, <2>0 DEF Noted, NotedOf, Carries
  <2>1. NotedOf(i) /\ i \in Steps /\ TypeOK
    BY <2>0 DEF DeliveryInv, Noted, NotedOf, TypeInv, TypeOK
  <2>2. Watched(route[i]) # {}
    BY <2>0 DEF TypeInv, BuiltAsDerived
  <2>3. PICK g : Goal(route[i]) = {g}
    BY <2>2, GoalExists
  <2>4. LatestBalance(i) = Balance(ledger, g) /\ LatestBalance(i)' = Balance(ledger', g)
    BY <1>2, <2>3, LatestIsGoal, LatestNext
  <2>5. LatestBalance(i) \in Nat /\ arrived[i] \in Nat /\ given[i] \in Nat
        /\ task.origin[i] \in Nat \cup {NoBalance}
    BY <2>1, <2>2, LatestType DEF TypeOK
  <2>6. CASE k = i
    <3>1. LatestBalance(i)' = LatestBalance(i) + amount /\ given'[i] = given[i] + amount
      BY <1>2, <1>4, <2>3, <2>4, <2>6 DEF Credited
    <3>2. QED
      BY <1>2, <2>1, <2>5, <3>1 DEF NotedOf
  <2>7. CASE k # i
    <3>1. g # h
      BY <1>2, <2>1, <2>3, <2>7, GoalsApart
    <3>2. LatestBalance(i)' = LatestBalance(i) /\ given'[i] = given[i]
      BY <1>2, <1>4, <2>1, <2>4, <2>7, <3>1 DEF Credited
    <3>3. QED
      BY <1>2, <2>1, <3>2 DEF NotedOf
  <2>8. QED
    BY <2>6, <2>7
<1>7. SettledWhole'
  <2> SUFFICES ASSUME NEW j \in 1..(task.index - 1)
               PROVE  /\ task.spend[j + 1] <= arrived[j] + given'[j]
                      /\ given'[j] = 0 => /\ task.spend[j + 1] = arrived[j]
                                          /\ \A u \in transit : u.step # j
    BY <1>2 DEF SettledWhole
  <2>1. /\ task.spend[j + 1] <= arrived[j] + given[j]
        /\ given[j] = 0 => /\ task.spend[j + 1] = arrived[j]
                           /\ \A u \in transit : u.step # j
    BY DEF DeliveryInv, SettledWhole
  <2>2. j \in Steps /\ j + 1 \in Steps
    BY RouteType DEF TypeInv, TypeOK, Steps
  <2>3. arrived[j] \in Nat /\ given[j] \in Nat /\ task.spend[j + 1] \in Nat
    BY <2>2 DEF TypeInv, TypeOK
  <2>4. CASE j = k
    BY <1>2, <1>4, <2>1, <2>3, <2>4
  <2>5. CASE j # k
    BY <1>4, <2>1, <2>2, <2>5
  <2>6. QED
    BY <2>4, <2>5
<1>8. QED
  BY <1>5, <1>6, <1>7 DEF DeliveryInv

\* The calls of the current step are executed on what is taken from, or left to, an entry
\* that the step spends from.
LEMMA ExecutedKeepsDelivery ==
    ASSUME TypeInv, DeliveryInv, TablesAgree(route), Separate(route),
           NEW i \in Steps, i = task.index, ran[i] = "no", Watched(route[i]) # {}, NotedOf(i),
           NEW calls \in DeriveCalls(route[i]), NEW amount \in Nat,
           Delivers(route[i][1].src, calls, amount) > 0,
           NEW own \in SpentFrom(route[i]), NEW change \in Int, Balance(ledger, own) + change \in Nat,
           Deliver(i, calls, amount, Credit(ledger, own, change)),
           UNCHANGED <<route, task, given>>
    PROVE  DeliveryInv'
<1>1. TypeOK /\ Sound(ledger)
  BY DEF TypeInv, TypeOK, Sound
<1> DEFINE l == Credit(ledger, own, change)
<1>2. Credited(ledger, own, change, l)
  BY <1>1, CreditBalance
<1>3. Deliver(i, calls, amount, l)
  OBVIOUS
<1>4. PICK g : Goal(route[i]) = {g}
  BY GoalExists
<1>5. g # own
  BY <1>4, GoalNotSpent
<1>6. Balance(l, g) = LatestBalance(i) /\ Sound(l)
  BY <1>2, <1>4, <1>5, LatestIsGoal DEF Credited
<1>7. LatestBalance(i)' = Balance(ledger', g)
  BY <1>4, LatestNext
<1> HIDE DEF l
<1> DEFINE call == LastCall(route[i][1].src, calls)
<1>8. PaidTo(route[i][1].src, call) = g /\ (call.dest # "local" => IsBridgeStep(route[i]))
  BY <1>4 DEF TablesAgree, Steps
<1> DEFINE d == Delivers(route[i][1].src, calls, amount)
<1>9. /\ ran' = [ran EXCEPT ![i] = "ok"] /\ d \in Nat \ {0}
      /\ Received(i, call, d, l)
  BY <1>1, <1>3, <1>6, DeliverEffect
<1> HIDE DEF call, d
<1>10. \/ /\ ledger' = Credit(l, g, d)
          /\ arrived' = [arrived EXCEPT ![i] = d]
          /\ UNCHANGED transit
       \/ /\ ledger' = l /\ IsBridgeStep(route[i])
          /\ transit' = transit \cup {[step |-> i, entry |-> g, amount |-> d]}
          /\ UNCHANGED arrived
  BY <1>8, <1>9 DEF Received
<1>11. /\ ran'[i] = "ok" /\ \A j \in Steps : j # i => ran'[j] = ran[j]
       /\ arrived[i] = 0 /\ \A j \in Steps : j # i => arrived'[j] = arrived[j]
       /\ \A t \in transit : t.step # i /\ t.step \in Steps
       /\ \A j \in Steps : j \in Nat
  <2>1. ran'[i] = "ok" /\ \A j \in Steps : j # i => ran'[j] = ran[j]
    BY <1>1, <1>9 DEF TypeOK
  <2>2. arrived[i] = 0 /\ \A j \in Steps : j # i => arrived'[j] = arrived[j]
    <3>1. arrived[i] = 0
      BY <1>1 DEF DeliveryInv, InTurn
    <3>2. arrived \in [Steps -> Nat]
      BY <1>1 DEF TypeOK
    <3>3. QED
      BY <1>10, <3>1, <3>2
  <2>3. \A t \in transit : t.step # i /\ t.step \in Steps
    BY <1>1 DEF TypeOK, DeliveryInv, InTurn
  <2>4. \A j \in Steps : j \in Nat
    BY <1>1, RouteType DEF TypeOK
  <2>5. QED
    BY <2>1, <2>2, <2>3, <2>4
<1>12. \/ /\ arrived'[i] = d /\ transit' = transit
       \/ /\ arrived'[i] = 0 /\ IsBridgeStep(route[i])
          /\ transit' = transit \cup {[step |-> i, entry |-> g, amount |-> d]}
  BY <1>1, <1>9, <1>10, <1>11 DEF TypeOK
<1>13. LatestBalance(i)' = LatestBalance(i) + arrived'[i]
  <2>a. LatestBalance(i) \in Nat
    BY <1>1, LatestType
  <2>1. LatestBalance(i) \in Nat /\ d \in Int
    BY <1>9, <2>a
  <2>2. CASE ledger' = Credit(l, g, d) /\ arrived' = [arrived EXCEPT ![i] = d]
    <3>1. Balance(l, g) + d \in Nat
      <4>1. Balance(l, g) \in Nat /\ d \in Nat
        BY <1>6, <1>9, <2>1
      <4>2. QED
        BY <4>1
    <3>2. Credited(l, g, d, Credit(l, g, d))
      BY <1>6, <2>1, <3>1, CreditBalance
    <3>3. arrived'[i] = d
      BY <1>1, <2>2 DEF TypeOK
    <3>4. QED
      BY <1>6, <1>7, <2>2, <3>2, <3>3 DEF Credited
  <2>3. CASE ledger' = l /\ arrived' = arrived
    BY <1>6, <1>7, <1>11, <2>1, <2>3
  <2>4. QED
    BY <1>10, <2>2, <2>3
<1>14. Steps' = Steps
  BY DEF Steps
<1>15. InTurn'
  <2>1. ASSUME NEW j \in Steps
        PROVE  /\ j < task.index => ran'[j] = "ok"
               /\ j > task.index => ran'[j] = "no"
               /\ ran'[j] # "ok" => arrived'[j] = 0
               /\ ran'[j] = "ok" /\ arrived'[j] = 0 => \E t \in transit' : t.step = j
    <3>1. CASE j = i
      <4>1. ~(j < task.index) /\ ~(j > task.index)
        BY <1>11, <3>1
      <4>2. arrived'[i] = 0 => \E t \in transit' : t.step = i
        <5> DEFINE sent == [step |-> i, entry |-> g, amount |-> d]
        <5>1. arrived'[i] = 0 => sent \in transit'
          BY <1>9, <1>12
        <5>2. sent.step = i
          OBVIOUS
        <5>3. QED
          BY <5>1, <5>2
      <4>3. QED
        BY <1>11, <3>1, <4>1, <4>2
    <3>2. CASE j # i
      BY <1>11, <1>12, <3>2 DEF DeliveryInv, InTurn
    <3>3. QED
      BY <3>1, <3>2
  <2>2. ASSUME NEW t \in transit'
        PROVE  /\ ran'[t.step] = "ok" /\ arrived'[t.step] = 0
               /\ IsBridgeStep(route[t.step]) /\ Goal(route[t.step]) = {t.entry}
    <3>1. CASE t \in transit
      BY <1>11, <3>1 DEF DeliveryInv, InTurn
    <3>2. CASE t \notin transit
      <4>1. t = [step |-> i, entry |-> g, amount |-> d] /\ arrived'[i] = 0 /\ IsBridgeStep(route[i])
        BY <1>12, <3>2
      <4>2. QED
        BY <1>4, <1>11, <4>1
    <3>3. QED
      BY <3>1, <3>2
  <2>3. ASSUME NEW t \in transit', NEW u \in transit', t.step = u.step
        PROVE  t = u
    <3>1. \A v \in transit' : v \in transit \/ v = [step |-> i, entry |-> g, amount |-> d]
      BY <1>12
    <3>2. \A v \in transit' : v \in transit <=> v.step # i
      BY <1>11, <3>1
    <3>3. CASE t \in transit /\ u \in transit
      BY <2>3, <3>3 DEF DeliveryInv, InTurn
    <3>4. CASE t \notin transit \/ u \notin transit
      BY <2>3, <3>1, <3>2, <3>4
    <3>5. QED
      BY <3>3, <3>4
  <2>4. QED
    BY <1>14, <2>1, <2>2, <2>3 DEF InTurn
<1>16. Noted'
  <2>1. /\ LatestBalance(i) \in Nat /\ arrived'[i] \in Nat
        /\ given[i] \in Nat /\ task.origin[i] \in Nat \cup {NoBalance}
    <3>1. LatestBalance(i) \in Nat
      BY <1>1, LatestType
    <3>2. arrived'[i] \in Nat
      BY <1>9, <1>12
    <3>3. given[i] \in Nat
      BY <1>1 DEF TypeOK
    <3>4. task.origin[i] \in Nat \cup {NoBalance}
      BY <1>1 DEF TypeOK
    <3>5. QED
      BY <3>1, <3>2, <3>3, <3>4
  <2>2. NotedOf(i)'
    <3> DEFINE o == task.origin[i]
               new == arrived'[i]
               b == LatestBalance(i)
    <3>1. /\ o # NoBalance /\ o \in Nat /\ new \in Nat /\ b \in Nat /\ given[i] \in Nat
          /\ o + 0 <= b /\ b <= o + 0 + given[i]
      BY <1>11, <2>1 DEF NotedOf
    <3>2. b' = b + new
      BY <1>13
    <3> HIDE DEF new, b
    <3>3. o + (0 + new) <= b + new /\ b + new <= o + (0 + new) + given[i]
      BY <3>1, GrowTogether
    <3>4. o + new <= b' /\ b' <= o + new + given[i]
      BY <3>1, <3>2, <3>3
    <3>5. QED
      BY <3>1, <3>4 DEF NotedOf, new, b
  <2>3. QED
    BY <2>2 DEF Noted, NotedOf
<1>17. SettledWhole'
  <2> SUFFICES ASSUME NEW j \in 1..(i - 1)
               PROVE  /\ task.spend[j + 1] <= arrived'[j] + given[j]
                      /\ given[j] = 0 => /\ task.spend[j + 1] = arrived'[j]
                                         /\ \A t \in transit' : t.step # j
    BY DEF SettledWhole
  <2>1. j # i /\ j \in Steps
    BY <1>1, RouteType DEF TypeOK, Steps
  <2>2. \A t \in transit' : t \in transit \/ t.step = i
    BY <1>12
  <2>3. QED
    BY <1>11, <2>1, <2>2 DEF DeliveryInv, SettledWhole
<1>18. QED
  BY <1>15, <1>16, <1>17 DEF DeliveryInv

\* A transaction is included that yields nothing to the recipient of the current step.
LEMMA NothingExecutedKeepsDelivery ==
    ASSUME TypeInv, DeliveryInv, ran[task.index] = "no", pending' = {},
           ran' = ran \/ ran' = [ran EXCEPT ![task.index] = "failed"],
           UNCHANGED <<route, task, given, transit, arrived>>
    PROVE  DeliveryInv'
<1>1. Steps' = Steps /\ TypeOK /\ task.index \in Steps
  BY DEF Steps, TypeInv, TypeOK
<1>2. ran'[task.index] # "ok" /\ \A j \in Steps : j # task.index => ran'[j] = ran[j]
  BY <1>1 DEF TypeOK
<1>3. InTurn'
  <2>1. \A j \in Steps : /\ j < task.index => ran'[j] = "ok"
                         /\ j > task.index => ran'[j] = "no"
                         /\ ran'[j] # "ok" => arrived[j] = 0
                         /\ ran'[j] = "ok" => ran[j] = "ok"
    <3>1. \A j \in Steps : j < task.index \/ j > task.index => j # task.index
      BY <1>1, RouteType DEF TypeOK
    <3>2. QED
      BY <1>2, <3>1 DEF DeliveryInv, InTurn
  <2>2. \A t \in transit : ran'[t.step] = "ok"
    <3>1. \A t \in transit : t.step \in Steps /\ t.step # task.index
      BY <1>1 DEF DeliveryInv, InTurn, TypeOK
    <3>2. QED
      BY <1>2, <3>1 DEF DeliveryInv, InTurn
  <2>3. QED
    BY <1>1, <2>1, <2>2 DEF DeliveryInv, InTurn
<1>4. Noted'
  BY <1>2 DEF Noted
<1>5. SettledWhole'
  BY DEF DeliveryInv, SettledWhole
<1>6. QED
  BY <1>3, <1>4, <1>5 DEF DeliveryInv

LEMMA IncludeClaimKeepsDelivery ==
    ASSUME TypeInv, DeliveryInv, TablesAgree(route), Separate(route), IncludeClaim
    PROVE  DeliveryInv'
<1>1. PICK tx \in pending, own \in SpentFrom(route[1]) :
        /\ tx.kind = "claim" /\ task.index = 1 /\ ran[1] = "no"
        /\ pending' = {} /\ Amount - tx.amount \in Nat
        /\ UNCHANGED <<route, task, given>>
        /\ \/ /\ Source \in EvmChains
              /\ tx.calls \in DeriveCalls(route[1])
              /\ Delivers(Source, tx.calls, tx.amount) > 0
              /\ Deliver(1, tx.calls, tx.amount, Credit(ledger, own, Amount - tx.amount))
           \/ UNCHANGED <<ran, transit, arrived>>
  BY IncludeClaimEffect
<1>2. TypeOK /\ 1 \in Steps /\ tx.amount \in Nat /\ Sound(ledger)
  BY RouteType DEF TypeInv, TypeOK, Sound
<1>3. CASE UNCHANGED <<ran, transit, arrived>>
  BY <1>1, <1>3, NothingExecutedKeepsDelivery
<1>4. CASE /\ Source \in EvmChains
           /\ tx.calls \in DeriveCalls(route[1])
           /\ Delivers(Source, tx.calls, tx.amount) > 0
           /\ Deliver(1, tx.calls, tx.amount, Credit(ledger, own, Amount - tx.amount))
  <2>1. Carries(tx)
    BY <1>4 DEF Carries
  <2>2. NotedOf(1) /\ Watched(route[1]) # {}
    BY <1>1, <2>1 DEF DeliveryInv, Noted, NotedOf, TypeInv, BuiltAsDerived
  <2>3. Balance(ledger, own) + (Amount - tx.amount) \in Nat
    <3>1. Balance(ledger, own) \in Nat
      BY <1>2, BalanceType
    <3>2. QED
      BY <1>1, <3>1
  <2>4. Delivers(route[1][1].src, tx.calls, tx.amount) > 0
    BY <1>4 DEF Source
  <2> DEFINE change == Amount - tx.amount
  <2>5. change \in Int /\ Balance(ledger, own) + change \in Nat
        /\ Deliver(1, tx.calls, tx.amount, Credit(ledger, own, change))
    BY <1>1, <1>4, <2>3
  <2> HIDE DEF change
  <2>6. QED
    BY <1>1, <1>2, <1>4, <2>2, <2>4, <2>5, ExecutedKeepsDelivery
<1>5. QED
  BY <1>1, <1>3, <1>4

LEMMA IncludeStepKeepsDelivery ==
    ASSUME TypeInv, DeliveryInv, TablesAgree(route), Separate(route), IncludeStep
    PROVE  DeliveryInv'
<1>1. PICK i \in Steps : i = task.index
  BY DEF TypeInv, TypeOK
<1>2. PICK tx \in pending, own \in SpentFrom(route[i]) :
        /\ tx.kind = "step" /\ ran[i] = "no"
        /\ tx.calls \in DeriveCalls(route[i]) /\ Watched(route[i]) # {}
        /\ pending' = {}
        /\ UNCHANGED <<route, task, given>>
        /\ \/ /\ Balance(ledger, own) >= tx.amount
              /\ Delivers(route[i][1].src, tx.calls, tx.amount) > 0
              /\ Deliver(i, tx.calls, tx.amount, Credit(ledger, own, -tx.amount))
           \/ /\ ran' = [ran EXCEPT ![i] = "failed"]
              /\ UNCHANGED <<transit, arrived>>
  BY <1>1, IncludeStepEffect
<1>3. TypeOK /\ tx.amount \in Nat /\ Sound(ledger)
  BY DEF TypeInv, TypeOK, Sound
<1>4. CASE ran' = [ran EXCEPT ![i] = "failed"] /\ UNCHANGED <<transit, arrived>>
  BY <1>1, <1>2, <1>4, NothingExecutedKeepsDelivery
<1>5. CASE /\ Balance(ledger, own) >= tx.amount
           /\ Delivers(route[i][1].src, tx.calls, tx.amount) > 0
           /\ Deliver(i, tx.calls, tx.amount, Credit(ledger, own, -tx.amount))
  <2>1. NotedOf(i)
    BY <1>1, <1>2 DEF DeliveryInv, Noted, NotedOf, Carries
  <2>2. Balance(ledger, own) \in Nat
    BY <1>3, BalanceType
  <2> DEFINE change == -tx.amount
  <2>3. change \in Int /\ Balance(ledger, own) + change \in Nat
    BY <1>3, <1>5, <2>2
  <2>4. Deliver(i, tx.calls, tx.amount, Credit(ledger, own, change))
    BY <1>5
  <2> HIDE DEF change
  <2>5. QED
    BY <1>1, <1>2, <1>3, <1>5, <2>1, <2>3, <2>4, ExecutedKeepsDelivery
<1>6. QED
  BY <1>2, <1>4, <1>5

LEMMA InitDelivery == Init => DeliveryInv
<1> SUFFICES ASSUME Init PROVE DeliveryInv
  OBVIOUS
<1>1. task.index = 1 /\ \A i \in Steps : ran[i] = "no" /\ arrived[i] = 0
  BY DEF Init
<1>2. 1 \in Steps
  BY RouteType DEF Init
<1>3. transit = {} /\ pending = {}
  BY DEF Init
<1>4. InTurn
  <2>1. \A i \in Steps : ~(i < 1)
    BY DEF Steps
  <2>2. QED
    BY <1>1, <1>3, <2>1 DEF InTurn
<1>5. Noted /\ SettledWhole
  BY <1>1, <1>2, <1>3 DEF Noted, SettledWhole
<1>6. QED
  BY <1>4, <1>5 DEF DeliveryInv

LEMMA NextDelivery == RoutesFit /\ TypeInv /\ DeliveryInv /\ [Next]_vars => DeliveryInv'
<1> SUFFICES ASSUME RoutesFit, TypeInv, DeliveryInv, [Next]_vars PROVE DeliveryInv'
  OBVIOUS
<1>1. TablesAgree(route) /\ Separate(route)
  BY DEF RoutesFit, TypeInv, TypeOK
<1>2. CASE Claim
  BY <1>2, ClaimKeepsDelivery
<1>3. CASE RunStep
  BY <1>3, RunStepKeepsDelivery
<1>4. CASE Advance
  BY <1>4, AdvanceKeepsDelivery
<1>5. CASE IncludeClaim
  BY <1>1, <1>5, IncludeClaimKeepsDelivery
<1>6. CASE IncludeStep
  BY <1>1, <1>6, IncludeStepKeepsDelivery
<1>7. CASE Arrive
  BY <1>1, <1>7, ArriveKeepsDelivery
<1>8. CASE Gift
  BY <1>1, <1>8, GiftKeepsDelivery
<1>9. CASE Complete \/ RegisterAsset \/ WorkerApprove \/ UNCHANGED vars
  BY <1>9, OthersKeepDelivery
<1>10. QED
  BY <1>2, <1>3, <1>4, <1>5, <1>6, <1>7, <1>8, <1>9 DEF Next, Execute, ChainStep

LEMMA DeliveryInvariant ==
    ASSUME RoutesFit
    PROVE  Spec => [](TypeInv /\ DeliveryInv)
<1>1. Init => TypeInv /\ DeliveryInv
  BY InitTypes, InitDelivery
<1>2. TypeInv /\ DeliveryInv /\ [Next]_vars => (TypeInv /\ DeliveryInv)'
  BY NextTypes, NextDelivery
<1>3. QED
  BY <1>1, <1>2, PTL DEF Spec

\* Where the tables agree (the balance the executor reads for a step is the one its action
\* credits) and no two steps pay the same account in the same asset, what the current step
\* delivers is seen by has_finished and settle, whatever others send to its recipient.
THEOREM ArrivalSeen ==
    ASSUME RoutesFit
    PROVE  Spec => []ArrivalIsSeen
<1>1. TypeInv /\ DeliveryInv => ArrivalIsSeen
  <2> SUFFICES ASSUME TypeInv, DeliveryInv, arrived[task.index] > 0
               PROVE  LatestBalance(task.index) >= task.origin[task.index] + arrived[task.index]
    BY DEF ArrivalIsSeen
  <2>1. PICK i \in Steps : i = task.index
    BY DEF TypeInv, TypeOK
  <2>2. ran[i] = "ok"
    BY <2>1 DEF DeliveryInv, InTurn
  <2>3. NotedOf(i) /\ Watched(route[i]) # {} /\ TypeOK
    BY <2>1, <2>2 DEF DeliveryInv, Noted, NotedOf, TypeInv, BuiltAsDerived
  <2>4. LatestBalance(i) \in Nat
    BY <2>3, LatestType
  <2>5. arrived[i] \in Nat /\ task.origin[i] \in Nat
    BY <2>3 DEF TypeOK, NotedOf, NoBalance
  <2>6. QED
    BY <2>1, <2>3, <2>4, <2>5 DEF NotedOf
<1>2. QED
  BY <1>1, DeliveryInvariant, PTL

\* Under the same conditions a step is settled with what its predecessor has delivered, all of
\* it and none of the worker's own funds; a transfer from somebody else adds at most itself.
THEOREM SpentArrived ==
    ASSUME RoutesFit
    PROVE  Spec => []SpendsWhatArrived
<1>1. TypeInv /\ DeliveryInv => SpendsWhatArrived
  BY DEF DeliveryInv, SettledWhole, SpendsWhatArrived
<1>2. QED
  BY <1>1, DeliveryInvariant, PTL

-----------------------------------------------------------------------------
(***************************************************************************)
(* Where balances are kept: what a step spends from and what it pays.       *)
(***************************************************************************)
Known(e) == e \in Own \/ \E i \in Steps : e \in Goal(route[i])

LEMMA KnownIs == KnownEntries <=> \A e \in DOMAIN ledger : Known(e)
  BY DEF KnownEntries, Known

LEMMA CreditDomain ==
    ASSUME NEW l, NEW e, NEW amount
    PROVE  DOMAIN Credit(l, e, amount) = DOMAIN l \cup {e}
  BY DEF Credit

LEMMA DeliverDomain ==
    ASSUME TablesAgree(route), NEW i \in Steps, Watched(route[i]) # {},
           NEW calls \in DeriveCalls(route[i]), NEW amount,
           NEW own \in SpentFrom(route[i]), NEW change,
           Deliver(i, calls, amount, Credit(ledger, own, change)),
           NEW e \in DOMAIN ledger'
    PROVE  e \in DOMAIN ledger \/ Known(e)
<1> DEFINE call == LastCall(route[i][1].src, calls)
           paid == PaidTo(route[i][1].src, call)
           l == Credit(ledger, own, change)
<1>1. paid \in Goal(route[i])
  BY DEF TablesAgree, Steps
<1>2. DOMAIN l = DOMAIN ledger \cup {own}
  BY CreditDomain
<1>3. \/ ledger' = l
      \/ ledger' = Credit(l, paid, Delivers(route[i][1].src, calls, amount))
  BY DEF Deliver
<1> HIDE DEF l, paid
<1>4. DOMAIN ledger' \subseteq DOMAIN l \cup {paid}
  BY <1>3, CreditDomain
<1>5. own \in Own
  BY DEF Own
<1>6. QED
  BY <1>1, <1>2, <1>4, <1>5 DEF Known

LEMMA NextKnown ==
    ASSUME TypeInv, DeliveryInv, TablesAgree(route), KnownEntries, [Next]_vars
    PROVE  KnownEntries'
<1>1. UNCHANGED route
  BY DEF Next, Execute, ChainStep, Claim, RunStep, Advance, Complete, RegisterAsset, WorkerApprove,
         IncludeClaim, IncludeStep, Arrive, Gift, vars
<1>2. Own' = Own /\ Steps' = Steps /\ \A e : Known(e)' <=> Known(e)
  BY <1>1 DEF Own, Steps, Known
<1> SUFFICES ASSUME NEW e \in DOMAIN ledger' PROVE e \in DOMAIN ledger \/ Known(e)
  BY <1>1, <1>2 DEF KnownEntries, Known
<1>3. CASE UNCHANGED ledger
  BY <1>3
<1>4. CASE IncludeClaim
  <2>1. PICK tx \in pending, own \in SpentFrom(route[1]) :
          /\ tx.kind = "claim"
          /\ \/ /\ Source \in EvmChains /\ tx.calls \in DeriveCalls(route[1])
                /\ Deliver(1, tx.calls, tx.amount, Credit(ledger, own, Amount - tx.amount))
             \/ ledger' = Credit(ledger, own, Amount)
    BY <1>4, IncludeClaimEffect
  <2>2. 1 \in Steps
    BY RouteType DEF TypeInv, TypeOK
  <2>3. CASE ledger' = Credit(ledger, own, Amount)
    <3>1. DOMAIN ledger' = DOMAIN ledger \cup {own}
      BY <2>3, CreditDomain
    <3>2. QED
      BY <2>2, <3>1 DEF Known, Own
  <2>4. CASE /\ Source \in EvmChains /\ tx.calls \in DeriveCalls(route[1])
             /\ Deliver(1, tx.calls, tx.amount, Credit(ledger, own, Amount - tx.amount))
    <3>1. Watched(route[1]) # {}
      <4>1. Carries(tx) /\ task.index = 1
        BY <1>4, <2>4, IncludeClaimEffect DEF Carries
      <4>2. QED
        BY <4>1 DEF TypeInv, BuiltAsDerived
    <3>2. QED
      BY <2>2, <2>4, <3>1, DeliverDomain
  <2>5. QED
    BY <2>1, <2>3, <2>4
<1>5. CASE IncludeStep
  <2>1. PICK tx \in pending, own \in SpentFrom(route[task.index]) :
          /\ tx.calls \in DeriveCalls(route[task.index]) /\ Watched(route[task.index]) # {}
          /\ \/ Deliver(task.index, tx.calls, tx.amount, Credit(ledger, own, -tx.amount))
             \/ UNCHANGED ledger
    BY <1>5, IncludeStepEffect
  <2>2. task.index \in Steps
    BY DEF TypeInv, TypeOK
  <2>3. QED
    BY <2>1, <2>2, DeliverDomain
<1>6. CASE Gift
  <2>1. PICK i \in Steps : \E e1 \in Watched(route[i]) : \E amount :
          ledger' = Credit(ledger, Canonical(e1), amount)
    BY <1>6 DEF Gift
  <2>2. PICK e1 \in Watched(route[i]) : \E amount : ledger' = Credit(ledger, Canonical(e1), amount)
    BY <2>1
  <2>3. DOMAIN ledger' = DOMAIN ledger \cup {Canonical(e1)}
    BY <2>2, CreditDomain
  <2>4. Canonical(e1) \in Goal(route[i])
    BY DEF Goal
  <2>5. QED
    BY <2>3, <2>4 DEF Known
<1>7. CASE Arrive
  <2>1. PICK t \in transit : ledger' = Credit(ledger, t.entry, t.amount)
    BY <1>7 DEF Arrive
  <2>2. t.step \in Steps /\ Goal(route[t.step]) = {t.entry}
    BY DEF TypeInv, TypeOK, DeliveryInv, InTurn
  <2>3. DOMAIN ledger' = DOMAIN ledger \cup {t.entry}
    BY <2>1, CreditDomain
  <2>4. QED
    BY <2>2, <2>3 DEF Known
<1>8. QED
  BY <1>3, <1>4, <1>5, <1>6, <1>7
     DEF Next, Execute, ChainStep, Claim, RunStep, Advance, Complete, RegisterAsset, WorkerApprove,
         vars, world

LEMMA InitKnown == Init => KnownEntries
  BY DEF Init, KnownEntries

LEMMA SourceChain ==
    ASSUME TypeOK, NEW i \in Steps
    PROVE  route[i][1].src \in Chain
<1>1. route[i] \in MergedStep
  BY RouteType DEF TypeOK
<1>2. Len(route[i]) \in Nat \ {0} /\ \A k \in 1..Len(route[i]) : route[i][k].src \in Chain
  BY <1>1, MergedType
<1>3. 1 \in 1..Len(route[i])
  BY <1>2
<1>4. QED
  BY <1>2, <1>3

\* Somebody can spend what is kept in an entry.
Usable(e) == Owned(e.account) /\ Length(e.account) = FormOf(e.chain)

\* So does the account on Astar that stands for one on AstarEvm.
LEMMA CanonicalUsable ==
    ASSUME NEW c, NEW key, NEW a, Owned(a), Length(a) = FormOf(c)
    PROVE  Usable(Canonical(Entry(c, key, a)))
  BY DEF Usable, Canonical, Entry, H160ToSr25519Pub, Account, Owned, Length, FormOf, EvmChains

LEMMA OwnUsable ==
    ASSUME TypeOK, NEW e \in Own
    PROVE  Usable(e)
<1>1. PICK i \in Steps : e \in SpentFrom(route[i])
  BY DEF Own
<1> DEFINE c == route[i][1].src
<1>2. PICK calls \in DeriveCalls(route[i]) : e = TakenFrom(c, calls[1].params, Worker(c))
  BY <1>1 DEF SpentFrom
<1>3. e = Canonical(Entry(c, KeptIn(c, calls[1].params.spend), Worker(c)))
  BY <1>2 DEF TakenFrom
<1> HIDE DEF c
<1>4. Owned(Worker(c)) /\ Length(Worker(c)) = FormOf(c)
  BY DEF Worker, Account, Owned, Length, FormOf
<1>5. QED
  BY <1>3, <1>4, CanonicalUsable

LEMMA GoalUsable ==
    ASSUME NEW i \in Steps, RealRecipients(route), NEW g \in Goal(route[i])
    PROVE  Usable(g)
<1>1. PICK e \in Watched(route[i]) : g = Canonical(e)
  BY DEF Goal
<1> DEFINE s == AsSingleStep(route[i])
<1>2. e \in GetBalance(s.dst, s.receive, s.to)
  BY DEF Watched
<1> HIDE DEF s
<1>3. PICK key : e = Entry(s.dst, key, s.to) /\ Length(s.to) = FormOf(s.dst)
  BY <1>2 DEF GetBalance
<1>4. e.account = s.to
  BY <1>3 DEF Entry
<1>5. Owned(s.to)
  BY <1>4 DEF RealRecipients, Steps
<1>6. QED
  BY <1>1, <1>3, <1>5, CanonicalUsable

\* Where the tables agree and the recipients named in a solution are accounts that somebody
\* has the key of, whatever is credited or is on its way goes to such an account, of the form
\* its chain uses: no cut or padded address is ever paid.
THEOREM NobodyPaid ==
    ASSUME RoutesFit, \A r \in Routes : RealRecipients(r)
    PROVE  Spec => []NothingToNobody
<1>1. Init => TypeInv /\ DeliveryInv /\ KnownEntries
  BY InitTypes, InitDelivery, InitKnown
<1>2. TypeInv /\ DeliveryInv /\ KnownEntries /\ [Next]_vars
        => (TypeInv /\ DeliveryInv /\ KnownEntries)'
  <2> SUFFICES ASSUME TypeInv, DeliveryInv, KnownEntries, [Next]_vars
               PROVE  (TypeInv /\ DeliveryInv /\ KnownEntries)'
    OBVIOUS
  <2>1. TablesAgree(route)
    BY DEF RoutesFit, TypeInv, TypeOK
  <2>2. QED
    BY <2>1, NextTypes, NextDelivery, NextKnown
<1>3. TypeInv /\ DeliveryInv /\ KnownEntries => NothingToNobody
  <2> SUFFICES ASSUME TypeInv, DeliveryInv, KnownEntries,
                      NEW e \in DOMAIN ledger \cup {t.entry : t \in transit}
               PROVE  Usable(e)
    BY DEF NothingToNobody, Usable
  <2>1. TypeOK /\ RealRecipients(route)
    BY DEF TypeInv, TypeOK
  <2>2. Known(e)
    <3>1. CASE e \in DOMAIN ledger
      BY <3>1, KnownIs
    <3>2. CASE e \notin DOMAIN ledger
      <4>1. PICK t \in transit : e = t.entry
        BY <3>2
      <4>2. t.step \in Steps /\ Goal(route[t.step]) = {t.entry}
        BY <2>1 DEF TypeOK, DeliveryInv, InTurn
      <4>3. QED
        BY <4>1, <4>2 DEF Known
    <3>3. QED
      BY <3>1, <3>2
  <2>3. QED
    BY <2>1, <2>2, OwnUsable, GoalUsable DEF Known
<1>4. QED
  BY <1>1, <1>2, <1>3, PTL DEF Spec

-----------------------------------------------------------------------------
(***************************************************************************)
(* What is claimed can be executed: given, besides, that each step spends   *)
(* from where its predecessor has delivered.                                *)
(***************************************************************************)
RoutesConnected == \A r \in Routes : Connected(r)

LEMMA NothingYieldsNothing ==
    ASSUME NEW m \in MergedStep, NEW calls \in DeriveCalls(m), NEW c
    PROVE  ~(Delivers(c, calls, 0) > 0)
<1> DEFINE b == Executed(c, calls)
           f == Results(c, b, 0)
<1>1. IsBatch(b)
  BY DerivedIsBatch
<1>2. f \in [1..Len(b) -> Nat] /\ f = [k \in 1..Len(b) |-> Yielded(c, b, 0, k, f[k - 1])]
  BY <1>1, ResultsType, ResultsEquation
<1>3. 1 \in 1..Len(b)
  BY <1>1 DEF IsBatch
<1> HIDE DEF b, f
<1>4. f[1] = Yields(c, b[1].params, 0)
  BY <1>2, <1>3 DEF Yielded
<1>5. f[1] \in Nat /\ ~(f[1] > 0)
  BY <1>4, YieldsType
<1>6. \E k \in DOMAIN f : f[k] <= 0
  BY <1>2, <1>3, <1>5
<1>7. QED
  BY <1>6 DEF Delivers, b, f

\* A merged step that is accepted works for every amount.
LEMMA AcceptedDelivers ==
    ASSUME NEW m \in MergedStep, NEW allowed, Accepted(allowed, m),
           NEW calls \in DeriveCalls(m), NEW amount \in Nat \ {0}
    PROVE  Delivers(m[1].src, calls, amount) > 0
<1> DEFINE c == m[1].src
<1>1. Minimal \in Nat
  BY DEF Minimal
<1>2. c \in EvmChains => Delivers(c, calls, Minimal) > 0
  BY DEF Accepted
<1>3. c \in EvmChains => Minimal \in Nat \ {0}
  BY <1>1, <1>2, NothingYieldsNothing
<1> HIDE DEF c
<1>4. c \in EvmChains => \E x \in Nat \ {0} : Delivers(c, calls, x) > 0
  BY <1>2, <1>3
<1>5. Delivers(c, calls, amount) > 0
  BY <1>4, DeliversPositive
<1>6. QED
  BY <1>5 DEF c

\* The worker can spend the gain of a step that has finished.
LEMMA GainIsThere ==
    ASSUME TypeInv, DeliveryInv, Connected(route), task.index < Len(route), HasFinished(task.index),
           NEW own \in SpentFrom(route[task.index + 1])
    PROVE  Settle(task.index) > 0 /\ Balance(ledger, own) >= Settle(task.index)
<1>1. PICK i \in Steps : i = task.index
  BY DEF TypeInv, TypeOK
<1>2. ran[i] = "ok" /\ LatestBalance(i) \in Nat /\ Watched(route[i]) # {} /\ TypeOK
  BY <1>1, FinishedFacts DEF TypeInv
<1>3. arrived[i] \in Nat /\ task.origin[i] \in Nat /\ task.origin[i] + arrived[i] <= LatestBalance(i)
  BY <1>1, <1>2 DEF DeliveryInv, Noted, TypeOK, NoBalance
<1>4. LatestBalance(i) > task.origin[i]
  <2>1. CASE arrived[i] = 0
    <3>1. IsBridgeStep(route[i])
      BY <1>2, <2>1 DEF DeliveryInv, InTurn
    <3>2. QED
      BY <1>1, <3>1 DEF HasFinished
  <2>2. CASE arrived[i] # 0
    BY <1>2, <1>3, <2>2
  <2>3. QED
    BY <2>1, <2>2
<1>5. Settle(i) = LatestBalance(i) - task.origin[i]
  BY <1>4 DEF Settle
<1>6. Settle(i) > 0 /\ LatestBalance(i) >= Settle(i)
  BY <1>2, <1>3, <1>4, <1>5
<1>7. own \in Goal(route[i])
  <2>1. i \in 1..(Len(route) - 1)
    BY <1>1, <1>2, RouteType DEF TypeOK, Steps
  <2>2. QED
    BY <1>1, <2>1 DEF Connected
<1>8. Goal(route[i]) = {own}
  BY <1>2, <1>7, GoalExists
<1>9. Balance(ledger, own) = LatestBalance(i)
  BY <1>8, LatestIsGoal
<1>10. QED
  BY <1>1, <1>6, <1>9

LEMMA ClaimKeepsFunded ==
    ASSUME TypeInv, FundedInv, Claim
    PROVE  FundedInv'
<1>1. UNCHANGED <<route, txFee, assets, approved, claimed, ran, ledger, transit, arrived>>
  BY DEF Claim, world
<1>2. PICK fee \in Nat :
        /\ fee < Amount /\ fee \in CalculateFee(assets, ledger, approved, drawn, txFee, route)
        /\ task' = ClaimedTask(fee)
        /\ \/ Source \in EvmChains /\ pending' = pending
           \/ \A tx \in pending' : tx.kind = "claim"
  BY ClaimEffect
<1>3. TypeOK /\ ~claimed
  BY ClaimEffect DEF TypeInv
<1>4. Steps' = Steps /\ Source' = Source
  BY <1>1 DEF Steps, Source
<1>5. \A tx \in pending' : tx.kind = "claim"
  BY <1>2, <1>3 DEF TypeInv, ClaimFirst
<1>6. Funded' /\ NothingReverts'
  BY <1>1, <1>3, <1>4 DEF FundedInv, Funded, NothingReverts
<1>7. Yielding'
  <2>1. Source \in SubChains => task'.spend[1] = Amount
    BY <1>2, <1>3, ClaimedTaskType, ChainsApart
  <2>2. QED
    BY <1>4, <1>5, <2>1 DEF Yielding
<1>8. Priced'
  <2>1. route \in Seq(MergedStep) \ {<<>>} /\ txFee \in Nat
    BY <1>3, RouteType DEF TypeOK
  <2>2. \A i \in 1..Len(route) : Accepted(approved, route[i])
    BY <1>2, <2>1, FeeType
  <2>3. QED
    BY <1>1, <1>4, <2>2 DEF Priced, Steps
<1>9. QED
  BY <1>6, <1>7, <1>8 DEF FundedInv

\* A transaction that is sent for a step spends what was settled, and yields something.
LEMMA ExecuteYields ==
    ASSUME TypeInv, Priced, claimed, NEW t \in TaskType, ExecuteStep(t), ran[t.index] = "no",
           t.spend[t.index] > 0, t.index = task.index \/ pending = {}, t.index = task.index => t = task,
           Yielding, UNCHANGED <<route, drawn>>
    PROVE  Yielding'
<1> DEFINE i == t.index
<1>1. TypeOK /\ i \in Steps /\ t.spend[i] \in Nat
  BY DEF TypeInv, TypeOK, TaskType
<1>2. task'.index = i /\ task'.spend = t.spend
  BY <1>1, ExecuteEffect
<1>3. \A tx \in pending : tx.kind = "step"
  BY DEF TypeInv, TypeOK, ClaimFirst
<1> SUFFICES ASSUME NEW tx \in pending'
             PROVE  /\ tx.kind = "step" /\ tx.amount = t.spend[i]
                    /\ route[i][1].src \in EvmChains => HandlerPays(drawn, route[i][1].src, tx.calls)
                    /\ Delivers(route[i][1].src, tx.calls, tx.amount) > 0
  BY <1>2 DEF Yielding, HandlerPays
<1>4. CASE tx \in pending
  BY <1>2, <1>3, <1>4 DEF Yielding
<1>5. CASE tx \notin pending
  <2>1. tx.kind = "step" /\ tx.amount = t.spend[i] /\ tx.calls \in Sendable(i, t.spend[i])
    BY <1>1, <1>5, ExecuteEffect
  <2>2. /\ tx.calls \in DeriveCalls(route[i])
        /\ route[i][1].src \in EvmChains => HandlerPays(drawn, route[i][1].src, tx.calls)
    BY <2>1 DEF Sendable, EstimateGas
  <2>3. Accepted(approved, route[i]) /\ route[i] \in MergedStep
    BY <1>1, RouteType DEF Priced, TypeOK
  <2>4. t.spend[i] \in Nat \ {0}
    BY <1>1
  <2>5. QED
    BY <2>1, <2>2, <2>3, <2>4, AcceptedDelivers
<1>6. QED
  BY <1>4, <1>5

LEMMA ExecutorKeepsFunded ==
    ASSUME TypeInv, DeliveryInv, Connected(route), FundedInv, RunStep \/ Advance
    PROVE  FundedInv'
<1>1. /\ claimed /\ UNCHANGED <<route, txFee, assets, approved, claimed, given>>
      /\ UNCHANGED <<ran, ledger, transit, arrived, drawn>>
  BY DEF RunStep, Advance, world
<1>2. Steps' = Steps /\ Source' = Source /\ TypeOK
  BY <1>1 DEF Steps, Source, TypeInv
<1>3. NothingReverts' /\ Priced'
  BY <1>1, <1>2 DEF FundedInv, NothingReverts, Priced
<1>4. CASE RunStep
  <2>1. ExecuteStep(task) /\ task \in TaskType
    BY <1>2, <1>4 DEF RunStep, TypeOK, TaskType
  <2>2. task'.index = task.index /\ task'.spend = task.spend
    BY <1>2, <2>1, ExecuteEffect
  <2>3. Funded'
    BY <1>1, <2>2 DEF FundedInv, Funded
  <2>4. Yielding'
    <3>1. CASE ran[task.index] = "no"
      BY <1>1, <2>1, <3>1, ExecuteYields DEF FundedInv, Funded
    <3>2. CASE ran[task.index] # "no"
      BY <1>1, <1>2, <2>1, <3>2, ExecuteEffect DEF FundedInv, Yielding, HandlerPays
    <3>3. QED
      BY <3>1, <3>2
  <2>5. QED
    BY <1>3, <2>3, <2>4 DEF FundedInv
<1>5. CASE Advance
  <2> DEFINE i == task.index
  <2>1. ExecuteStep(Settled) /\ i < Len(route) /\ HasFinished(i)
    BY <1>5 DEF Advance, Settled
  <2>2. /\ Settled \in TaskType /\ Settled.index = i + 1 /\ i + 1 \in Steps /\ i \in Nat
        /\ Settled.spend[i + 1] = Settle(i) /\ pending = {}
    BY <1>2, <2>1, SettledType, FinishedFacts, RouteType DEF TypeOK
  <2>3. task'.index = i + 1 /\ task'.spend = Settled.spend
    BY <1>2, <2>1, <2>2, ExecuteEffect
  <2>4. \A own \in SpentFrom(route[i + 1]) : Settle(i) > 0 /\ Balance(ledger, own) >= Settle(i)
    BY <2>1, GainIsThere
  <2>5. DeriveCalls(route[i + 1]) # {} /\ ran[i + 1] = "no"
    <3>1. Accepted(approved, route[i + 1])
      BY <1>1, <2>2 DEF FundedInv, Priced
    <3>2. i + 1 > i
      BY <2>2
    <3>3. QED
      BY <2>2, <3>1, <3>2 DEF Accepted, DeliveryInv, InTurn
  <2>6. SpentFrom(route[i + 1]) # {}
    BY <2>5 DEF SpentFrom
  <2>7. Settle(i) > 0
    BY <2>4, <2>6
  <2>8. Funded'
    BY <1>1, <2>2, <2>3, <2>4, <2>7 DEF Funded
  <2>9. Yielding'
    BY <1>1, <2>1, <2>2, <2>5, <2>7, ExecuteYields DEF FundedInv
  <2>10. QED
    BY <1>3, <2>8, <2>9 DEF FundedInv
<1>6. QED
  BY <1>4, <1>5

LEMMA IncludeClaimKeepsFunded ==
    ASSUME TypeInv, FundedInv, IncludeClaim
    PROVE  FundedInv'
<1>1. PICK tx \in pending, own \in SpentFrom(route[1]) :
        /\ tx.kind = "claim" /\ task.index = 1 /\ pending' = {}
        /\ UNCHANGED <<route, txFee, assets, approved, task, given>>
        /\ \/ Deliver(1, tx.calls, tx.amount, Credit(ledger, own, Amount - tx.amount))
           \/ /\ Source \notin EvmChains
              /\ ledger' = Credit(ledger, own, Amount)
              /\ UNCHANGED ran
  BY IncludeClaimEffect
<1>2. TypeOK /\ 1 \in Steps /\ Sound(ledger)
  BY RouteType DEF TypeInv, TypeOK, Sound
<1>3. Steps' = Steps /\ Source' = Source
  BY <1>1 DEF Steps, Source
<1>4. Priced' /\ Yielding'
  BY <1>1, <1>3 DEF FundedInv, Priced, Yielding
<1>5. CASE Deliver(1, tx.calls, tx.amount, Credit(ledger, own, Amount - tx.amount))
  <2>1. ran' = [ran EXCEPT ![1] = "ok"]
    BY <1>5 DEF Deliver
  <2>2. ran'[1] = "ok" /\ \A j \in Steps : j # 1 => ran'[j] = ran[j]
    BY <1>2, <2>1 DEF TypeOK
  <2>3. Funded' /\ NothingReverts'
    BY <1>1, <1>3, <2>2 DEF FundedInv, Funded, NothingReverts
  <2>4. QED
    BY <1>4, <2>3 DEF FundedInv
<1>6. CASE /\ Source \notin EvmChains
           /\ ledger' = Credit(ledger, own, Amount)
           /\ UNCHANGED ran
  <2>1. Source \in SubChains
    BY <1>2, <1>6, SourceChain DEF Source, Chain
  <2>2. task.spend[1] = Amount
    BY <1>1, <2>1 DEF FundedInv, Yielding
  <2>3. Balance(ledger, own) \in Nat /\ Amount \in Int
    BY <1>2, BalanceType
  <2>4. Balance(ledger, own) + Amount \in Nat
    BY <2>3
  <2>5. Credited(ledger, own, Amount, ledger')
    BY <1>2, <1>6, <2>3, <2>4, CreditBalance
  <2>6. Balance(ledger', own) >= Amount
    BY <2>3, <2>5 DEF Credited
  <2>7. \A other \in SpentFrom(route[1]) : other = own
    BY OneSpentFrom DEF SpentFrom
  <2>8. Funded'
    BY <1>1, <2>2, <2>6, <2>7 DEF Funded
  <2>9. NothingReverts'
    BY <1>3, <1>6 DEF FundedInv, NothingReverts
  <2>10. QED
    BY <1>4, <2>8, <2>9 DEF FundedInv
<1>7. QED
  BY <1>1, <1>5, <1>6

LEMMA IncludeStepKeepsFunded ==
    ASSUME TypeInv, FundedInv, IncludeStep
    PROVE  FundedInv'
<1>1. PICK i \in Steps : i = task.index
  BY DEF TypeInv, TypeOK
<1>2. PICK tx \in pending, own \in SpentFrom(route[i]) :
        /\ tx.kind = "step" /\ claimed /\ ran[i] = "no" /\ pending' = {}
        /\ UNCHANGED <<route, txFee, assets, approved, task, claimed, given>>
        /\ \/ Deliver(i, tx.calls, tx.amount, Credit(ledger, own, -tx.amount))
           \/ ~(/\ Balance(ledger, own) >= tx.amount
                /\ route[i][1].src \in EvmChains => HandlerPays(drawn, route[i][1].src, tx.calls)
                /\ Delivers(route[i][1].src, tx.calls, tx.amount) > 0)
  BY <1>1, IncludeStepEffect
<1>3. /\ tx.amount = task.spend[i] /\ Delivers(route[i][1].src, tx.calls, tx.amount) > 0
      /\ route[i][1].src \in EvmChains => HandlerPays(drawn, route[i][1].src, tx.calls)
      /\ Balance(ledger, own) >= tx.amount
  BY <1>1, <1>2 DEF FundedInv, Yielding, Funded
<1>4. Deliver(i, tx.calls, tx.amount, Credit(ledger, own, -tx.amount))
  BY <1>2, <1>3
<1>5. ran' = [ran EXCEPT ![i] = "ok"]
  BY <1>4 DEF Deliver
<1>6. ran'[i] = "ok" /\ \A j \in Steps : j # i => ran'[j] = ran[j]
  BY <1>5 DEF TypeInv, TypeOK
<1>7. Steps' = Steps
  BY <1>2 DEF Steps
<1>8. Funded' /\ NothingReverts' /\ Priced' /\ Yielding'
  BY <1>1, <1>2, <1>6, <1>7 DEF FundedInv, Funded, NothingReverts, Priced, Yielding
<1>9. QED
  BY <1>8 DEF FundedInv

\* No balance shrinks, no transaction is sent or included.
LEMMA OthersKeepFunded ==
    ASSUME TypeInv, FundedInv, UNCHANGED <<route, claimed, pending, ran, drawn>>,
           task'.index = task.index, task'.spend = task.spend, approved \subseteq approved',
           \A x : Balance(ledger, x) \in Nat /\ Balance(ledger', x) \in Nat
                    /\ Balance(ledger', x) >= Balance(ledger, x)
    PROVE  FundedInv'
<1>1. Steps' = Steps /\ Source' = Source
  BY DEF Steps, Source
<1>2. Funded'
  <2> SUFFICES ASSUME claimed, ran[task.index] = "no"
               PROVE  /\ task.spend[task.index] > 0
                      /\ \A own \in SpentFrom(route[task.index]) :
                            Balance(ledger', own) >= task.spend[task.index]
    BY DEF Funded
  <2>1. task.spend[task.index] \in Nat
    BY DEF TypeInv, TypeOK
  <2>2. /\ task.spend[task.index] > 0
        /\ \A own \in SpentFrom(route[task.index]) :
              Balance(ledger, own) >= task.spend[task.index]
    BY DEF FundedInv, Funded
  <2>3. QED
    BY <2>1, <2>2
<1>3. NothingReverts' /\ Yielding'
  BY <1>1 DEF FundedInv, NothingReverts, Yielding, HandlerPays
<1>4. Priced'
  <2>1. \A m : Accepted(approved, m) => Accepted(approved', m)
    BY DEF Accepted
  <2>2. QED
    BY <1>1, <2>1 DEF FundedInv, Priced
<1>5. QED
  BY <1>2, <1>3, <1>4 DEF FundedInv

LEMMA OtherStepsKeepFunded ==
    ASSUME TypeInv, FundedInv,
           Complete \/ RegisterAsset \/ WorkerApprove \/ Arrive \/ Gift \/ UNCHANGED vars
    PROVE  FundedInv'
<1>1. Sound(ledger) /\ \A x : Balance(ledger, x) \in Nat
  BY BalanceType DEF TypeInv, TypeOK, Sound
<1>2. /\ UNCHANGED <<route, claimed, pending, ran, drawn>> /\ approved \subseteq approved'
      /\ task'.index = task.index /\ task'.spend = task.spend
  BY DEF TypeInv, TypeOK, Complete, RegisterAsset, WorkerApprove, Arrive, Gift, vars, world
<1>3. \A x : Balance(ledger', x) \in Nat /\ Balance(ledger', x) >= Balance(ledger, x)
  <2>1. CASE UNCHANGED ledger
    BY <1>1, <2>1
  <2>2. ASSUME NEW e, NEW amount \in Nat \ {0}, Credited(ledger, e, amount, ledger')
        PROVE  \A x : Balance(ledger', x) \in Nat /\ Balance(ledger', x) >= Balance(ledger, x)
    <3>1. \A x : Balance(ledger', x) = Balance(ledger, x)
                   \/ Balance(ledger', x) = Balance(ledger, x) + amount
      BY <2>2 DEF Credited
    <3>2. QED
      BY <1>1, <3>1
  <2>3. CASE Arrive
    <3>1. PICK t \in transit : ledger' = Credit(ledger, t.entry, t.amount)
      BY <2>3 DEF Arrive
    <3>2. QED
      BY <2>2, <3>1, ArriveEffect
  <2>4. CASE Gift
    BY <2>2, <2>4, GiftEffect
  <2>5. QED
    BY <2>1, <2>3, <2>4 DEF Complete, RegisterAsset, WorkerApprove, vars, world
<1>4. QED
  BY <1>1, <1>2, <1>3, OthersKeepFunded

LEMMA InitFunded == Init => FundedInv
  BY DEF Init, FundedInv, Funded, Yielding, Priced, NothingReverts

LEMMA NextFunded ==
    ASSUME TypeInv, DeliveryInv, Connected(route), FundedInv, [Next]_vars
    PROVE  FundedInv'
<1>1. CASE Claim
  BY <1>1, ClaimKeepsFunded
<1>2. CASE RunStep \/ Advance
  BY <1>2, ExecutorKeepsFunded
<1>3. CASE IncludeClaim
  BY <1>3, IncludeClaimKeepsFunded
<1>4. CASE IncludeStep
  BY <1>4, IncludeStepKeepsFunded
<1>5. CASE Complete \/ RegisterAsset \/ WorkerApprove \/ Arrive \/ Gift \/ UNCHANGED vars
  BY <1>5, OtherStepsKeepFunded
<1>6. QED
  BY <1>1, <1>2, <1>3, <1>4, <1>5 DEF Next, Execute, ChainStep

LEMMA FundedInvariant ==
    ASSUME RoutesFit, RoutesConnected
    PROVE  Spec => [](TypeInv /\ DeliveryInv /\ FundedInv)
<1>1. Init => TypeInv /\ DeliveryInv /\ FundedInv
  BY InitTypes, InitDelivery, InitFunded
<1>2. TypeInv /\ DeliveryInv /\ FundedInv /\ [Next]_vars
        => (TypeInv /\ DeliveryInv /\ FundedInv)'
  <2> SUFFICES ASSUME TypeInv, DeliveryInv, FundedInv, [Next]_vars
               PROVE  (TypeInv /\ DeliveryInv /\ FundedInv)'
    OBVIOUS
  <2>1. Connected(route)
    BY DEF RoutesConnected, TypeInv, TypeOK
  <2>2. QED
    BY <2>1, NextTypes, NextDelivery, NextFunded
<1>3. QED
  BY <1>1, <1>2, PTL DEF Spec

\* Where, besides, each step spends what its predecessor has delivered, no transaction that
\* was sent fails: the worker has what it spends, and the price of the claim has shown that
\* every call of a batch gets what the one before yields, whatever the amount.
THEOREM NoneReverts ==
    ASSUME RoutesFit, RoutesConnected
    PROVE  Spec => []NothingReverts
<1>1. FundedInv => NothingReverts
  BY DEF FundedInv
<1>2. QED
  BY <1>1, FundedInvariant, PTL

-----------------------------------------------------------------------------
(***************************************************************************)
(* What the handlers have paid of their own native funds.                  *)
(***************************************************************************)
HandlersFit == \A r \in Routes : HandlersPay(r)

\* A merged step takes what its calls do.
LEMMA StepValueIs ==
    ASSUME NEW m \in MergedStep, NEW c
    PROVE  /\ StepValue(m, c) \in Nat
           /\ \A calls \in DeriveCalls(m) : m[1].src = c => StepValue(m, c) = Values(c, calls)
<1>1. CASE DeriveCalls(m) = {}
  BY <1>1 DEF StepValue
<1>2. CASE DeriveCalls(m) # {}
  <2> DEFINE chosen == CHOOSE calls \in DeriveCalls(m) : TRUE
  <2>1. chosen \in DeriveCalls(m)
    BY <1>2
  <2>2. StepValue(m, c) = IF m[1].src = c THEN Values(c, chosen) ELSE 0
    BY <1>2 DEF StepValue
  <2> HIDE DEF chosen
  <2>3. Values(c, chosen) \in Nat
    BY <2>1, DerivedValues
  <2>4. \A calls \in DeriveCalls(m) : calls = chosen
    BY <2>1, DerivedUnique
  <2>5. QED
    BY <2>2, <2>3, <2>4
<1>3. QED
  BY <1>1, <1>2

\* Adding up what one step more takes.
LEMMA TotalValueStep ==
    ASSUME TypeOK, NEW c
    PROVE  /\ TotalValue(route, c)[0] = 0
           /\ \A i \in 0..Len(route) : TotalValue(route, c)[i] \in Nat
           /\ \A i \in Steps : TotalValue(route, c)[i]
                                 = TotalValue(route, c)[i - 1] + StepValue(route[i], c)
<1> DEFINE n == Len(route)
           x == [i \in 1..n |-> StepValue(route[i], c)]
           Equation(f) == f = [i \in 0..n |-> IF i = 0 THEN 0 ELSE f[i - 1] + StepValue(route[i], c)]
           value == CHOOSE f : Equation(f)
<1>1. n \in Nat /\ \A i \in 1..n : StepValue(route[i], c) \in Nat
  BY RouteType, StepValueIs DEF TypeOK, Steps
<1>2. x \in [1..n -> Nat] /\ \A i \in 1..n : x[i] = StepValue(route[i], c)
  BY <1>1
<1> HIDE DEF x
<1>3. ASSUME NEW f
      PROVE  Equation(f) <=> IsSum(f, n, x)
  <2>1. \A i \in 0..n : i # 0 => x[i] = StepValue(route[i], c)
    BY <1>1, <1>2
  <2>2. QED
    BY <2>1 DEF IsSum
<1>4. PICK f : Equation(f)
  <2> HIDE DEF Equation
  <2>1. QED
    BY <1>1, <1>2, <1>3, SumDefined
<1>5. Equation(value)
  <2> HIDE DEF Equation
  <2>1. QED
    BY <1>4
<1>6. IsSum(value, n, x)
  <2> HIDE DEF Equation, value
  <2>1. QED
    BY <1>3, <1>5
<1>7. value = TotalValue(route, c)
  BY DEF TotalValue
<1> HIDE DEF value
<1> DEFINE S == {i \in Nat : value[i] \in Nat}
<1>8. 0 \in S /\ value[0] = 0
  BY <1>1, <1>6 DEF IsSum
<1>9. \A i \in 1..n : value[i] = value[i - 1] + x[i]
  BY <1>1, <1>6 DEF IsSum
<1>10. ASSUME NEW i \in 1..n, i - 1 \in S
       PROVE  i \in S
  BY <1>1, <1>2, <1>9, <1>10
<1>11. 0..n \subseteq S
  <2> HIDE DEF S
  <2>1. QED
    BY <1>1, <1>8, <1>10, InductionUpto
<1>12. QED
  BY <1>2, <1>7, <1>8, <1>9, <1>11 DEF Steps

\* Executing the current step draws what it takes, and completes its turn.
LEMMA DeliverKeepsDrawn ==
    ASSUME TypeOK, DrawnInTurn, UNCHANGED <<route, task>>, ran[task.index] = "no",
           NEW calls \in DeriveCalls(route[task.index]), NEW amount, NEW l,
           Deliver(task.index, calls, amount, l)
    PROVE  DrawnInTurn'
<1> DEFINE i == task.index
           c == route[i][1].src
<1>1. /\ i \in Steps /\ i \in Nat /\ i - 1 \in 0..Len(route) /\ i \in 0..Len(route)
      /\ route[i] \in MergedStep /\ drawn \in [EvmChains -> Nat]
      /\ ran \in [Steps -> {"no", "ok", "failed"}]
  BY RouteType DEF TypeOK, Steps
<1>2. ran'[i] = "ok"
  BY <1>1 DEF Deliver
<1>3. ASSUME NEW e \in EvmChains
      PROVE  drawn'[e] <= TotalValue(route, e)[i]
  <2> DEFINE before == TotalValue(route, e)[i - 1]
             taken == StepValue(route[i], e)
  <2>1. TotalValue(route, e)[i] = before + taken /\ before \in Nat /\ taken \in Nat
    BY <1>1, TotalValueStep, StepValueIs
  <2>2. drawn[e] <= before /\ drawn[e] \in Nat
    BY <1>1 DEF DrawnInTurn
  <2>3. c = e => taken = Values(c, calls)
    BY <1>1, StepValueIs
  <2>4. drawn'[e] = IF c = e THEN drawn[e] + Values(c, calls) ELSE drawn[e]
    <3>1. CASE c \in EvmChains
      BY <1>1, <3>1 DEF Deliver
    <3>2. CASE c \notin EvmChains
      BY <3>2 DEF Deliver
    <3>3. QED
      BY <3>1, <3>2
  <2> HIDE DEF before, taken
  <2>5. QED
    BY <2>1, <2>2, <2>3, <2>4
<1>4. QED
  BY <1>2, <1>3 DEF DrawnInTurn

LEMMA AdvanceKeepsDrawn ==
    ASSUME TypeInv, InTurn, DrawnInTurn, Advance
    PROVE  DrawnInTurn'
<1>1. UNCHANGED <<route, ran, drawn>> /\ TypeOK
  BY DEF Advance, world, TypeInv
<1>2. task.index \in Nat /\ task.index + 1 \in Steps
  BY <1>1, SettledType, TypeParts DEF Advance, TaskType, Steps
<1>3. ran[task.index] = "ok" /\ Settled \in TaskType /\ Settled.index = task.index + 1
  BY <1>1, FinishedFacts, SettledType DEF Advance, TypeInv
<1>4. ExecuteStep(Settled)
  BY DEF Advance, Settled
<1>5. task'.index = task.index + 1
  BY <1>1, <1>3, <1>4, ExecuteEffect
<1>6. ran[task.index + 1] = "no" /\ (task.index + 1) - 1 = task.index
  BY <1>2 DEF InTurn
<1>7. QED
  BY <1>1, <1>3, <1>5, <1>6 DEF DrawnInTurn

LEMMA NextDrawn ==
    ASSUME TypeInv, InTurn, DrawnInTurn, [Next]_vars
    PROVE  DrawnInTurn'
<1>1. TypeOK /\ task \in TaskType
  BY TypeParts DEF TypeInv
<1>2. CASE Advance
  BY <1>2, AdvanceKeepsDrawn
<1>3. CASE IncludeClaim
  <2>1. PICK tx \in pending, own \in SpentFrom(route[1]) :
              /\ tx.kind = "claim" /\ task.index = 1 /\ ~claimed /\ ran[1] = "no"
              /\ claimed' = TRUE /\ pending' = {} /\ Amount - tx.amount \in Nat
              /\ UNCHANGED <<route, txFee, assets, approved, task, given>>
              /\ \/ /\ Source \in EvmChains
                    /\ tx.calls \in DeriveCalls(route[1])
                    /\ Delivers(Source, tx.calls, tx.amount) > 0
                    /\ Deliver(1, tx.calls, tx.amount, Credit(ledger, own, Amount - tx.amount))
                 \/ /\ Source \notin EvmChains
                    /\ ledger' = Credit(ledger, own, Amount)
                    /\ cost' = cost + SubTxFee
                    /\ UNCHANGED <<ran, transit, arrived, drawn>>
    BY <1>3, IncludeClaimEffect
  <2>2. CASE Source \in EvmChains
    <3>1. tx.calls \in DeriveCalls(route[task.index]) /\ ran[task.index] = "no"
      BY <2>1, <2>2
    <3>2. Deliver(task.index, tx.calls, tx.amount, Credit(ledger, own, Amount - tx.amount))
      BY <2>1, <2>2
    <3>3. QED
      BY <1>1, <2>1, <3>1, <3>2, DeliverKeepsDrawn
  <2>3. CASE Source \notin EvmChains
    BY <2>1, <2>3 DEF DrawnInTurn
  <2>4. QED
    BY <2>2, <2>3
<1>4. CASE IncludeStep
  <2>1. PICK tx \in pending, own \in SpentFrom(route[task.index]) :
              /\ tx.kind = "step" /\ tx.step = task.index /\ claimed /\ ran[task.index] = "no"
              /\ tx.calls \in DeriveCalls(route[task.index]) /\ Watched(route[task.index]) # {}
              /\ pending' = {}
              /\ UNCHANGED <<route, txFee, assets, approved, task, claimed, given>>
              /\ \/ /\ Balance(ledger, own) >= tx.amount
                    /\ Delivers(route[task.index][1].src, tx.calls, tx.amount) > 0
                    /\ Deliver(task.index, tx.calls, tx.amount, Credit(ledger, own, -tx.amount))
                 \/ /\ ~(/\ Balance(ledger, own) >= tx.amount
                         /\ route[task.index][1].src \in EvmChains =>
                               HandlerPays(drawn, route[task.index][1].src, tx.calls)
                         /\ Delivers(route[task.index][1].src, tx.calls, tx.amount) > 0)
                    /\ ran' = [ran EXCEPT ![task.index] = "failed"]
                    /\ UNCHANGED <<ledger, transit, arrived, drawn, cost>>
    BY <1>4, IncludeStepEffect
  <2>2. CASE Deliver(task.index, tx.calls, tx.amount, Credit(ledger, own, -tx.amount))
    BY <1>1, <2>1, <2>2, DeliverKeepsDrawn
  <2>3. CASE ran' = [ran EXCEPT ![task.index] = "failed"] /\ UNCHANGED drawn
    <3>1. ran'[task.index] = "failed"
      BY <1>1, <2>3 DEF TypeOK, TaskType
    <3>2. QED
      BY <2>1, <2>3, <3>1 DEF DrawnInTurn
  <2>4. QED
    BY <2>1, <2>2, <2>3
<1>5. CASE Claim
  <2>1. task'.index = task.index
    BY <1>1, <1>5, ClaimEffect DEF ClaimedTask, TaskType
  <2>2. UNCHANGED <<route, ran, drawn>>
    BY <1>5 DEF Claim, world
  <2>3. QED
    BY <2>1, <2>2 DEF DrawnInTurn
<1>6. CASE RunStep
  <2>1. task'.index = task.index
    BY <1>1, <1>6, ExecuteEffect DEF RunStep
  <2>2. UNCHANGED <<route, ran, drawn>>
    BY <1>6 DEF RunStep, world
  <2>3. QED
    BY <2>1, <2>2 DEF DrawnInTurn
<1>7. CASE Complete \/ RegisterAsset \/ WorkerApprove \/ Arrive \/ Gift \/ UNCHANGED vars
  <2>1. UNCHANGED <<route, ran, drawn>> /\ task'.index = task.index
    BY <1>1, <1>7 DEF Complete, RegisterAsset, WorkerApprove, Arrive, Gift, vars, world, TaskType
  <2>2. QED
    BY <2>1 DEF DrawnInTurn
<1>8. QED
  BY <1>2, <1>3, <1>4, <1>5, <1>6, <1>7 DEF Next, Execute, ChainStep

LEMMA InitDrawn == Init => DrawnInTurn
<1> SUFFICES ASSUME Init PROVE DrawnInTurn
  OBVIOUS
<1>1. task.index = 1 /\ ran[1] = "no" /\ \A c \in EvmChains : drawn[c] = 0
  <2>1. Len(route) \in Nat \ {0}
    BY DeliveryAssumption, LenProperties, EmptySeq DEF Init
  <2>2. QED
    BY <2>1 DEF Init, Steps
<1>2. TypeOK
  BY InitTypes DEF TypeInv
<1>3. \A c \in EvmChains : TotalValue(route, c)[0] = 0
  BY <1>2, TotalValueStep
<1> DEFINE turn == IF ran[task.index] = "ok" THEN task.index ELSE task.index - 1
<1>4. turn = 0
  BY <1>1
<1>5. DrawnInTurn <=> \A c \in EvmChains : drawn[c] <= TotalValue(route, c)[turn]
  BY DEF DrawnInTurn
<1> HIDE DEF turn
<1>6. \A c \in EvmChains : drawn[c] <= TotalValue(route, c)[turn]
  <2>1. TAKE c \in EvmChains
  <2>2. drawn[c] = 0 /\ TotalValue(route, c)[turn] = 0
    BY <1>1, <1>3, <1>4
  <2>3. QED
    BY <2>2
<1>7. QED
  BY <1>5, <1>6

LEMMA DrawnInvariant ==
    ASSUME RoutesFit, RoutesConnected
    PROVE  Spec => [](TypeInv /\ DeliveryInv /\ FundedInv /\ DrawnInTurn)
<1>1. TypeInv /\ DeliveryInv /\ DrawnInTurn /\ [Next]_vars => DrawnInTurn'
  BY NextDrawn DEF DeliveryInv
<1>2. QED
  BY <1>1, InitDrawn, FundedInvariant, PTL DEF Spec

\* The handler of a chain has what the current step takes.
LEMMA HandlerHasValue ==
    ASSUME HandlersFit, TypeInv, DrawnInTurn, ran[task.index] = "no",
           NEW calls \in DeriveCalls(route[task.index]), route[task.index][1].src \in EvmChains
    PROVE  HandlerPays(drawn, route[task.index][1].src, calls)
<1> DEFINE i == task.index
           c == route[i][1].src
           total == TotalValue(route, c)
<1>1. TypeOK /\ route \in Routes /\ route[i] \in MergedStep /\ i \in Steps /\ i \in Nat
  BY RouteType DEF TypeInv, TypeOK, Steps
<1>2. i \in 0..Len(route) /\ i - 1 \in 0..Len(route) /\ drawn[c] \in Nat
  BY <1>1 DEF TypeOK, Steps
<1>3. total[i] = total[i - 1] + Values(c, calls) /\ total[i - 1] \in Nat
  <2>1. StepValue(route[i], c) = Values(c, calls)
    BY <1>1, StepValueIs
  <2>2. QED
    BY <1>1, <1>2, <2>1, TotalValueStep
<1>4. total[i] <= Reserve
  BY <1>1, <1>2 DEF HandlersFit, HandlersPay
<1>5. drawn[c] <= total[i - 1]
  BY DEF DrawnInTurn
<1>6. Values(c, calls) \in Nat /\ Reserve \in Nat
  BY <1>1, DerivedValues, FeesAssumption
<1> HIDE DEF total, c
<1>7. drawn[c] + Values(c, calls) <= Reserve
  BY <1>2, <1>3, <1>4, <1>5, <1>6
<1>8. QED
  BY <1>7 DEF HandlerPays, c

-----------------------------------------------------------------------------
\* Under the same conditions, and where the handlers have the native funds the whole route
\* takes, a claimed task is never refused: its calls can be built, the worker has the funds and
\* has approved the handler, and no node sees a call revert.
THEOREM ClaimedRuns ==
    ASSUME RoutesFit, RoutesConnected, HandlersFit
    PROVE  Spec => []ClaimedCanRun
<1>1. TypeInv /\ FundedInv /\ DrawnInTurn => ClaimedCanRun
  <2> SUFFICES ASSUME TypeInv, FundedInv, DrawnInTurn, NEW i \in Steps, claimed, i = task.index, ran[i] = "no",
                      Watched(route[i]) # {}
               PROVE  Sendable(i, task.spend[i]) # {}
    BY DEF ClaimedCanRun
  <2>1. /\ task.spend[i] > 0
        /\ \A own \in SpentFrom(route[i]) : Balance(ledger, own) >= task.spend[i]
    BY DEF FundedInv, Funded
  <2>2. Accepted(approved, route[i])
    BY DEF FundedInv, Priced
  <2>3. PICK calls \in DeriveCalls(route[i]) : TRUE
    BY <2>2 DEF Accepted
  <2>4. task.spend[i] \in Nat \ {0} /\ route[i] \in MergedStep
    BY <2>1, RouteType DEF TypeInv, TypeOK
  <2>5. Delivers(route[i][1].src, calls, task.spend[i]) > 0
    BY <2>2, <2>4, AcceptedDelivers
  <2> DEFINE own == TakenFrom(route[i][1].src, calls[1].params, Worker(route[i][1].src))
  <2>6. own \in SpentFrom(route[i])
    BY DEF SpentFrom
  <2>7. Balance(ledger, own) >= task.spend[i]
    BY <2>1, <2>6
  <2>8. route[i][1].src \in EvmChains => HandlerPays(drawn, route[i][1].src, calls)
    BY <2>3, HandlerHasValue
  <2>9. route[i][1].src \in EvmChains =>
          EstimateGas(ledger, approved, drawn, route[i], calls, task.spend[i])
    BY <2>2, <2>5, <2>7, <2>8 DEF Accepted, EstimateGas
  <2>10. QED
    BY <2>9 DEF Sendable
<1>2. QED
  BY <1>1, DrawnInvariant, PTL

-----------------------------------------------------------------------------
(***************************************************************************)
(* The fee of an EVM claim is worth what executing the task costs: given    *)
(* that the fees in the tables cover what the calls take besides.           *)
(***************************************************************************)
FeesFit == \A r \in Routes : FeesAgree(r)

LEMMA SmallRemainder ==
    ASSUME NEW a \in Nat, NEW m \in Nat \ {0}, a < m
    PROVE  a % m = a
  OBVIOUS

\* Fees that are added up in a u32 add up if their sum is one.
LEMMA NoWrap ==
    ASSUME NEW r, Len(r) \in Nat, NEW x \in [1..Len(r) -> Nat], NEW g, IsSum(g, Len(r), x),
           \A i \in 1..Len(r) : /\ r[i].tx_fee_in_usd \in Nat /\ r[i].extra_proto_fee_in_usd \in Nat
                                /\ x[i] = r[i].tx_fee_in_usd + r[i].extra_proto_fee_in_usd,
           \A i \in 0..Len(r) : g[i] < U32
    PROVE  FeeInUsd(r) = g[Len(r)]
<1>1. PICK f : WrappedSum(f, r) /\ FeeInUsd(r) = f[Len(r)]
  BY FeeInUsdEquation
<1> DEFINE S == {i \in Nat : g[i] \in Nat /\ f[i] = g[i]}
<1>2. 0 \in S
  BY <1>1 DEF IsSum, WrappedSum
<1>3. ASSUME NEW i \in 1..Len(r), i - 1 \in S
      PROVE  i \in S
  <2>1. g[i] = g[i - 1] + x[i]
    BY DEF IsSum
  <2>2. g[i] \in Nat /\ g[i] < U32
    <3>1. i \in 0..Len(r)
      OBVIOUS
    <3>2. g[i] < U32
      BY <3>1
    <3>3. g[i - 1] \in Nat
      BY <1>3
    <3>4. x[i] \in Nat
      OBVIOUS
    <3> HIDE DEF S
    <3>5. QED
      BY <2>1, <3>2, <3>3, <3>4
  <2>3. f[i] = (f[i - 1] + r[i].tx_fee_in_usd + r[i].extra_proto_fee_in_usd) % U32
    BY <1>1 DEF WrappedSum
  <2>4. f[i] = g[i] % U32
    <3>1. x[i] = r[i].tx_fee_in_usd + r[i].extra_proto_fee_in_usd /\ g[i - 1] \in Nat /\ f[i - 1] = g[i - 1]
      BY <1>3
    <3>2. g[i - 1] + r[i].tx_fee_in_usd + r[i].extra_proto_fee_in_usd = g[i - 1] + x[i]
      BY <3>1
    <3>3. QED
      BY <2>1, <2>3, <3>1, <3>2
  <2>5. g[i] % U32 = g[i]
    BY <2>2, SmallRemainder
  <2>6. QED
    BY <2>2, <2>4, <2>5
<1>4. 0..Len(r) \subseteq S
  <2> HIDE DEF S
  <2>1. QED
    BY <1>2, <1>3, InductionUpto
<1>5. QED
  BY <1>1, <1>4

LEMMA StepFeeType ==
    ASSUME NEW m \in MergedStep, HasFees(m), NEW gas \in Nat
    PROVE  StepFee(m, gas) \in Nat /\ ExtraFees(m) \in Nat
<1>1. ExtraFees(m) \in Nat
  BY ExtraFeesType DEF HasFees
<1>2. QED
  BY <1>1 DEF StepFee, SubTxFee

\* The fees of the steps.
StepFees(r, gas) == [i \in 1..Len(r) |-> StepFee(r[i], gas)]

LEMMA TotalFeeSum ==
    ASSUME NEW r, Len(r) \in Nat, NEW gas \in Nat,
           \A i \in 1..Len(r) : r[i] \in MergedStep /\ HasFees(r[i])
    PROVE  /\ StepFees(r, gas) \in [1..Len(r) -> Nat]
           /\ IsSum(TotalFee(r, gas), Len(r), StepFees(r, gas))
           /\ TotalFee(r, gas) \in [0..Len(r) -> Nat]
<1> DEFINE x == StepFees(r, gas)
           Equation(f) == f = [i \in 0..Len(r) |-> IF i = 0 THEN 0 ELSE f[i - 1] + StepFee(r[i], gas)]
           fee == CHOOSE f : Equation(f)
<1>1. x \in [1..Len(r) -> Nat] /\ \A i \in 1..Len(r) : x[i] = StepFee(r[i], gas)
  BY StepFeeType DEF StepFees
<1> HIDE DEF x
<1>2. ASSUME NEW f
      PROVE  Equation(f) <=> IsSum(f, Len(r), x)
  <2>1. \A i \in 0..Len(r) : i # 0 => x[i] = StepFee(r[i], gas)
    BY <1>1
  <2>2. QED
    BY <2>1 DEF IsSum
<1>3. PICK f : Equation(f)
  <2> HIDE DEF Equation
  <2>1. QED
    BY <1>1, <1>2, SumDefined
<1>4. Equation(fee)
  <2> HIDE DEF Equation
  <2>1. QED
    BY <1>3
<1>5. IsSum(fee, Len(r), x)
  <2> HIDE DEF Equation, fee
  <2>1. QED
    BY <1>2, <1>4
<1>6. fee = TotalFee(r, gas)
  BY DEF TotalFee
<1> HIDE DEF fee
<1> DEFINE S == {i \in Nat : fee[i] \in Nat}
<1>7. 0 \in S
  BY <1>5 DEF IsSum
<1>8. ASSUME NEW i \in 1..Len(r), i - 1 \in S
      PROVE  i \in S
  <2>1. fee[i] = fee[i - 1] + x[i]
    BY <1>5 DEF IsSum
  <2>2. QED
    BY <1>1, <1>8, <2>1
<1>9. 0..Len(r) \subseteq S
  <2> HIDE DEF S
  <2>1. QED
    BY <1>7, <1>8, InductionUpto
<1>10. fee \in [0..Len(r) -> Nat]
  <2>1. fee = [i \in 0..Len(r) |-> IF i = 0 THEN 0 ELSE fee[i - 1] + x[i]]
    BY <1>5 DEF IsSum
  <2>2. \A i \in 0..Len(r) : fee[i] \in Nat
    BY <1>9
  <2>3. QED
    BY <2>1, <2>2
<1>11. QED
  BY <1>1, <1>5, <1>6, <1>10 DEF x

\* A quotient falls short of its dividend by less than the divisor.
LEMMA Rounding ==
    ASSUME NEW total \in Nat, NEW price \in Nat \ {0}
    PROVE  (total \div price) * price + price > total
  OBVIOUS

\* What a step is said to cost in the price of a claim.
LEMMA SimulatedFee ==
    ASSUME NEW l, NEW allowed, NEW used, NEW gas \in Nat, NEW m \in MergedStep,
           NEW r \in Simulate(l, allowed, used, gas, m, Minimal)
    PROVE  /\ HasFees(m) /\ r.tx_fee_in_usd \in Nat /\ r.extra_proto_fee_in_usd \in Nat
           /\ StepFee(m, gas) = r.tx_fee_in_usd + r.extra_proto_fee_in_usd
<1>1. /\ \A k \in 1..Len(m) : ExtraInfo(m[k]) # {}
      /\ r = [tx_fee_in_usd |-> IF m[1].src \in EvmChains THEN gas ELSE SubTxFee,
              extra_proto_fee_in_usd |-> ExtraFees(m)]
  BY DEF Simulate
<1>2. r.tx_fee_in_usd \in Nat /\ r.extra_proto_fee_in_usd \in Nat
  BY SimulateType
<1>3. QED
  BY <1>1, <1>2 DEF HasFees, StepFee

LEMMA FeeIsTotal ==
    ASSUME NEW r \in Seq(MergedStep) \ {<<>>}, FeesAgree(r), NEW gas \in TxFees, NEW registered,
           NEW l, NEW allowed, NEW used, NEW fee \in CalculateFee(registered, l, allowed, used, gas, r)
    PROVE  /\ \A i \in 1..Len(r) : HasFees(r[i])
           /\ LET price == GetPrice(r[1][1].src, r[1][1].spend)
              IN  fee * price + price > Unit * TotalFee(r, gas)[Len(r)]
<1> DEFINE Offers(i) == {x \in Simulate(l, allowed, used, gas, r[i], Minimal) :
                           <<r[i][1].src, r[i][1].spend>> \in registered}
           results == [i \in 1..Len(r) |-> CHOOSE x \in Offers(i) : TRUE]
           price == GetPrice(r[1][1].src, r[1][1].spend)
           total == TotalFee(r, gas)
           x == StepFees(r, gas)
<1>1. Len(r) \in Nat /\ gas \in Nat /\ \A i \in 1..Len(r) : r[i] \in MergedStep
  BY LenProperties, ElementOfSeq
<1>2. SimulateSolution(registered, l, allowed, used, gas, r)
        = When(\A i \in 1..Len(r) : Offers(i) # {}, results)
  BY DEF SimulateSolution
<1>3. /\ \A i \in 1..Len(r) : Offers(i) # {}
      /\ fee = (Unit * FeeInUsd(results)) \div price
  <2> HIDE DEF Offers, results
  <2>1. QED
    BY <1>2 DEF CalculateFee, When
<1>4. \A i \in 1..Len(r) : (CHOOSE y \in Offers(i) : TRUE) \in Offers(i)
  BY <1>3
<1>5. \A i \in 1..Len(r) :
        /\ HasFees(r[i])
        /\ results[i].tx_fee_in_usd \in Nat /\ results[i].extra_proto_fee_in_usd \in Nat
        /\ StepFee(r[i], gas) = results[i].tx_fee_in_usd + results[i].extra_proto_fee_in_usd
  <2> SUFFICES ASSUME NEW i \in 1..Len(r)
               PROVE  /\ HasFees(r[i])
                      /\ results[i].tx_fee_in_usd \in Nat /\ results[i].extra_proto_fee_in_usd \in Nat
                      /\ StepFee(r[i], gas) = results[i].tx_fee_in_usd
                                                + results[i].extra_proto_fee_in_usd
    OBVIOUS
  <2> DEFINE y == CHOOSE y \in Offers(i) : TRUE
  <2>1. y \in Simulate(l, allowed, used, gas, r[i], Minimal) /\ results[i] = y
    BY <1>4
  <2> HIDE DEF y, results, Offers
  <2>2. QED
    BY <1>1, <2>1, SimulatedFee
<1>6. Len(results) = Len(r)
  <2> DEFINE All == {results[i] : i \in 1..Len(r)}
  <2>1. results \in [1..Len(r) -> All] /\ DOMAIN results = 1..Len(r)
    OBVIOUS
  <2> HIDE DEF results, All
  <2>2. results \in Seq(All)
    BY <1>1, <2>1, SeqDef
  <2>3. DOMAIN results = 1..Len(results) /\ Len(results) \in Nat
    BY <2>2, LenProperties
  <2>4. QED
    BY <1>1, <2>1, <2>3
<1> HIDE DEF results
<1>7. /\ x \in [1..Len(r) -> Nat] /\ IsSum(total, Len(r), x) /\ total \in [0..Len(r) -> Nat]
      /\ \A i \in 1..Len(r) : x[i] = StepFee(r[i], gas)
  BY <1>1, <1>5, TotalFeeSum DEF StepFees
<1>8. \A i \in 0..Len(r) : total[i] < U32
  BY <1>5 DEF FeesAgree
<1> HIDE DEF total, x
<1>9. FeeInUsd(results) = total[Len(r)]
  BY <1>1, <1>5, <1>6, <1>7, <1>8, NoWrap
<1>10. price \in Nat \ {0}
  BY DEF GetPrice
<1>11. Unit * total[Len(r)] \in Nat
  <2>1. total[Len(r)] \in Nat
    BY <1>1, <1>7
  <2>2. QED
    BY <2>1
<1> HIDE DEF price
<1>12. fee * price + price > Unit * total[Len(r)]
  BY <1>3, <1>9, <1>10, <1>11, Rounding
<1>13. QED
  BY <1>5, <1>12 DEF price, total

\* A step costs the worker and the handler what its fees were.
LEMMA StepCost ==
    ASSUME TypeInv, FeesAgree(route), NEW i \in Steps, NEW calls \in DeriveCalls(route[i]),
           NEW amount, NEW l, Deliver(i, calls, amount, l), \A j \in Steps : HasFees(route[j])
    PROVE  cost' \in Nat /\ cost' <= cost + StepFee(route[i], txFee)
<1> DEFINE c == route[i][1].src
<1>1. route[i] \in MergedStep /\ txFee \in Nat /\ cost \in Nat
  BY RouteType DEF TypeInv, TypeOK
<1> DEFINE worth == Worth(c, Values(c, calls))
<1>2. worth \in Nat /\ ExtraFees(route[i]) \in Nat
  BY <1>1, DerivedValues, WorthType, StepFeeType
<1>3. c \in EvmChains => worth <= ExtraFees(route[i])
  BY DEF FeesAgree, Steps
<1>4. cost' = IF c \in EvmChains THEN cost + txFee + worth ELSE cost + SubTxFee
  BY DEF Deliver
<1>5. StepFee(route[i], txFee) = (IF c \in EvmChains THEN txFee ELSE SubTxFee) + ExtraFees(route[i])
  BY DEF StepFee
<1>6. SubTxFee \in Nat
  BY DEF SubTxFee
<1> HIDE DEF c, worth
<1>7. QED
  BY <1>1, <1>2, <1>3, <1>4, <1>5, <1>6

\* Adding up the fees of one step more.
LEMMA TotalFeeStep ==
    ASSUME TypeInv, \A j \in Steps : HasFees(route[j])
    PROVE  /\ \A i \in 0..Len(route) : TotalFee(route, txFee)[i] \in Nat
           /\ TotalFee(route, txFee)[0] = 0
           /\ \A i \in Steps : TotalFee(route, txFee)[i]
                                 = TotalFee(route, txFee)[i - 1] + StepFee(route[i], txFee)
<1>1. Len(route) \in Nat /\ txFee \in Nat /\ \A i \in 1..Len(route) : route[i] \in MergedStep
  BY RouteType DEF TypeInv, TypeOK, Steps
<1> DEFINE total == TotalFee(route, txFee)
           x == StepFees(route, txFee)
<1>2. IsSum(total, Len(route), x) /\ total \in [0..Len(route) -> Nat]
  BY <1>1, TotalFeeSum DEF Steps
<1>3. \A i \in 1..Len(route) : x[i] = StepFee(route[i], txFee)
  BY DEF StepFees
<1> HIDE DEF total, x
<1>4. \A i \in 0..Len(route) : total[i] \in Nat
  BY <1>2
<1>5. total[0] = 0 /\ \A i \in 1..Len(route) : total[i] = total[i - 1] + x[i]
  BY <1>1, <1>2 DEF IsSum
<1>6. QED
  BY <1>3, <1>4, <1>5 DEF total, Steps

LEMMA ClaimKeepsCost ==
    ASSUME TypeInv, CostInv, FeesAgree(route), Claim
    PROVE  CostInv'
<1>1. UNCHANGED <<route, txFee, claimed, ran, cost>>
  BY DEF Claim, world
<1>2. Steps' = Steps /\ Source' = Source
  BY <1>1 DEF Steps, Source
<1>3. PICK fee \in Nat :
        /\ fee < Amount /\ fee \in CalculateFee(assets, ledger, approved, drawn, txFee, route)
        /\ task' = ClaimedTask(fee)
  BY ClaimEffect
<1>4. ~claimed /\ task.index = 1 /\ task.status = "Initialized" /\ TypeOK
  BY ClaimEffect DEF TypeInv, ClaimFirst
<1>5. task'.fee = fee /\ task'.index = task.index /\ task'.status = task.status
  BY <1>3, <1>4, TypeParts DEF ClaimedTask, TaskType
<1>6. Charged'
  <2>1. route \in Seq(MergedStep) \ {<<>>} /\ txFee \in TxFees
    BY <1>4, RouteType DEF TypeOK
  <2>2. /\ \A i \in 1..Len(route) : HasFees(route[i])
        /\ LET price == GetPrice(route[1][1].src, route[1][1].spend)
           IN  fee * price + price > Unit * TotalFee(route, txFee)[Len(route)]
    BY <1>3, <2>1, FeeIsTotal
  <2>3. QED
    BY <1>1, <1>2, <1>5, <2>2 DEF Charged, Source, Steps
<1>7. PaidInTurn'
  BY <1>1, <1>2, <1>4, <1>5 DEF CostInv, PaidInTurn
<1>8. QED
  BY <1>6, <1>7 DEF CostInv

LEMMA AdvanceKeepsCost ==
    ASSUME TypeInv, CostInv, RunStep \/ Advance
    PROVE  CostInv'
<1>1. claimed /\ UNCHANGED <<route, txFee, claimed, ran, cost>>
  BY DEF RunStep, Advance, world
<1>2. Steps' = Steps /\ Source' = Source /\ TypeOK
  BY <1>1 DEF Steps, Source, TypeInv
<1>3. task \in TaskType /\ task.index \in Nat
  BY <1>2, TypeParts DEF TaskType, Steps
<1>4. CASE RunStep
  <2>1. ExecuteStep(task) /\ task.status # "Completed"
    BY <1>4 DEF RunStep
  <2>2. task'.index = task.index /\ task'.fee = task.fee /\ task'.status # "Completed"
    BY <1>2, <1>3, <2>1, ExecuteEffect DEF ExecuteStep
  <2>3. QED
    BY <1>1, <1>2, <2>2 DEF CostInv, Charged, PaidInTurn
<1>5. CASE Advance
  <2>1. ran[task.index] = "ok" /\ Settled \in TaskType /\ Settled.index = task.index + 1
    BY <1>5, FinishedFacts, SettledType DEF Advance
  <2>2. Settled.fee = task.fee /\ Settled.status = task.status
    BY <1>3 DEF Settled, TaskType
  <2>3. ExecuteStep(Settled) /\ task.status # "Completed" /\ task.index + 1 \in Steps
    BY <1>5, SettledType DEF Advance, Settled
  <2>4. task'.index = task.index + 1 /\ task'.fee = task.fee
    BY <1>2, <2>1, <2>2, <2>3, ExecuteEffect
  <2>5. task'.status # "Completed"
    <3>1. ran[task.index + 1] = "no"
      BY <1>3, <2>3 DEF CostInv, PaidInTurn
    <3>2. task'.status = "Executing"
      BY <1>2, <2>1, <2>3, <3>1, ExecuteEffect
    <3>3. QED
      BY <3>2
  <2>6. ran[task.index + 1] = "no" /\ (task.index + 1) - 1 = task.index
    BY <1>3, <2>3 DEF CostInv, PaidInTurn
  <2>7. Charged'
    BY <1>1, <1>2, <2>4 DEF CostInv, Charged
  <2>8. PaidInTurn'
    <3>1. \A i \in Steps : i > task.index + 1 => ran[i] = "no"
      BY <1>3 DEF CostInv, PaidInTurn, Steps
    <3>2. Source \in EvmChains => cost <= TotalFee(route, txFee)[task.index]
      BY <1>1, <2>1 DEF CostInv, PaidInTurn
    <3>3. QED
      BY <1>1, <1>2, <2>4, <2>5, <2>6, <3>1, <3>2 DEF PaidInTurn
  <2>9. QED
    BY <2>7, <2>8 DEF CostInv
<1>6. QED
  BY <1>4, <1>5

LEMMA IncludeClaimKeepsCost ==
    ASSUME TypeInv, CostInv, FeesAgree(route), IncludeClaim
    PROVE  CostInv'
<1>1. PICK tx \in pending, own \in SpentFrom(route[1]) :
              /\ tx.kind = "claim" /\ task.index = 1 /\ ~claimed /\ ran[1] = "no"
              /\ claimed' = TRUE /\ pending' = {} /\ Amount - tx.amount \in Nat
              /\ UNCHANGED <<route, txFee, assets, approved, task, given>>
              /\ \/ /\ Source \in EvmChains
                    /\ tx.calls \in DeriveCalls(route[1])
                    /\ Delivers(Source, tx.calls, tx.amount) > 0
                    /\ Deliver(1, tx.calls, tx.amount, Credit(ledger, own, Amount - tx.amount))
                 \/ /\ Source \notin EvmChains
                    /\ ledger' = Credit(ledger, own, Amount)
                    /\ cost' = cost + SubTxFee
                    /\ UNCHANGED <<ran, transit, arrived, drawn>>
  BY IncludeClaimEffect
<1>2. Steps' = Steps /\ Source' = Source
  BY <1>1 DEF Steps, Source
<1>3. 1 \in Steps /\ Len(route) \in Nat /\ ran \in [Steps -> {"no", "ok", "failed"}]
  BY RouteType DEF TypeInv, TypeOK
<1>4. \A i \in Steps : HasFees(route[i])
  BY <1>1 DEF CostInv, Charged
<1>5. Charged'
  BY <1>1, <1>2 DEF CostInv, Charged
<1>6. task.status = "Initialized" /\ cost = 0
  BY <1>1 DEF TypeInv, ClaimFirst, CostInv, PaidInTurn
<1>7. CASE Source \in EvmChains
  <2>1. Deliver(1, tx.calls, tx.amount, Credit(ledger, own, Amount - tx.amount))
    BY <1>1, <1>7
  <2>2. ran' = [ran EXCEPT ![1] = "ok"]
    BY <2>1 DEF Deliver
  <2>3. cost' \in Nat /\ cost' <= cost + StepFee(route[1], txFee)
    BY <1>1, <1>3, <1>4, <1>7, <2>1, StepCost
  <2>4. /\ TotalFee(route, txFee)[0] = 0 /\ TotalFee(route, txFee)[1] \in Nat
        /\ TotalFee(route, txFee)[1] = TotalFee(route, txFee)[0] + StepFee(route[1], txFee)
    <3>1. 1 \in 0..Len(route) /\ 1 - 1 = 0
      BY <1>3 DEF Steps
    <3>2. QED
      BY <1>3, <1>4, <3>1, TotalFeeStep
  <2>5. cost' <= TotalFee(route, txFee)[1]
    BY <1>6, <2>3, <2>4
  <2>6. ran'[1] = "ok" /\ \A i \in Steps : i > 1 => ran'[i] = "no"
    BY <1>1, <1>3, <2>2 DEF CostInv, PaidInTurn
  <2>7. PaidInTurn'
    BY <1>1, <1>2, <1>6, <2>5, <2>6 DEF PaidInTurn
  <2>8. QED
    BY <1>5, <2>7 DEF CostInv
<1>8. CASE Source \notin EvmChains
  <2>1. UNCHANGED ran
    BY <1>1, <1>8
  <2>2. PaidInTurn'
    BY <1>1, <1>2, <1>6, <1>8, <2>1 DEF CostInv, PaidInTurn
  <2>3. QED
    BY <1>5, <2>2 DEF CostInv
<1>9. QED
  BY <1>7, <1>8

LEMMA IncludeStepKeepsCost ==
    ASSUME TypeInv, CostInv, FeesAgree(route), IncludeStep
    PROVE  CostInv'
<1>1. PICK tx \in pending, own \in SpentFrom(route[task.index]) :
              /\ tx.kind = "step" /\ tx.step = task.index /\ claimed /\ ran[task.index] = "no"
              /\ tx.calls \in DeriveCalls(route[task.index]) /\ Watched(route[task.index]) # {}
              /\ pending' = {}
              /\ UNCHANGED <<route, txFee, assets, approved, task, claimed, given>>
              /\ \/ /\ Balance(ledger, own) >= tx.amount
                    /\ Delivers(route[task.index][1].src, tx.calls, tx.amount) > 0
                    /\ Deliver(task.index, tx.calls, tx.amount, Credit(ledger, own, -tx.amount))
                 \/ /\ ~(/\ Balance(ledger, own) >= tx.amount
                         /\ route[task.index][1].src \in EvmChains =>
                               HandlerPays(drawn, route[task.index][1].src, tx.calls)
                         /\ Delivers(route[task.index][1].src, tx.calls, tx.amount) > 0)
                    /\ ran' = [ran EXCEPT ![task.index] = "failed"]
                    /\ UNCHANGED <<ledger, transit, arrived, drawn, cost>>
  BY IncludeStepEffect
<1>2. Steps' = Steps /\ Source' = Source
  BY <1>1 DEF Steps, Source
<1>3. /\ task.index \in Steps /\ task.index \in Nat /\ Len(route) \in Nat
      /\ ran \in [Steps -> {"no", "ok", "failed"}] /\ cost \in Nat
  BY RouteType DEF TypeInv, TypeOK
<1>4. \A i \in Steps : HasFees(route[i])
  BY <1>1 DEF CostInv, Charged
<1>5. Charged'
  BY <1>1, <1>2 DEF CostInv, Charged
<1>6. task.status # "Completed"
  BY <1>1 DEF CostInv, PaidInTurn
<1>7. Source \in EvmChains => cost <= TotalFee(route, txFee)[task.index - 1]
  BY <1>1 DEF CostInv, PaidInTurn
<1> DEFINE i == task.index
<1>8. CASE Deliver(i, tx.calls, tx.amount, Credit(ledger, own, -tx.amount))
  <2>1. ran' = [ran EXCEPT ![i] = "ok"]
    BY <1>8 DEF Deliver
  <2>2. cost' \in Nat /\ cost' <= cost + StepFee(route[i], txFee)
    BY <1>1, <1>3, <1>4, <1>8, StepCost
  <2>3. /\ TotalFee(route, txFee)[i] = TotalFee(route, txFee)[i - 1] + StepFee(route[i], txFee)
        /\ TotalFee(route, txFee)[i - 1] \in Nat
    <3>1. i - 1 \in 0..Len(route)
      BY <1>3 DEF Steps
    <3>2. QED
      BY <1>3, <1>4, <3>1, TotalFeeStep
  <2>4. StepFee(route[i], txFee) \in Nat
    BY <1>3, <1>4, StepFeeType, RouteType DEF TypeInv, TypeOK
  <2>5. Source \in EvmChains => cost' <= TotalFee(route, txFee)[i]
    BY <1>3, <1>7, <2>2, <2>3, <2>4
  <2>6. ran'[i] = "ok" /\ \A j \in Steps : j > i => ran'[j] = "no"
    BY <1>3, <2>1 DEF CostInv, PaidInTurn
  <2>7. PaidInTurn'
    BY <1>1, <1>2, <1>6, <2>5, <2>6 DEF PaidInTurn
  <2>8. QED
    BY <1>5, <2>7 DEF CostInv
<1>9. CASE ran' = [ran EXCEPT ![i] = "failed"] /\ UNCHANGED cost
  <2>1. ran'[i] = "failed" /\ \A j \in Steps : j > i => ran'[j] = "no"
    BY <1>3, <1>9 DEF CostInv, PaidInTurn
  <2>2. PaidInTurn'
    BY <1>1, <1>2, <1>6, <1>7, <1>9, <2>1 DEF PaidInTurn
  <2>3. QED
    BY <1>5, <2>2 DEF CostInv
<1>10. QED
  BY <1>1, <1>8, <1>9

LEMMA OtherStepsKeepCost ==
    ASSUME TypeInv, CostInv,
           Complete \/ RegisterAsset \/ WorkerApprove \/ Arrive \/ Gift \/ UNCHANGED vars
    PROVE  CostInv'
<1>1. UNCHANGED <<route, txFee, claimed, pending, ran, cost>>
  BY DEF Complete, RegisterAsset, WorkerApprove, Arrive, Gift, vars, world
<1>2. Steps' = Steps /\ Source' = Source
  BY <1>1 DEF Steps, Source
<1>3. /\ task'.index = task.index /\ task'.fee = task.fee
      /\ \/ task'.status = task.status
         \/ task.index = Len(route) /\ ran[task.index] = "ok"
  BY TypeParts, FinishedFacts
     DEF TypeInv, TaskType, Complete, RegisterAsset, WorkerApprove, Arrive, Gift, vars
<1>4. QED
  BY <1>1, <1>2, <1>3 DEF CostInv, Charged, PaidInTurn

LEMMA InitCost == Init => CostInv
<1> SUFFICES ASSUME Init PROVE CostInv
  OBVIOUS
<1>1. \A i \in Steps : ran[i] = "no"
  BY DEF Init
<1>2. QED
  BY <1>1 DEF Init, CostInv, Charged, PaidInTurn

LEMMA NextCost ==
    ASSUME TypeInv, FeesAgree(route), CostInv, [Next]_vars
    PROVE  CostInv'
<1>1. CASE Claim
  BY <1>1, ClaimKeepsCost
<1>2. CASE RunStep \/ Advance
  BY <1>2, AdvanceKeepsCost
<1>3. CASE IncludeClaim
  BY <1>3, IncludeClaimKeepsCost
<1>4. CASE IncludeStep
  BY <1>4, IncludeStepKeepsCost
<1>5. CASE Complete \/ RegisterAsset \/ WorkerApprove \/ Arrive \/ Gift \/ UNCHANGED vars
  BY <1>5, OtherStepsKeepCost
<1>6. QED
  BY <1>1, <1>2, <1>3, <1>4, <1>5 DEF Next, Execute, ChainStep

LEMMA ScaledOrder ==
    ASSUME NEW a \in Nat, NEW b \in Nat, a <= b
    PROVE  Unit * a <= Unit * b
  OBVIOUS

\* What the fee kept of an EVM claim is worth, up to the rounding of one division, covers what
\* the worker has paid when the task is completed: if the fees in the tables cover what the
\* calls take besides and all fees of a route add up to less than 2^32.
THEOREM FeeCovers ==
    ASSUME FeesFit
    PROVE  Spec => []FeeCoversCost
<1>1. Init => TypeInv /\ CostInv
  BY InitTypes, InitCost
<1>2. TypeInv /\ CostInv /\ [Next]_vars => (TypeInv /\ CostInv)'
  <2> SUFFICES ASSUME TypeInv, CostInv, [Next]_vars
               PROVE  (TypeInv /\ CostInv)'
    OBVIOUS
  <2>1. FeesAgree(route)
    BY DEF FeesFit, TypeInv, TypeOK
  <2>2. QED
    BY <2>1, NextTypes, NextCost
<1>3. TypeInv /\ CostInv => FeeCoversCost
  <2> SUFFICES ASSUME TypeInv, CostInv, task.status = "Completed", Source \in EvmChains
               PROVE  LET price == GetPrice(Source, route[1][1].spend)
                      IN  task.fee * price + price > Unit * cost
    BY DEF FeeCoversCost
  <2> DEFINE price == GetPrice(Source, route[1][1].spend)
             total == TotalFee(route, txFee)[Len(route)]
  <2>1. claimed /\ task.index = Len(route) /\ ran[task.index] = "ok"
    BY DEF TypeInv, ClaimFirst, CostInv, PaidInTurn
  <2>2. cost <= total
    BY <2>1 DEF CostInv, PaidInTurn
  <2>3. task.fee * price + price > Unit * total /\ \A i \in Steps : HasFees(route[i])
    BY <2>1 DEF CostInv, Charged
  <2>4. Len(route) \in Nat /\ Len(route) \in 0..Len(route) /\ cost \in Nat /\ task.fee \in Nat
    BY RouteType DEF TypeInv, TypeOK
  <2>5. total \in Nat
    BY <2>3, <2>4, TotalFeeStep
  <2>6. price \in Nat
    BY DEF GetPrice
  <2> HIDE DEF price, total
  <2>7. Unit * cost <= Unit * total
    BY <2>2, <2>4, <2>5, ScaledOrder
  <2> DEFINE paid == Unit * cost
             due == Unit * total
             worth == task.fee * price
  <2>8. paid \in Nat /\ due \in Nat /\ worth \in Nat
    BY <2>4, <2>5, <2>6
  <2>9. worth + price > due /\ paid <= due
    BY <2>3, <2>7
  <2> HIDE DEF paid, due, worth
  <2>10. worth + price > paid
    BY <2>6, <2>8, <2>9
  <2>11. QED
    BY <2>10 DEF worth, price, paid
<1>4. QED
  BY <1>1, <1>2, <1>3, PTL DEF Spec

-----------------------------------------------------------------------------
(***************************************************************************)
(* What a completed task has paid: given, besides, that only swaps cost     *)
(* something.                                                              *)
(***************************************************************************)

\* The swaps at the k-th call of step i.
SwapAt(i, k) ==
    k <= Len(route[i]) /\ route[i][k].src \in EvmChains /\ IsSwap(route[i][k])

Precedes(at, i, k) == at[1] < i \/ (at[1] = i /\ at[2] <= k)

LEMMA SwapsSet ==
    ASSUME NEW i, NEW k
    PROVE  SwapsUpto(i, k)
             = {at \in Steps \X (1..U8) : Precedes(at, i, k) /\ SwapAt(at[1], at[2])}
  BY DEF SwapsUpto, Precedes, SwapAt

LEMMA SwapsFinite ==
    ASSUME route \in Routes, NEW i, NEW k
    PROVE  IsFiniteSet(SwapsUpto(i, k)) /\ Cardinality(SwapsUpto(i, k)) \in Nat
<1>1. Len(route) \in Int /\ U8 \in Int /\ 1 \in Int
  BY RouteType
<1>2. IsFiniteSet(Steps) /\ IsFiniteSet(1..U8)
  BY <1>1, FS_Interval DEF Steps
<1>3. IsFiniteSet(Steps \X (1..U8))
  BY <1>2, FS_Product
<1>4. SwapsUpto(i, k) \in SUBSET (Steps \X (1..U8))
  BY DEF SwapsUpto
<1>5. IsFiniteSet(SwapsUpto(i, k))
  BY <1>3, <1>4, FS_Subset
<1>6. QED
  BY <1>5, FS_CardinalityType

LEMMA SwapsNext ==
    ASSUME route \in Routes, NEW i \in Steps, NEW k \in 1..U8
    PROVE  Cardinality(SwapsUpto(i, k))
             = Cardinality(SwapsUpto(i, k - 1)) + IF SwapAt(i, k) THEN 1 ELSE 0
<1> DEFINE All == Steps \X (1..U8)
           before == SwapsUpto(i, k - 1)
           new == IF SwapAt(i, k) THEN {<<i, k>>} ELSE {}
<1>1. i \in Nat /\ k \in Nat /\ <<i, k>> \in All
  BY RouteType
<1>2. ASSUME NEW at \in All
      PROVE  Precedes(at, i, k) <=> Precedes(at, i, k - 1) \/ at = <<i, k>>
  <2>1. at = <<at[1], at[2]>> /\ at[1] \in Nat /\ at[2] \in Nat
    BY RouteType
  <2>2. at = <<i, k>> <=> at[1] = i /\ at[2] = k
    BY <2>1
  <2>3. at[2] <= k <=> at[2] <= k - 1 \/ at[2] = k
    BY <1>1, <2>1
  <2>4. QED
    BY <2>2, <2>3 DEF Precedes
<1>3. SwapsUpto(i, k) = before \cup new
  <2>1. \A at : at \in SwapsUpto(i, k)
                  <=> at \in All /\ (Precedes(at, i, k - 1) \/ at = <<i, k>>) /\ SwapAt(at[1], at[2])
    BY <1>2, SwapsSet
  <2>2. \A at : at \in before
                  <=> at \in All /\ Precedes(at, i, k - 1) /\ SwapAt(at[1], at[2])
    BY SwapsSet
  <2>3. \A at : at \in new <=> at = <<i, k>> /\ SwapAt(at[1], at[2])
    OBVIOUS
  <2> HIDE DEF All, before, new
  <2>4. \A at : at \in SwapsUpto(i, k) <=> at \in before \/ at \in new
    BY <1>1, <2>1, <2>2, <2>3
  <2>5. QED
    BY <2>4
<1>4. <<i, k>> \notin before
  <2>1. ~(k <= k - 1) /\ ~(i < i)
    BY <1>1
  <2>2. ~Precedes(<<i, k>>, i, k - 1)
    BY <2>1 DEF Precedes
  <2>3. QED
    BY <2>2, SwapsSet
<1>5. IsFiniteSet(before) /\ Cardinality(before) \in Nat
  BY SwapsFinite
<1> HIDE DEF before
<1>6. CASE SwapAt(i, k)
  <2>1. SwapsUpto(i, k) = before \cup {<<i, k>>}
    BY <1>3, <1>6
  <2>2. Cardinality(before \cup {<<i, k>>}) = Cardinality(before) + 1
    BY <1>4, <1>5, FS_AddElement
  <2>3. QED
    BY <1>6, <2>1, <2>2 DEF before
<1>7. CASE ~SwapAt(i, k)
  <2>1. SwapsUpto(i, k) = before
    BY <1>3, <1>7
  <2>2. QED
    BY <1>5, <1>7, <2>1 DEF before
<1>8. QED
  BY <1>6, <1>7

LEMMA SwapsBetween ==
    ASSUME route \in Routes
    PROVE  /\ SwapsUpto(1, 0) = {} /\ Cardinality(SwapsUpto(1, 0)) = 0
           /\ \A i \in Steps : SwapsUpto(i + 1, 0) = SwapsUpto(i, U8)
           /\ \A i \in Steps, k \in 0..U8 :
                 Cardinality(SwapsUpto(i, k)) <= Cardinality(SwapsUpto(i, U8))
           /\ Cardinality(SwapsUpto(Len(route), U8)) = Swaps
<1> DEFINE All == Steps \X (1..U8)
<1>1. \A at \in All : at[1] \in Nat \ {0} /\ at[1] <= Len(route) /\ at[2] \in Nat \ {0} /\ at[2] <= U8
  BY RouteType DEF Steps
<1>2. SwapsUpto(1, 0) = {}
  <2>1. \A at \in All : ~Precedes(at, 1, 0)
    BY <1>1 DEF Precedes
  <2>2. QED
    BY <2>1, SwapsSet
<1>3. ASSUME NEW i \in Steps
      PROVE  SwapsUpto(i + 1, 0) = SwapsUpto(i, U8)
  <2>1. i \in Nat
    BY RouteType
  <2>2. \A at \in All : Precedes(at, i + 1, 0) <=> Precedes(at, i, U8)
    BY <1>1, <2>1 DEF Precedes
  <2>3. QED
    BY <2>2, SwapsSet
<1>4. ASSUME NEW i \in Steps, NEW k \in 0..U8
      PROVE  Cardinality(SwapsUpto(i, k)) <= Cardinality(SwapsUpto(i, U8))
  <2>1. \A at \in All : Precedes(at, i, k) => Precedes(at, i, U8)
    BY <1>1 DEF Precedes
  <2>2. SwapsUpto(i, k) \in SUBSET SwapsUpto(i, U8)
    BY <2>1, SwapsSet
  <2>3. IsFiniteSet(SwapsUpto(i, U8))
    BY SwapsFinite
  <2>4. QED
    BY <2>2, <2>3, FS_Subset
<1>5. Cardinality(SwapsUpto(Len(route), U8)) = Swaps
  <2>1. Len(route) \in Nat
    BY RouteType
  <2>2. \A at \in All : Precedes(at, Len(route), U8)
    BY <1>1, <2>1 DEF Precedes
  <2>3. SwapsUpto(Len(route), U8) = {at \in All : SwapAt(at[1], at[2])}
    BY <2>2, SwapsSet
  <2>4. QED
    BY <2>3 DEF Swaps, SwapAt
<1>6. Cardinality(SwapsUpto(1, 0)) = 0
  BY <1>2, FS_EmptySet
<1>7. QED
  BY <1>2, <1>3, <1>4, <1>5, <1>6

\* What there may be left, in numbers.
Rest(i, k, x) ==
    /\ x \in Nat /\ x <= Amount
    /\ Amount - Deducted - Cardinality(SwapsUpto(i, k)) * (Amount \div SwapFee) <= x

LEMMA LeftIsRest ==
    ASSUME TypeOK, NEW i, NEW k, NEW x \in Nat
    PROVE  x \in Left(i, k) <=> Rest(i, k, x)
<1> DEFINE lost == Cardinality(SwapsUpto(i, k)) * (Amount \div SwapFee)
<1>1. Deducted \in Int
  BY DEF TypeOK, Deducted
<1>2. lost \in Int
  <2>1. Cardinality(SwapsUpto(i, k)) \in Int
    BY SwapsFinite DEF TypeOK
  <2>2. Amount \div SwapFee \in Int
    BY DEF SwapFee
  <2>3. QED
    BY <2>1, <2>2
<1> HIDE DEF lost
<1>3. x \in Amount - Deducted - lost .. Amount
        <=> x \in Nat /\ x <= Amount /\ Amount - Deducted - lost <= x
  BY <1>1, <1>2
<1>4. QED
  BY <1>3 DEF lost, Left, Rest

LEMMA SwapLoss ==
    ASSUME NEW x \in Nat, x <= Amount
    PROVE  /\ x \div SwapFee \in Nat /\ x \div SwapFee <= Amount \div SwapFee
           /\ Amount \div SwapFee \in Nat /\ x - x \div SwapFee \in Nat
  BY DEF SwapFee

LEMMA OneMore ==
    ASSUME NEW n \in Nat, NEW q \in Nat
    PROVE  (n + 1) * q = n * q + q
  OBVIOUS

LEMMA FewerCostLess ==
    ASSUME NEW m \in Nat, NEW n \in Nat, NEW q \in Nat, m <= n
    PROVE  m * q <= n * q /\ m * q \in Nat /\ n * q \in Nat
  OBVIOUS

\* A call that keeps the least amount from which a swap's cost is taken keeps any.
LEMMA NoSwapKeeps ==
    ASSUME NEW c, NEW call, Yields(c, call, SwapFee) = SwapFee, NEW x
    PROVE  Yields(c, call, x) = x
<1> DEFINE keeps == \/ call.dest # "local" \/ call.spend = call.receive
                    \/ /\ c \in EvmChains
                       /\ {call.spend, call.receive} = {EvmKey(c, NativeAsset[c]), EvmKey(c, Wrapped[c])}
<1>1. \A a : Yields(c, call, a) = IF keeps THEN a ELSE a - a \div SwapFee
  BY DEF Yields
<1> HIDE DEF keeps
<1>2. SwapFee - SwapFee \div SwapFee # SwapFee
  BY DEF SwapFee
<1>3. QED
  BY <1>1, <1>2

\* A call that is no swap keeps what there is, a swap takes its cost.
LEMMA YieldKeeps ==
    ASSUME TypeOK, NEW i \in Steps, NEW k \in 1..U8, NEW x, Rest(i, k - 1, x), NEW c, NEW call,
           Yields(c, call, SwapFee) # SwapFee => SwapAt(i, k)
    PROVE  Rest(i, k, Yields(c, call, x))
<1> DEFINE q == Amount \div SwapFee
           before == Cardinality(SwapsUpto(i, k - 1))
           after == Cardinality(SwapsUpto(i, k))
           y == Yields(c, call, x)
<1>1. x \in Nat /\ x <= Amount /\ Amount - Deducted - before * q <= x
  BY DEF Rest
<1>2. before \in Nat /\ after \in Nat /\ after = before + IF SwapAt(i, k) THEN 1 ELSE 0
  BY SwapsNext, SwapsFinite DEF TypeOK
<1>3. Deducted \in Nat /\ q \in Nat /\ x \div SwapFee \in Nat /\ x \div SwapFee <= q
      /\ x - x \div SwapFee \in Nat
  BY <1>1, SwapLoss DEF TypeOK, Deducted
<1>4. y = x \/ y = x - x \div SwapFee
  BY DEF Yields
<1>5. Yields(c, call, SwapFee) = SwapFee => y = x
  BY NoSwapKeeps
<1> HIDE DEF q, before, after, y
<1>6. CASE SwapAt(i, k)
  <2>1. after * q = before * q + q /\ before * q \in Nat
    BY <1>2, <1>3, <1>6, OneMore
  <2>2. y \in Nat /\ y <= Amount /\ x - q <= y
    BY <1>1, <1>3, <1>4
  <2>3. Amount - Deducted - after * q <= y
    BY <1>1, <1>3, <2>1, <2>2
  <2>4. QED
    BY <2>2, <2>3 DEF Rest, q, after, y
<1>7. CASE ~SwapAt(i, k)
  <2>1. after = before /\ y = x
    BY <1>2, <1>5, <1>7
  <2>2. QED
    BY <1>1, <2>1 DEF Rest, q, before, after, y
<1>8. QED
  BY <1>6, <1>7

\* What a transaction delivers is what it was given but for the cost of its swaps.
LEMMA BatchKeeps ==
    ASSUME TypeOK, OnlySwapsCost(route), NEW i \in Steps, NEW calls \in DeriveCalls(route[i]),
           NEW amount \in Nat, Rest(i, 0, amount), Delivers(route[i][1].src, calls, amount) > 0
    PROVE  Rest(i, U8, Delivers(route[i][1].src, calls, amount))
<1> DEFINE c == route[i][1].src
           b == Executed(c, calls)
           f == Results(c, b, amount)
           S == {k \in Nat : Rest(i, k, IF k = 0 THEN amount ELSE f[k])}
<1>1. route[i] \in MergedStep
  BY RouteType DEF TypeOK
<1>2. /\ Len(calls) = Len(route[i]) /\ IsBatch(calls) /\ IsBatch(b)
      /\ c \notin EvmChains => Len(b) = 1
  BY <1>1, DerivedIsBatch
<1>3. Len(b) \in Nat \ {0} /\ Len(b) <= Len(route[i]) /\ Len(route[i]) \in Nat /\ Len(route[i]) <= U8
  <2>1. Len(route[i]) \in 1..U8
    BY DEF DeriveCalls, When
  <2>2. Len(b) \in Nat \ {0}
    BY <1>2 DEF IsBatch
  <2>3. Len(b) = 1 \/ Len(b) = Len(route[i])
    <3>1. CASE c \in EvmChains
      BY <1>2, <3>1 DEF Executed
    <3>2. CASE c \notin EvmChains
      BY <1>2, <3>2
    <3>3. QED
      BY <3>1, <3>2
  <2>4. Len(route[i]) \in Nat /\ 1 <= Len(route[i]) /\ Len(route[i]) <= U8
    BY <2>1
  <2> DEFINE n == Len(b)
             m == Len(route[i])
  <2> HIDE DEF n, m
  <2>5. n \in Nat \ {0} /\ (n = 1 \/ n = m) /\ m \in Nat /\ 1 <= m
    BY <2>2, <2>3, <2>4 DEF n, m
  <2>6. n <= m
    BY <2>5
  <2>7. QED
    BY <2>2, <2>4, <2>6 DEF n, m
<1>4. \A k \in 1..Len(b) : b[k] = calls[k]
  <2>1. CASE c \in EvmChains
    BY <2>1 DEF Executed
  <2>2. CASE c \notin EvmChains
    <3>1. Len(b) = 1 /\ b = SubSeq(calls, 1, 1)
      BY <1>2, <2>2 DEF Executed
    <3>2. b[1] = calls[1]
      <4> DEFINE All == {calls[k] : k \in 1..Len(calls)}
      <4>1. calls \in Seq(All) /\ Len(calls) \in Nat \ {0}
        <5>1. calls = [k \in 1..Len(route[i]) |-> calls[k]]
          BY DEF DeriveCalls, When
        <5>2. calls \in [1..Len(route[i]) -> All]
          BY <1>2, <5>1
        <5> HIDE DEF All
        <5>3. QED
          BY <1>2, <1>3, <5>2, SeqDef DEF IsBatch
      <4> HIDE DEF All
      <4>2. QED
        BY <3>1, <4>1, SubSeqProperties
    <3>3. QED
      BY <3>1, <3>2
  <2>3. QED
    BY <2>1, <2>2
<1>5. /\ f = [k \in 1..Len(b) |-> Yielded(c, b, amount, k, f[k - 1])]
      /\ f \in [1..Len(b) -> Nat]
  <2>1. IsBatch(b)
    BY <1>2
  <2> HIDE DEF S, b, c
  <2>2. f = [k \in 1..Len(b) |-> Yielded(c, b, amount, k, f[k - 1])]
    BY <2>1, ResultsEquation
  <2>3. f \in [1..Len(b) -> Nat]
    BY <2>1, ResultsType
  <2>4. QED
    BY <2>2, <2>3
<1>6. /\ \A k \in 1..Len(b) : f[k] > 0
      /\ Delivers(c, calls, amount) = f[Len(b)]
  <2>1. Delivers(c, calls, amount)
          = IF \E k \in DOMAIN f : f[k] <= 0 THEN 0 ELSE f[Len(b)]
    BY DEF Delivers
  <2> DEFINE d == Delivers(c, calls, amount)
             fails == \E k \in DOMAIN f : f[k] <= 0
             last == f[Len(b)]
  <2>2. d > 0 /\ d = IF fails THEN 0 ELSE last
    BY <2>1
  <2> HIDE DEF d, fails, last
  <2>3. ~fails /\ d = last
    BY <2>2
  <2>4. \A k \in 1..Len(b) : f[k] > 0
    <3> HIDE DEF b, f
    <3>1. TAKE k \in 1..Len(b)
    <3>2. k \in DOMAIN f /\ f[k] \in Nat
      BY <1>5
    <3>3. ~(f[k] <= 0)
      BY <2>3, <3>2 DEF fails
    <3>4. QED
      BY <3>2, <3>3
  <2>5. QED
    BY <2>3, <2>4 DEF d, last
<1>7. \A k \in 1..Len(b) : Yields(c, b[k].params, SwapFee) # SwapFee => SwapAt(i, k)
  <2>1. i \in 1..Len(route)
    BY DEF Steps
  <2>2. \A k \in 1..Len(b) : Yields(c, calls[k].params, SwapFee) # SwapFee =>
          route[i][k].src \in EvmChains /\ IsSwap(route[i][k])
    BY <2>1 DEF OnlySwapsCost
  <2> HIDE DEF b, c
  <2>3. \A k \in 1..Len(b) : k <= Len(route[i])
    BY <1>3
  <2>4. QED
    BY <1>4, <2>2, <2>3 DEF SwapAt
<1> HIDE DEF b, f, c
<1>8. 0 \in S
  OBVIOUS
<1>9. ASSUME NEW k \in 1..Len(b), k - 1 \in S
      PROVE  k \in S
  <2> DEFINE x == IF k = 1 THEN amount ELSE f[k - 1]
  <2>1. Rest(i, k - 1, x)
    BY <1>9
  <2>2. f[k] = Yields(c, b[k].params, x)
    <3>1. f[k] = Yielded(c, b, amount, k, f[k - 1])
      BY <1>5
    <3>2. CASE k = 1 \/ FeedsInto(c, b, k - 1, k)
      BY <3>1, <3>2 DEF Yielded
    <3>3. CASE k # 1 /\ ~FeedsInto(c, b, k - 1, k)
      <4>1. f[k] = Yields(c, b[k].params, 0)
        BY <3>1, <3>3 DEF Yielded
      <4>2. f[k] \in Nat /\ ~(f[k] > 0)
        BY <4>1, YieldsType
      <4>3. QED
        BY <1>6, <4>2
    <3>4. QED
      BY <3>2, <3>3
  <2>3. k \in 1..U8
    BY <1>3
  <2> HIDE DEF x
  <2>4. Rest(i, k, Yields(c, b[k].params, x))
    BY <1>7, <2>1, <2>3, YieldKeeps
  <2>5. k \in Nat /\ k # 0
    OBVIOUS
  <2>6. QED
    BY <2>2, <2>4, <2>5
<1>10. 0..Len(b) \subseteq S
  <2> HIDE DEF S
  <2>1. QED
    BY <1>3, <1>8, <1>9, InductionUpto
<1>11. Rest(i, Len(b), f[Len(b)])
  <2>1. Len(b) \in 0..Len(b) /\ Len(b) # 0
    BY <1>3
  <2>2. QED
    BY <1>10, <2>1
<1>12. Cardinality(SwapsUpto(i, Len(b))) <= Cardinality(SwapsUpto(i, U8))
  <2>1. Len(b) \in 0..U8
    BY <1>3
  <2>2. QED
    BY <2>1, SwapsBetween DEF TypeOK
<1>13. Rest(i, U8, f[Len(b)])
  <2> DEFINE q == Amount \div SwapFee
             m == Cardinality(SwapsUpto(i, Len(b)))
             n == Cardinality(SwapsUpto(i, U8))
             d == f[Len(b)]
  <2>1. m \in Nat /\ n \in Nat /\ m <= n
    BY <1>12, SwapsFinite DEF TypeOK
  <2>2. q \in Nat /\ Deducted \in Nat
    BY DEF SwapFee, TypeOK, Deducted
  <2>3. d \in Nat /\ d <= Amount /\ Amount - Deducted - m * q <= d
    BY <1>11 DEF Rest
  <2> HIDE DEF q, m, n, d, S
  <2>4. m * q <= n * q /\ m * q \in Nat /\ n * q \in Nat
    BY <2>1, <2>2, FewerCostLess
  <2>5. Amount - Deducted - n * q <= d
    BY <2>2, <2>3, <2>4
  <2>6. QED
    BY <2>3, <2>5 DEF Rest, q, n, d
<1>14. QED
  BY <1>6, <1>13 DEF c

\* What the deposit is told from does not change once the fee is known.
LEMMA DepositFrame ==
    ASSUME UNCHANGED route, task'.fee = task.fee
    PROVE  /\ Own' = Own /\ Entries' = Entries /\ Steps' = Steps
           /\ \A e : Had(e)' = Had(e)
           /\ \A i, k : Left(i, k)' = Left(i, k)
<1>1. Own' = Own /\ Entries' = Entries /\ Steps' = Steps /\ Deducted' = Deducted
  BY DEF Own, Entries, Steps, Deducted, Source
<1>2. \A e : Had(e)' = Had(e)
  BY <1>1 DEF Had
<1>3. \A i, k : SwapsUpto(i, k)' = SwapsUpto(i, k)
  BY <1>1 DEF SwapsUpto
<1>4. \A i, k : Left(i, k)' = Left(i, k)
  BY <1>1, <1>3 DEF Left
<1>5. QED
  BY <1>1, <1>2, <1>4

LEMMA AccountedNext ==
    ASSUME NEW i, task'.index = i, UNCHANGED route, task'.fee = task.fee, claimed',
           \A e \in Entries :
              Balance(ledger', e) = Had(e) +
                 IF ran'[i] = "no"
                 THEN IF e \in SpentFrom(route[i]) THEN task'.spend[i] ELSE 0
                 ELSE IF e \in Goal(route[i]) THEN arrived'[i] ELSE 0
    PROVE  Accounted'
  BY DepositFrame DEF Accounted, Held

LEMMA KeptNext ==
    ASSUME NEW i, task'.index = i, UNCHANGED route, task'.fee = task.fee,
           ran'[i] = "no" => task'.spend[i] \in Left(i, 0),
           ran'[i] = "ok" => /\ arrived'[i] > 0 => arrived'[i] \in Left(i, U8)
                             /\ \A t \in transit' : t.amount \in Left(i, U8)
    PROVE  Kept'
  BY DepositFrame DEF Kept

\* As long as nobody else pays, only what the current step delivers is on a bridge.
LEMMA OnlyCurrentOnBridge ==
    ASSUME TypeInv, DeliveryInv, NoGifts
    PROVE  \A t \in transit : t.step = task.index
<1> SUFFICES ASSUME NEW t \in transit, t.step # task.index
             PROVE  FALSE
  OBVIOUS
<1>1. t.step \in Steps /\ task.index \in Steps /\ ran[t.step] = "ok"
  BY DEF TypeInv, TypeOK, DeliveryInv, InTurn
<1>2. t.step \in Nat /\ task.index \in Nat /\ 1 <= t.step
  BY <1>1, RouteType DEF TypeInv, TypeOK, Steps
<1>3. ~(t.step > task.index)
  BY <1>1 DEF DeliveryInv, InTurn
<1>4. t.step \in 1..(task.index - 1)
  BY <1>2, <1>3
<1>5. given[t.step] = 0
  BY <1>1 DEF NoGifts
<1>6. QED
  BY <1>4, <1>5 DEF DeliveryInv, SettledWhole

\* When a step counts as finished, all of it has arrived and is what the next is to spend.
LEMMA FinishedArrived ==
    ASSUME TypeInv, DeliveryInv, NoGifts, HasFinished(task.index)
    PROVE  /\ arrived[task.index] > 0 /\ Settle(task.index) = arrived[task.index]
           /\ transit = {}
<1>1. task.index \in Steps /\ ran[task.index] = "ok" /\ arrived[task.index] \in Nat
  BY FinishedFacts DEF TypeInv, TypeOK
<1>2. given[task.index] = 0
  BY <1>1 DEF NoGifts
<1>3. Settle(task.index) = arrived[task.index] /\ \A t \in transit : t.step # task.index
  BY <1>2, SettleGain
<1>4. arrived[task.index] # 0
  BY <1>1, <1>3 DEF DeliveryInv, InTurn
<1>5. transit = {}
  BY <1>3, OnlyCurrentOnBridge
<1>6. QED
  BY <1>1, <1>3, <1>4, <1>5

\* Every balance is what it was, but for the fee of the claim.
Plain(l) == \A e \in Entries : Balance(l, e) = Had(e)

\* A step that is executed on what is left of the deposit passes that on.
LEMMA DeliveredKeeps ==
    ASSUME TypeInv, DeliveryInv, NoGifts, TablesAgree(route), OnlySwapsCost(route),
           NEW i \in Steps, i = task.index, ran[i] = "no", Watched(route[i]) # {},
           NEW calls \in DeriveCalls(route[i]), NEW amount \in Nat, Rest(i, 0, amount),
           Delivers(route[i][1].src, calls, amount) > 0,
           NEW l, Sound(l), Plain(l), Deliver(i, calls, amount, l), claimed',
           UNCHANGED <<route, task, given>>
    PROVE  Accounted' /\ Kept'
<1> DEFINE c == route[i][1].src
           d == Delivers(c, calls, amount)
           paid == PaidTo(c, LastCall(c, calls))
<1>1. TypeOK /\ ran \in [Steps -> {"no", "ok", "failed"}] /\ arrived \in [Steps -> Nat]
  BY DEF TypeInv, TypeOK
<1>2. Goal(route[i]) = {paid}
  BY DEF TablesAgree, Steps
<1>3. /\ ran' = [ran EXCEPT ![i] = "ok"] /\ d \in Nat \ {0}
      /\ Received(i, LastCall(c, calls), d, l)
  BY <1>1, DeliverEffect
<1>4. Rest(i, U8, d)
  BY <1>1, BatchKeeps
<1>5. arrived[i] = 0 /\ transit = {}
  <2>1. arrived[i] = 0 /\ \A t \in transit : ran[t.step] = "ok"
    BY DEF DeliveryInv, InTurn
  <2>2. QED
    BY <2>1, OnlyCurrentOnBridge
<1> HIDE DEF d
<1>6. \/ /\ ledger' = Credit(l, paid, d) /\ arrived' = [arrived EXCEPT ![i] = d] /\ transit' = transit
      \/ /\ ledger' = l /\ arrived' = arrived
         /\ transit' = transit \cup {[step |-> i, entry |-> paid, amount |-> d]}
  BY <1>3 DEF Received
<1> HIDE DEF paid, c
<1>7. ran'[i] = "ok" /\ d \in Left(i, U8)
  BY <1>1, <1>3, <1>4, LeftIsRest
<1>8. CASE /\ ledger' = Credit(l, paid, d) /\ arrived' = [arrived EXCEPT ![i] = d] /\ transit' = transit
  <2>1. Balance(l, paid) \in Nat
    BY BalanceType
  <2>2. d \in Int /\ Balance(l, paid) + d \in Nat
    BY <1>3, <2>1
  <2>3. Credited(l, paid, d, ledger')
    BY <1>8, <2>2, CreditBalance
  <2>4. arrived'[i] = d
    BY <1>1, <1>8
  <2>5. \A e \in Entries : Balance(ledger', e) = Had(e) + IF e \in Goal(route[i]) THEN arrived'[i] ELSE 0
    <3> SUFFICES ASSUME NEW e \in Entries
                 PROVE  Balance(ledger', e) = Had(e) + IF e = paid THEN d ELSE 0
      BY <1>2, <2>4
    <3>1. Balance(l, e) = Had(e) /\ Balance(l, e) \in Nat
      BY BalanceType DEF Plain
    <3>2. QED
      BY <2>3, <3>1 DEF Credited
  <2>6. Accounted'
    BY <1>7, <2>5, AccountedNext
  <2>7. \A t \in transit' : t.amount \in Left(i, U8)
    BY <1>5, <1>8
  <2>8. Kept'
    BY <1>7, <2>4, <2>7, KeptNext
  <2>9. QED
    BY <2>6, <2>8
<1>9. CASE /\ ledger' = l /\ arrived' = arrived
           /\ transit' = transit \cup {[step |-> i, entry |-> paid, amount |-> d]}
  <2>1. arrived'[i] = 0
    BY <1>5, <1>9
  <2>2. \A e \in Entries : Balance(ledger', e) = Had(e) + IF e \in Goal(route[i]) THEN arrived'[i] ELSE 0
    <3> SUFFICES ASSUME NEW e \in Entries
                 PROVE  Balance(ledger', e) = Had(e) + 0
      BY <2>1
    <3>1. Balance(l, e) = Had(e) /\ Balance(l, e) \in Nat
      BY BalanceType DEF Plain
    <3>2. QED
      BY <1>9, <3>1
  <2>3. Accounted'
    BY <1>7, <2>2, AccountedNext
  <2>4. \A t \in transit' : t.amount \in Left(i, U8)
    BY <1>5, <1>7, <1>9
  <2>5. Kept'
    BY <1>7, <2>1, <2>4, KeptNext
  <2>6. QED
    BY <2>3, <2>5
<1>10. QED
  BY <1>6, <1>8, <1>9

LEMMA IncludeClaimKeepsDeposit ==
    ASSUME TypeInv, DeliveryInv, TablesAgree(route), OnlySwapsCost(route), FundedInv, DepositInv,
           IncludeClaim
    PROVE  DepositInv'
<1>1. PICK tx \in pending, own \in SpentFrom(route[1]) :
        /\ tx.kind = "claim" /\ task.index = 1 /\ ~claimed /\ ran[1] = "no"
        /\ claimed' = TRUE /\ pending' = {} /\ Amount - tx.amount \in Nat
        /\ UNCHANGED <<route, task, given>>
        /\ \/ /\ Source \in EvmChains
              /\ tx.calls \in DeriveCalls(route[1])
              /\ Delivers(Source, tx.calls, tx.amount) > 0
              /\ Deliver(1, tx.calls, tx.amount, Credit(ledger, own, Amount - tx.amount))
           \/ /\ Source \notin EvmChains
              /\ ledger' = Credit(ledger, own, Amount)
              /\ UNCHANGED <<ran, transit, arrived, drawn>>
  BY IncludeClaimEffect
<1>2. TypeOK /\ 1 \in Steps /\ tx.amount \in Nat /\ Sound(ledger) /\ task.fee \in Nat
  BY RouteType DEF TypeInv, TypeOK, Sound
<1>3. Balance(ledger, own) \in Nat
  BY <1>2, BalanceType
<1>4. \A e : e \in SpentFrom(route[1]) <=> e = own
  BY OneSpentFrom DEF SpentFrom
<1>5. ClaimKeepsFee' /\ DoneWhenDelivered'
  BY <1>1 DEF ClaimKeepsFee, DoneWhenDelivered, TypeInv, ClaimFirst
<1>6. ASSUME NoGifts
      PROVE  Accounted' /\ Kept'
  <2>1. \A e \in Entries : Balance(ledger, e) = IF e \in Own THEN Float ELSE 0
    BY <1>1, <1>6 DEF DepositInv, Accounted
  <2>2. CASE /\ Source \in EvmChains
             /\ tx.calls \in DeriveCalls(route[1])
             /\ Delivers(Source, tx.calls, tx.amount) > 0
             /\ Deliver(1, tx.calls, tx.amount, Credit(ledger, own, Amount - tx.amount))
    <3> DEFINE fee == Amount - tx.amount
               l == Credit(ledger, own, fee)
    <3>1. tx.amount = Amount - task.fee /\ fee = task.fee
      <4>1. tx.amount = Amount - task.fee
        BY <1>1, <2>2 DEF DepositInv, ClaimKeepsFee
      <4>2. QED
        BY <1>2, <4>1
    <3>2. Deducted = fee
      BY <2>2, <3>1 DEF Deducted
    <3>3. Deliver(1, tx.calls, tx.amount, l)
      BY <2>2
    <3>4. fee \in Int /\ Balance(ledger, own) + fee \in Nat
      BY <1>2, <1>3, <3>1
    <3>5. Rest(1, 0, tx.amount)
      <4>1. Cardinality(SwapsUpto(1, 0)) = 0
        BY <1>2, SwapsBetween DEF TypeOK
      <4>2. Amount \div SwapFee \in Nat
        BY DEF SwapFee
      <4>3. QED
        BY <1>1, <1>2, <3>2, <4>1, <4>2 DEF Rest
    <3> HIDE DEF fee
    <3>6. Credited(ledger, own, fee, l)
      BY <1>2, <3>4, CreditBalance
    <3> HIDE DEF l
    <3>7. Sound(l)
      BY <3>6 DEF Credited
    <3>8. Plain(l)
      <4> SUFFICES ASSUME NEW e \in Entries
                   PROVE  Balance(l, e) = (IF e \in Own THEN Float ELSE 0) + IF e = own THEN fee ELSE 0
        BY <1>4, <3>2 DEF Plain, Had
      <4>1. Balance(ledger, e) = IF e \in Own THEN Float ELSE 0
        BY <2>1
      <4>2. Balance(ledger, e) \in Nat
        BY <1>2, BalanceType
      <4>3. QED
        BY <3>6, <4>1, <4>2 DEF Credited
    <3>9. Watched(route[1]) # {} /\ Delivers(route[1][1].src, tx.calls, tx.amount) > 0
      <4>1. Carries(tx)
        BY <2>2 DEF Carries
      <4>2. QED
        BY <1>1, <2>2, <4>1 DEF TypeInv, BuiltAsDerived, Source
    <3>10. QED
      BY <1>1, <1>2, <1>6, <2>2, <3>3, <3>5, <3>7, <3>8, <3>9, DeliveredKeeps
  <2>3. CASE /\ Source \notin EvmChains
             /\ ledger' = Credit(ledger, own, Amount)
             /\ UNCHANGED <<ran, transit, arrived, drawn>>
    <3>1. Source \in SubChains
      BY <1>2, <2>3, SourceChain DEF Source, Chain
    <3>2. task.spend[1] = Amount
      BY <1>1, <3>1 DEF FundedInv, Yielding
    <3>3. Amount \in Int /\ Balance(ledger, own) + Amount \in Nat
      BY <1>3
    <3>4. Credited(ledger, own, Amount, ledger')
      BY <1>2, <2>3, <3>3, CreditBalance
    <3>5. \A e \in Entries :
            Balance(ledger', e) = Had(e) + IF e \in SpentFrom(route[1]) THEN task'.spend[1] ELSE 0
      <4> SUFFICES ASSUME NEW e \in Entries
                   PROVE  Balance(ledger', e)
                            = (IF e \in Own THEN Float ELSE 0) + IF e = own THEN Amount ELSE 0
        <5>1. \A e \in Entries : Had(e) = IF e \in Own THEN Float ELSE 0
          BY <2>3 DEF Had, Deducted
        <5>2. QED
          BY <1>1, <1>4, <3>2, <5>1
      <4>1. Balance(ledger, e) = IF e \in Own THEN Float ELSE 0
        BY <2>1
      <4>2. Balance(ledger, e) \in Nat
        BY <1>2, BalanceType
      <4>3. QED
        BY <3>4, <4>1, <4>2 DEF Credited
    <3>6. ran'[1] = "no" /\ task'.index = 1 /\ task'.fee = task.fee
      BY <1>1, <2>3
    <3>7. Accounted'
      BY <1>1, <3>5, <3>6, AccountedNext
    <3>8. Amount \in Left(1, 0)
      <4>1. Cardinality(SwapsUpto(1, 0)) = 0
        BY <1>2, SwapsBetween DEF TypeOK
      <4>2. Amount \div SwapFee \in Nat /\ Deducted = 0 /\ Amount \in Nat
        BY <2>3 DEF SwapFee, Deducted
      <4>3. Rest(1, 0, Amount)
        BY <4>1, <4>2 DEF Rest
      <4>4. QED
        BY <1>2, <4>2, <4>3, LeftIsRest
    <3>9. Kept'
      BY <1>1, <3>2, <3>6, <3>8, KeptNext
    <3>10. QED
      BY <3>7, <3>9
  <2>4. QED
    BY <1>1, <2>2, <2>3
<1>7. ASSUME ~NoGifts
      PROVE  Accounted' /\ Kept'
  BY <1>1, <1>7 DEF Accounted, Kept, NoGifts, Steps
<1>8. QED
  BY <1>5, <1>6, <1>7 DEF DepositInv

LEMMA IncludeStepKeepsDeposit ==
    ASSUME TypeInv, DeliveryInv, TablesAgree(route), OnlySwapsCost(route), FundedInv, DepositInv,
           IncludeStep
    PROVE  DepositInv'
<1>1. PICK i \in Steps : i = task.index
  BY DEF TypeInv, TypeOK
<1>2. PICK tx \in pending, own \in SpentFrom(route[i]) :
        /\ tx.kind = "step" /\ claimed /\ ran[i] = "no" /\ pending' = {}
        /\ tx.calls \in DeriveCalls(route[i]) /\ Watched(route[i]) # {}
        /\ UNCHANGED <<route, task, claimed, given>>
        /\ \/ Deliver(i, tx.calls, tx.amount, Credit(ledger, own, -tx.amount))
           \/ ~(/\ Balance(ledger, own) >= tx.amount
                /\ route[i][1].src \in EvmChains => HandlerPays(drawn, route[i][1].src, tx.calls)
                /\ Delivers(route[i][1].src, tx.calls, tx.amount) > 0)
  BY <1>1, IncludeStepEffect
<1>3. /\ tx.amount = task.spend[i] /\ Delivers(route[i][1].src, tx.calls, tx.amount) > 0
      /\ route[i][1].src \in EvmChains => HandlerPays(drawn, route[i][1].src, tx.calls)
      /\ Balance(ledger, own) >= tx.amount
  BY <1>1, <1>2 DEF FundedInv, Yielding, Funded
<1> DEFINE change == -tx.amount
           l == Credit(ledger, own, change)
<1>4. Deliver(i, tx.calls, tx.amount, l)
  BY <1>2, <1>3
<1>5. TypeOK /\ Sound(ledger) /\ tx.amount \in Nat
  BY DEF TypeInv, TypeOK, Sound
<1>6. ClaimKeepsFee' /\ DoneWhenDelivered'
  BY <1>1, <1>2 DEF ClaimKeepsFee, DoneWhenDelivered, DepositInv
<1>7. ASSUME NoGifts
      PROVE  Accounted' /\ Kept'
  <2>1. Balance(ledger, own) \in Nat
    BY <1>5, BalanceType
  <2>2. change \in Int /\ Balance(ledger, own) + change \in Nat
    BY <1>3, <1>5, <2>1
  <2>3. Credited(ledger, own, change, l)
    <3> HIDE DEF change
    <3>1. QED
      BY <1>5, <2>2, CreditBalance
  <2>4. Sound(l)
    BY <2>3 DEF Credited
  <2>5. \A e : e \in SpentFrom(route[i]) <=> e = own
    BY <1>2, OneSpentFrom
  <2> HIDE DEF l
  <2>6. Plain(l)
    <3> SUFFICES ASSUME NEW e \in Entries
                 PROVE  Balance(l, e) = Had(e)
      BY DEF Plain
    <3>1. Balance(ledger, e) = Had(e) + IF e = own THEN tx.amount ELSE 0
      BY <1>1, <1>2, <1>3, <1>7, <2>5 DEF DepositInv, Accounted, Held
    <3>2. Had(e) \in Int
      BY <1>5 DEF Had, Deducted, TypeOK
    <3> HIDE DEF change
    <3>3. Balance(l, e) = Balance(ledger, e) + IF e = own THEN change ELSE 0
      <4>1. Balance(ledger, e) \in Nat
        BY <1>5, BalanceType
      <4>2. QED
        BY <2>3, <4>1 DEF Credited
    <3>4. QED
      BY <1>5, <3>1, <3>2, <3>3 DEF change
  <2>7. Rest(i, 0, tx.amount)
    <3>1. tx.amount \in Left(i, 0)
      BY <1>1, <1>2, <1>3, <1>7 DEF DepositInv, Kept
    <3>2. QED
      BY <1>5, <3>1, LeftIsRest
  <2>8. QED
    BY <1>1, <1>2, <1>3, <1>4, <1>5, <1>7, <2>4, <2>6, <2>7, DeliveredKeeps
<1>8. ASSUME ~NoGifts
      PROVE  Accounted' /\ Kept'
  BY <1>2, <1>8 DEF Accounted, Kept, NoGifts, Steps
<1>9. QED
  BY <1>6, <1>7, <1>8 DEF DepositInv

\* A claim that is repeated replaces the one before, whose fee may have been another: if
\* one could be sent, so can the other.
LEMMA ClaimKeepsDeposit ==
    ASSUME TypeInv, DeliveryInv, DepositInv, Claim
    PROVE  DepositInv'
<1>1. TypeOK /\ ~claimed /\ task.index = 1 /\ task.status = "Initialized" /\ route[1] \in MergedStep
  BY RouteType DEF Claim, TypeInv, TypeOK, ClaimFirst
<1>2. UNCHANGED <<route, claimed, ledger, given>>
  BY DEF Claim, world
<1>3. route \in Seq(MergedStep) \ {<<>>} /\ txFee \in Nat
  BY <1>1, RouteType DEF TypeOK
<1>4. PICK fee \in CalculateFee(assets, ledger, approved, drawn, txFee, route) :
        /\ fee < Amount /\ task' = ClaimedTask(fee)
        /\ \/ pending' = {Tx("claim", 1, calls, Amount - fee) : calls \in ClaimCalls(fee)}
           \/ ClaimCalls(fee) = {} /\ pending' = pending
           \/ Source \in SubChains
  BY DEF Claim, Affordable
<1>5. fee \in Nat /\ Amount - fee \in Nat \ {0}
  <2>1. fee \in Nat
    BY <1>3, <1>4, FeeType
  <2>2. QED
    BY <1>4, <2>1
<1>6. task'.fee = fee /\ task'.status = "Initialized"
  BY <1>1, <1>4 DEF ClaimedTask, TypeOK
<1>7. ClaimKeepsFee'
  <2> SUFFICES ASSUME NEW tx \in pending', Source \in EvmChains
               PROVE  tx.amount = Amount - fee
    BY <1>2, <1>6 DEF ClaimKeepsFee, Source
  <2>1. CASE pending' = {Tx("claim", 1, calls, Amount - fee) : calls \in ClaimCalls(fee)}
    BY <2>1 DEF Tx
  <2>2. CASE ClaimCalls(fee) = {} /\ pending' = pending
    <3>1. /\ tx.calls \in DeriveCalls(route[1]) /\ Watched(route[1]) # {}
          /\ HandlerPays(drawn, Source, tx.calls)
          /\ tx.amount \in Nat /\ Delivers(Source, tx.calls, tx.amount) > 0
      <4>1. tx.kind = "claim" /\ Carries(tx)
        BY <1>1, <2>2 DEF TypeInv, ClaimFirst, Carries
      <4>2. QED
        BY <1>1, <2>2, <4>1 DEF TypeInv, TypeOK, BuiltAsDerived
    <3>2. tx.amount \in Nat \ {0}
      BY <1>1, <3>1, NothingYieldsNothing
    <3>3. Delivers(Source, tx.calls, Amount - fee) > 0
      BY <1>1, <1>5, <3>1, <3>2, DeliversPositive
    <3>4. tx.calls \in ClaimCalls(fee)
      BY <3>1, <3>3 DEF ClaimCalls
    <3>5. QED
      BY <2>2, <3>4
  <2>3. CASE Source \in SubChains
    BY <2>3, ChainsApart
  <2>4. QED
    BY <1>4, <2>1, <2>2, <2>3
<1>8. Entries' = Entries /\ Own' = Own /\ (NoGifts' <=> NoGifts)
  BY <1>2 DEF Entries, Own, Steps, NoGifts
<1>9. Accounted'
  BY <1>1, <1>2, <1>8 DEF DepositInv, Accounted
<1>10. Kept' /\ DoneWhenDelivered'
  BY <1>1, <1>2, <1>6 DEF Kept, DoneWhenDelivered
<1>11. QED
  BY <1>7, <1>9, <1>10 DEF DepositInv

LEMMA RunStepKeepsDeposit ==
    ASSUME TypeInv, DeliveryInv, DepositInv, RunStep
    PROVE  DepositInv'
<1>1. /\ claimed /\ task.status # "Completed" /\ ExecuteStep(task)
      /\ UNCHANGED <<route, claimed, given>> /\ UNCHANGED <<ran, ledger, transit, arrived>>
  BY DEF RunStep, world
<1>2. TypeOK /\ task \in TaskType
  BY TypeParts DEF TypeInv
<1>3. /\ task'.index = task.index /\ task'.spend = task.spend /\ task'.fee = task.fee
      /\ task'.status # "Completed"
      /\ \A tx \in pending' : tx \in pending \/ tx.kind = "step"
  BY <1>1, <1>2, ExecuteEffect
<1>4. ClaimKeepsFee' /\ DoneWhenDelivered'
  BY <1>1, <1>3 DEF TypeInv, ClaimFirst, ClaimKeepsFee, DoneWhenDelivered
<1>5. /\ Entries' = Entries /\ Steps' = Steps /\ (\A e : Had(e)' = Had(e))
      /\ \A i, k : Left(i, k)' = Left(i, k)
  BY <1>1, <1>3, DepositFrame
<1>6. Accounted' /\ Kept'
  BY <1>1, <1>3, <1>5 DEF DepositInv, Accounted, Kept, Held, NoGifts
<1>7. QED
  BY <1>4, <1>6 DEF DepositInv

\* What has arrived is what the next step is to spend, where it is to spend it.
LEMMA AdvanceKeepsDeposit ==
    ASSUME TypeInv, DeliveryInv, Connected(route), FundedInv, DepositInv, Advance
    PROVE  DepositInv'
<1>1. PICK i \in Steps : i = task.index
  BY DEF TypeInv, TypeOK
<1>2. /\ claimed /\ ExecuteStep(Settled) /\ i < Len(route) /\ HasFinished(i)
      /\ UNCHANGED <<route, claimed, given>> /\ UNCHANGED <<ran, ledger, transit, arrived>>
  BY <1>1 DEF Advance, Settled, world
<1>3. /\ TypeOK /\ Settled \in TaskType /\ Settled.index = i + 1 /\ i + 1 \in Steps /\ i \in Nat
      /\ Settled.spend[i + 1] = Settle(i) /\ ran[i] = "ok" /\ Watched(route[i]) # {}
  BY <1>1, <1>2, SettledType, FinishedFacts, RouteType DEF TypeInv, TypeOK
<1>4. Settled.fee = task.fee
  BY <1>3 DEF Settled, TypeOK
<1>5. ran[i + 1] = "no"
  <2>1. i + 1 > i
    BY <1>3
  <2>2. QED
    BY <1>1, <1>3, <2>1 DEF DeliveryInv, InTurn
<1>6. /\ task'.index = i + 1 /\ task'.spend[i + 1] = Settle(i) /\ task'.fee = task.fee
      /\ task'.status = "Executing"
      /\ \A tx \in pending' : tx \in pending \/ tx.kind = "step"
  BY <1>2, <1>3, <1>4, <1>5, ExecuteEffect
<1>7. ClaimKeepsFee' /\ DoneWhenDelivered'
  BY <1>2, <1>6 DEF TypeInv, ClaimFirst, ClaimKeepsFee, DoneWhenDelivered
<1>8. SpentFrom(route[i + 1]) = Goal(route[i])
  <2>1. DeriveCalls(route[i + 1]) # {}
    <3>1. Accepted(approved, route[i + 1])
      BY <1>2, <1>3 DEF FundedInv, Priced
    <3>2. QED
      BY <3>1 DEF Accepted
  <2>2. SpentFrom(route[i + 1]) # {}
    BY <2>1 DEF SpentFrom
  <2>3. i \in 1..(Len(route) - 1)
    BY <1>2, <1>3, RouteType DEF TypeOK, Steps
  <2>4. SpentFrom(route[i + 1]) \subseteq Goal(route[i])
    BY <2>3 DEF Connected
  <2>5. PICK g : Goal(route[i]) = {g}
    BY <1>3, GoalExists
  <2>6. QED
    BY <2>2, <2>4, <2>5
<1>9. ASSUME NoGifts
      PROVE  Accounted' /\ Kept'
  <2>1. arrived[i] > 0 /\ Settle(i) = arrived[i]
    BY <1>1, <1>2, <1>9, FinishedArrived
  <2>2. \A e \in Entries :
          Balance(ledger', e) = Had(e) + IF e \in SpentFrom(route[i + 1]) THEN task'.spend[i + 1] ELSE 0
    BY <1>1, <1>2, <1>3, <1>6, <1>8, <1>9, <2>1 DEF DepositInv, Accounted, Held
  <2>3. ran'[i + 1] = "no"
    BY <1>2, <1>5
  <2>4. Accounted'
    BY <1>2, <1>6, <2>2, <2>3, AccountedNext
  <2>5. arrived[i] \in Left(i, U8)
    BY <1>1, <1>2, <1>3, <1>9, <2>1 DEF DepositInv, Kept
  <2>6. Left(i, U8) = Left(i + 1, 0)
    BY <1>3, SwapsBetween DEF Left, TypeOK
  <2>7. Kept'
    BY <1>2, <1>6, <2>1, <2>3, <2>5, <2>6, KeptNext
  <2>8. QED
    BY <2>4, <2>7
<1>10. ASSUME ~NoGifts
       PROVE  Accounted' /\ Kept'
  BY <1>2, <1>10 DEF Accounted, Kept, NoGifts, Steps
<1>11. QED
  BY <1>7, <1>9, <1>10 DEF DepositInv

\* What was on a bridge is then in its recipient's account.
LEMMA ArriveKeepsDeposit ==
    ASSUME TypeInv, DeliveryInv, DepositInv, Arrive
    PROVE  DepositInv'
<1>1. PICK t \in transit :
        /\ ledger' = Credit(ledger, t.entry, t.amount)
        /\ arrived' = [arrived EXCEPT ![t.step] = t.amount] /\ transit' = transit \ {t}
  BY DEF Arrive
<1>2. UNCHANGED <<route, task, claimed, pending, ran, given>>
  BY DEF Arrive
<1>3. /\ t.amount \in Nat \ {0} /\ t.step \in Steps /\ Credited(ledger, t.entry, t.amount, ledger')
      /\ arrived[t.step] = 0 /\ ran[t.step] = "ok" /\ Goal(route[t.step]) = {t.entry}
  BY <1>1, ArriveEffect DEF DeliveryInv, InTurn
<1>4. TypeOK /\ Sound(ledger) /\ task.index \in Steps /\ arrived \in [Steps -> Nat]
  BY DEF TypeInv, TypeOK, Sound
<1>5. claimed
  BY <1>3 DEF TypeInv, ClaimFirst
<1>6. arrived'[t.step] = t.amount /\ \A j \in Steps : j # t.step => arrived'[j] = arrived[j]
  BY <1>1, <1>3, <1>4
<1>7. ClaimKeepsFee'
  BY <1>2 DEF DepositInv, ClaimKeepsFee, Source
<1>8. DoneWhenDelivered'
  <2>1. arrived[task.index] > 0 => arrived'[task.index] > 0
    BY <1>3, <1>4, <1>6
  <2>2. NoGifts' <=> NoGifts
    BY <1>2 DEF NoGifts, Steps
  <2>3. QED
    BY <1>2, <2>1, <2>2 DEF DepositInv, DoneWhenDelivered
<1>9. ASSUME NoGifts
      PROVE  Accounted' /\ Kept'
  <2>1. PICK i \in Steps : i = task.index
    BY <1>4
  <2>2. t.step = i
    BY <1>9, <2>1, OnlyCurrentOnBridge
  <2>3. \A e \in Entries :
          Balance(ledger', e) = Had(e) + IF e \in Goal(route[i]) THEN arrived'[i] ELSE 0
    <3> SUFFICES ASSUME NEW e \in Entries
                 PROVE  Balance(ledger', e) = Had(e) + IF e = t.entry THEN t.amount ELSE 0
      BY <1>3, <1>6, <2>2
    <3>1. Balance(ledger, e) = Had(e) + 0
      BY <1>3, <1>5, <1>9, <2>1, <2>2 DEF DepositInv, Accounted, Held
    <3>2. Had(e) \in Int
      BY <1>4 DEF Had, Deducted, TypeOK
    <3>3. QED
      BY <1>3, <3>1, <3>2 DEF Credited
  <2>4. ran'[i] = "ok" /\ task'.index = i /\ task'.fee = task.fee
    BY <1>2, <1>3, <2>1, <2>2
  <2>5. Accounted'
    BY <1>2, <1>5, <2>3, <2>4, AccountedNext
  <2>6. \A u \in transit : u.amount \in Left(i, U8)
    BY <1>3, <1>5, <1>9, <2>1, <2>2 DEF DepositInv, Kept
  <2>7. arrived'[i] \in Left(i, U8) /\ \A u \in transit' : u.amount \in Left(i, U8)
    BY <1>1, <1>6, <2>2, <2>6
  <2>8. Kept'
    BY <1>2, <2>4, <2>7, KeptNext
  <2>9. QED
    BY <2>5, <2>8
<1>10. ASSUME ~NoGifts
       PROVE  Accounted' /\ Kept'
  BY <1>2, <1>10 DEF Accounted, Kept, NoGifts, Steps
<1>11. QED
  BY <1>7, <1>8, <1>9, <1>10 DEF DepositInv

LEMMA GiftKeepsDeposit ==
    ASSUME TypeInv, DepositInv, Gift
    PROVE  DepositInv'
<1>1. PICK i \in Steps, amount \in Nat \ {0} :
        /\ given' = [given EXCEPT ![i] = amount]
        /\ UNCHANGED <<route, task, claimed, pending, ran, arrived>>
  BY GiftEffect
<1>2. given'[i] # 0 /\ Steps' = Steps
  BY <1>1 DEF TypeInv, TypeOK, Steps
<1>3. ~NoGifts'
  BY <1>2 DEF NoGifts
<1>4. ClaimKeepsFee'
  BY <1>1 DEF DepositInv, ClaimKeepsFee, Source
<1>5. QED
  BY <1>1, <1>3, <1>4 DEF DepositInv, Accounted, Kept, DoneWhenDelivered

LEMMA OthersKeepDeposit ==
    ASSUME TypeInv, DeliveryInv, DepositInv,
           Complete \/ RegisterAsset \/ WorkerApprove \/ UNCHANGED vars
    PROVE  DepositInv'
<1>1. /\ UNCHANGED <<route, claimed, pending, ran, ledger, transit, arrived, given>>
      /\ task'.index = task.index /\ task'.spend = task.spend /\ task'.fee = task.fee
      /\ \/ task'.status = task.status
         \/ task.index = Len(route) /\ HasFinished(task.index)
  BY DEF TypeInv, TypeOK, Complete, RegisterAsset, WorkerApprove, vars, world
<1>2. /\ Entries' = Entries /\ Steps' = Steps /\ Own' = Own /\ (\A e : Had(e)' = Had(e))
      /\ \A i, k : Left(i, k)' = Left(i, k)
  BY <1>1, DepositFrame
<1>3. NoGifts' <=> NoGifts
  BY <1>1, <1>2 DEF NoGifts
<1>4. Accounted' /\ Kept'
  BY <1>1, <1>2, <1>3 DEF DepositInv, Accounted, Kept, Held
<1>5. ClaimKeepsFee'
  BY <1>1 DEF DepositInv, ClaimKeepsFee, Source
<1>6. DoneWhenDelivered'
  <2>1. CASE task'.status = task.status
    BY <1>1, <1>3, <2>1 DEF DepositInv, DoneWhenDelivered
  <2>2. CASE task.index = Len(route) /\ HasFinished(task.index)
    <3>1. ran[task.index] = "ok" /\ (NoGifts => arrived[task.index] > 0)
      BY <2>2, FinishedFacts, FinishedArrived
    <3>2. QED
      BY <1>1, <1>3, <2>2, <3>1 DEF DoneWhenDelivered
  <2>3. QED
    BY <1>1, <2>1, <2>2
<1>7. QED
  BY <1>4, <1>5, <1>6 DEF DepositInv

LEMMA InitDeposit == Init => DepositInv
<1> SUFFICES ASSUME Init PROVE DepositInv
  OBVIOUS
<1>1. \A e : Balance(ledger, e) = IF e \in Own THEN Float ELSE 0
  BY DEF Init, Balance
<1>2. QED
  BY <1>1 DEF Init, DepositInv, Accounted, Kept, ClaimKeepsFee, DoneWhenDelivered

LEMMA NextDeposit ==
    ASSUME TypeInv, DeliveryInv, FundedInv, DepositInv, [Next]_vars,
           TablesAgree(route), Connected(route), OnlySwapsCost(route)
    PROVE  DepositInv'
<1>1. CASE Claim
  BY <1>1, ClaimKeepsDeposit
<1>2. CASE RunStep
  BY <1>2, RunStepKeepsDeposit
<1>3. CASE Advance
  BY <1>3, AdvanceKeepsDeposit
<1>4. CASE IncludeClaim
  BY <1>4, IncludeClaimKeepsDeposit
<1>5. CASE IncludeStep
  BY <1>5, IncludeStepKeepsDeposit
<1>6. CASE Arrive
  BY <1>6, ArriveKeepsDeposit
<1>7. CASE Gift
  BY <1>7, GiftKeepsDeposit
<1>8. CASE Complete \/ RegisterAsset \/ WorkerApprove \/ UNCHANGED vars
  BY <1>8, OthersKeepDeposit
<1>9. QED
  BY <1>1, <1>2, <1>3, <1>4, <1>5, <1>6, <1>7, <1>8 DEF Next, Execute, ChainStep

\* When nobody else pays, a completed task has brought its last recipient the deposit, but for
\* the fee and the cost of the swaps.
LEMMA CompletedHasPaid ==
    ASSUME TypeInv, DeliveryInv, KnownEntries, DepositInv, task.status = "Completed", NoGifts
    PROVE  /\ transit = {}
           /\ \E final \in Goal(route[Len(route)]) :
                 /\ Balance(ledger, final) - Had(final)
                      >= Amount - Deducted - Swaps * (Amount \div SwapFee)
                 /\ \A e \in DOMAIN ledger \ {final} : ledger[e] = Had(e)
<1>1. PICK i \in Steps : i = task.index
  BY DEF TypeInv, TypeOK
<1>2. i = Len(route) /\ ran[i] = "ok" /\ arrived[i] > 0 /\ claimed
  BY <1>1 DEF DepositInv, DoneWhenDelivered, TypeInv, ClaimFirst
<1>3. TypeOK /\ Sound(ledger) /\ arrived[i] \in Nat /\ Watched(route[i]) # {}
  BY <1>2 DEF TypeInv, TypeOK, Sound, BuiltAsDerived
<1>4. transit = {}
  <2>1. \A t \in transit : t.step = i /\ arrived[t.step] = 0
    BY <1>1, OnlyCurrentOnBridge DEF DeliveryInv, InTurn
  <2>2. QED
    BY <1>2, <2>1
<1>5. PICK final : Goal(route[i]) = {final}
  BY <1>3, GoalExists
<1>6. \A e \in Entries : Balance(ledger, e) = Had(e) + IF e = final THEN arrived[i] ELSE 0
  BY <1>1, <1>2, <1>5 DEF DepositInv, Accounted, Held
<1>7. \A e : Had(e) \in Int
  BY <1>3 DEF Had, Deducted, TypeOK
<1>8. final \in Entries
  BY <1>5 DEF Entries
<1>9. Balance(ledger, final) - Had(final) = arrived[i]
  BY <1>3, <1>6, <1>7, <1>8
<1>10. arrived[i] >= Amount - Deducted - Swaps * (Amount \div SwapFee)
  <2>1. arrived[i] \in Left(i, U8)
    BY <1>1, <1>2 DEF DepositInv, Kept
  <2>2. Cardinality(SwapsUpto(i, U8)) = Swaps
    BY <1>2, <1>3, SwapsBetween DEF TypeOK
  <2>3. Rest(i, U8, arrived[i])
    BY <1>3, <2>1, LeftIsRest
  <2>4. Amount - Deducted - Swaps * (Amount \div SwapFee) <= arrived[i]
    BY <2>2, <2>3 DEF Rest
  <2>5. QED
    BY <2>4
<1>11. \A e \in DOMAIN ledger \ {final} : ledger[e] = Had(e)
  <2> SUFFICES ASSUME NEW e \in DOMAIN ledger, e # final
               PROVE  ledger[e] = Had(e)
    OBVIOUS
  <2>1. e \in Entries
    BY DEF KnownEntries, Entries
  <2>2. Balance(ledger, e) = ledger[e]
    BY DEF Balance
  <2>3. QED
    BY <1>6, <1>7, <2>1, <2>2
<1>12. QED
  BY <1>2, <1>4, <1>5, <1>9, <1>10, <1>11

SwapsOnlyCost == \A r \in Routes : OnlySwapsCost(r)

\* Under the conditions of ClaimedRuns, and if only swaps yield less than they get, a completed
\* task that nobody else has paid into has brought the recipient of its last step the deposit
\* less the fee and the cost of the swaps; the worker has what it had and the fee of an EVM
\* claim, and nothing is left with a handler or on a bridge.
THEOREM DepositPaid ==
    ASSUME RoutesFit, RoutesConnected, SwapsOnlyCost
    PROVE  Spec => []CompletedPays
<1> DEFINE Inv == TypeInv /\ DeliveryInv /\ KnownEntries /\ FundedInv /\ DepositInv
<1>1. Init => Inv
  BY InitTypes, InitDelivery, InitKnown, InitFunded, InitDeposit
<1>2. Inv /\ [Next]_vars => Inv'
  <2> SUFFICES ASSUME Inv, [Next]_vars
               PROVE  Inv'
    OBVIOUS
  <2>1. TablesAgree(route) /\ Connected(route) /\ OnlySwapsCost(route)
    BY DEF RoutesFit, RoutesConnected, SwapsOnlyCost, TypeInv, TypeOK
  <2>2. TypeInv' /\ DeliveryInv'
    BY NextTypes, NextDelivery
  <2>3. KnownEntries'
    BY <2>1, NextKnown
  <2>4. FundedInv'
    BY <2>1, NextFunded
  <2>5. DepositInv'
    BY <2>1, NextDeposit
  <2>6. QED
    BY <2>2, <2>3, <2>4, <2>5
<1>3. Inv => CompletedPays
  <2> SUFFICES ASSUME Inv, task.status = "Completed", NoGifts
               PROVE  /\ transit = {}
                      /\ \E final \in Goal(route[Len(route)]) :
                            /\ Balance(ledger, final) - Had(final)
                                 >= Amount - Deducted - Swaps * (Amount \div SwapFee)
                            /\ \A e \in DOMAIN ledger \ {final} : ledger[e] = Had(e)
    BY DEF CompletedPays, NoGifts, Goal
  <2>1. QED
    BY CompletedHasPaid
<1>4. QED
  BY <1>1, <1>2, <1>3, PTL DEF Spec
=============================================================================
