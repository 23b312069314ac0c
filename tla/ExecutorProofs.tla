--------------------------- MODULE ExecutorProofs ---------------------------
(***************************************************************************)
(* Theorems about the two halves of a client's proxy: one call by several   *)
(* providers, for any number of them, any values and any configuration; and *)
(* the list that decides which providers are called.                       *)
(***************************************************************************)
EXTENDS MultiExecutor, CuratedRpcList, FiniteLemmas

\* What has been recorded of the answers.
RecordsInv ==
  /\ config \in Configs
  /\ promises \subseteq Functions
  /\ answer \in [promises -> Results(Mode) \cup {Error, Hang}]
  /\ successfulResults \in Seq(promises) /\ NoDuplicates(successfulResults)
  /\ \A f \in promises : Holds(successfulResults, f) => f \in Answering
  /\ errorResults \subseteq promises \ Answering
  /\ unhandled \subseteq promises
  /\ didFinish \in BOOLEAN

\* Those whose results were pushed.
Heard == {f \in promises : Holds(successfulResults, f)}

-----------------------------------------------------------------------------
(* Counting the recorded answers                                           *)

\* The providers are finitely many, and no more is recorded than there is to record;
\* when that is everything, every provider that answers was heard.
LEMMA HeardProperties ==
  ASSUME RecordsInv
  PROVE  /\ IsFiniteSet(promises) /\ Total \in Nat
         /\ IsFiniteSet(Answering) /\ Cardinality(Answering) \in Nat
         /\ Cardinality(Answering) <= Total
         /\ Heard \subseteq Answering /\ IsFiniteSet(Heard)
         /\ Successes = Cardinality(Heard) /\ Successes \in Nat
         /\ Successes <= Cardinality(Answering)
         /\ AllSettled => Heard = Answering
         /\ \A n \in DOMAIN successfulResults : successfulResults[n] \in Heard
<1>1. IsFiniteSet(promises)
  <2>1. IsFiniteSet(Functions)
    BY ConfigAssumption, FS_Interval DEF Functions
  <2> QED BY <2>1, FS_Subset DEF RecordsInv
<1>2. Answering \subseteq promises /\ Heard \subseteq Answering
  BY DEF Answering, Heard, RecordsInv
<1>3. /\ IsFiniteSet(Answering) /\ IsFiniteSet(errorResults) /\ IsFiniteSet(Heard)
      /\ Cardinality(Answering) <= Total
      /\ Cardinality(Heard) <= Cardinality(Answering)
  <2>1. errorResults \in SUBSET promises /\ Answering \in SUBSET promises
    BY <1>2 DEF RecordsInv
  <2>2. IsFiniteSet(Answering) /\ IsFiniteSet(errorResults) /\ Cardinality(Answering) <= Total
    BY <1>1, <2>1, FS_Subset DEF Total
  <2> QED BY <1>2, <2>2, FS_Subset
<1>4. /\ Total \in Nat /\ Cardinality(Answering) \in Nat
      /\ Cardinality(errorResults) \in Nat /\ Cardinality(Heard) \in Nat
  BY <1>1, <1>3, FS_CardinalityType DEF Total
<1>5. \A n \in DOMAIN successfulResults : successfulResults[n] \in Heard
  <2> TAKE n \in DOMAIN successfulResults
  <2>1. successfulResults[n] \in promises
    BY ElementOfSeq DEF RecordsInv
  <2> QED BY <2>1 DEF Heard, Holds
<1>6. Successes = Cardinality(Heard)
  <2>1. Cardinality({n \in DOMAIN successfulResults : successfulResults[n] \in Heard})
          = Cardinality(Heard)
    <3>1. \A f \in Heard : Holds(successfulResults, f)
      BY DEF Heard
    <3> QED BY <3>1, PositionsOf DEF RecordsInv
  <2>2. {n \in DOMAIN successfulResults : successfulResults[n] \in Heard}
          = DOMAIN successfulResults
    BY <1>5
  <2>3. /\ DOMAIN successfulResults = 1 .. Len(successfulResults)
        /\ Len(successfulResults) \in Nat
    BY LenProperties DEF RecordsInv
  <2>4. Cardinality(DOMAIN successfulResults) = Len(successfulResults)
    <3> DEFINE n == Len(successfulResults)
    <3>1. n \in Nat
      BY <2>3
    <3> HIDE DEF n
    <3>2. Cardinality(1 .. n) = n
      BY <3>1, FS_Interval
    <3> QED BY <2>3, <3>2 DEF n
  <2> QED BY <2>1, <2>2, <2>4 DEF Successes
<1>7. ASSUME AllSettled PROVE Heard = Answering
  <2>1. Heard \cap errorResults = {} /\ Heard \cup errorResults \in SUBSET promises
    BY <1>2 DEF RecordsInv
  <2>2. Cardinality(Heard \cup errorResults) = Cardinality(Heard) + Cardinality(errorResults)
    <3>1. Cardinality(Heard \cap errorResults) = 0
      BY <2>1, FS_EmptySet
    <3>2. Cardinality(Heard \cup errorResults)
            = Cardinality(Heard) + Cardinality(errorResults) - Cardinality(Heard \cap errorResults)
      BY <1>3, FS_Union
    <3> QED BY <1>4, <3>1, <3>2
  <2>3. Cardinality(Heard \cup errorResults) >= Total
    BY <1>6, <1>7, <2>2 DEF AllSettled
  <2>4. /\ Cardinality(Heard \cup errorResults) <= Total
        /\ Total = Cardinality(Heard \cup errorResults) => promises = Heard \cup errorResults
    BY <1>1, <2>1, FS_Subset DEF Total
  <2>5. promises = Heard \cup errorResults
    BY <1>4, <2>2, <2>3, <2>4
  <2> QED BY <1>2, <2>5 DEF RecordsInv
<1> QED BY <1>1, <1>2, <1>3, <1>4, <1>5, <1>6, <1>7

\* Votes for v on the results heard: at most those of all who answer, and all of them
\* when everything is settled.
LEMMA VoteCount ==
  ASSUME RecordsInv, NEW s, DOMAIN s = DOMAIN successfulResults, NEW v,
         NEW T \in SUBSET Answering,
         \A n \in DOMAIN s : s[n] = v <=> successfulResults[n] \in T
  PROVE  /\ Count(s, v) \in Nat /\ Cardinality(T) \in Nat
         /\ Count(s, v) <= Cardinality(T)
         /\ AllSettled => Count(s, v) = Cardinality(T)
<1> DEFINE U == T \cap Heard
<1>1. {n \in DOMAIN s : s[n] = v} = {n \in DOMAIN successfulResults : successfulResults[n] \in U}
  BY HeardProperties
<1>2. /\ IsFiniteSet(U)
      /\ Cardinality({n \in DOMAIN successfulResults : successfulResults[n] \in U})
           = Cardinality(U)
  <2>1. \A f \in U : Holds(successfulResults, f)
    BY DEF Heard
  <2> QED BY <2>1, PositionsOf DEF RecordsInv
<1>3. Count(s, v) = Cardinality(U)
  BY <1>1, <1>2 DEF Count
<1>4. IsFiniteSet(T)
  BY HeardProperties, FS_Subset
<1>5. Cardinality(U) <= Cardinality(T)
  <2>1. U \in SUBSET T
    OBVIOUS
  <2> QED BY <1>4, <2>1, FS_Subset
<1>6. AllSettled => U = T
  BY HeardProperties
<1> QED BY <1>2, <1>3, <1>4, <1>5, <1>6, FS_CardinalityType

\* The first mode is an element, and none is more frequent.
LEMMA FirstModeProperties ==
  ASSUME NEW n \in Nat, n # 0, NEW s, DOMAIN s = 1 .. n
  PROVE  /\ \E i \in DOMAIN s : FirstMode(s) = s[i]
         /\ \A i \in DOMAIN s : /\ Count(s, s[i]) \in Nat
                                /\ Count(s, s[i]) <= Count(s, FirstMode(s))
<1> DEFINE D == 1 .. n
           v == [i \in D |-> Count(s, s[i])]
           Modes == {i \in D : IsMode(s, s[i])}
<1>1. IsFiniteSet(D) /\ D # {}
  <2>1. 1 \in D
    OBVIOUS
  <2>2. IsFiniteSet(D)
    BY FS_Interval
  <2> QED BY <2>1, <2>2
<1>2. \A i \in D : Count(s, s[i]) \in Nat
  <2> TAKE i \in D
  <2>1. {j \in DOMAIN s : s[j] = s[i]} \in SUBSET D
    OBVIOUS
  <2>2. IsFiniteSet({j \in DOMAIN s : s[j] = s[i]})
    BY <1>1, <2>1, FS_Subset
  <2> QED BY <2>2, FS_CardinalityType DEF Count
<1>3. v \in [D -> Nat]
  BY <1>2
<1>4. PICK top \in D : \A j \in D : v[j] <= v[top]
  <2> HIDE DEF v, D
  <2> QED BY <1>1, <1>3, GreatestValue
<1>5. Modes # {}
  BY <1>4 DEF IsMode
<1>6. PICK m \in Modes : \A j \in Modes : m <= j
  <2> HIDE DEF Modes
  <2>1. Modes \in SUBSET (1 .. n)
    BY DEF Modes
  <2> QED BY <1>5, <2>1, LeastPosition
<1>7. \E i \in DOMAIN s :
        IsMode(s, s[i]) /\ \A j \in DOMAIN s : IsMode(s, s[j]) => i <= j
  BY <1>6
<1>8. \E i \in DOMAIN s : FirstMode(s) = s[i] /\ IsMode(s, s[i])
  BY <1>7 DEF FirstMode
<1> QED BY <1>2, <1>8 DEF IsMode

\* The median rounded up has half of the numbers at or below it, and half at or above.
LEMMA CeilMedianProperties ==
  ASSUME NEW n \in Nat, n # 0, NEW s \in [1 .. n -> Nat]
  PROVE  /\ CeilMedian(s) \in Nat
         /\ 2 * Cardinality({i \in 1 .. n : s[i] <= CeilMedian(s)}) >= n
         /\ 2 * Cardinality({i \in 1 .. n : s[i] >= CeilMedian(s)}) >= n
<1> DEFINE D == 1 .. n
           k == (n + 1) \div 2
           l == n \div 2 + 1
           a == KthSmallest(D, s, k)
           b == KthSmallest(D, s, l)
           m == CeilMedian(s)
           High == {i \in D : s[i] >= m}
<1>1. IsFiniteSet(D) /\ Cardinality(D) = n
  BY FS_Interval
<1>2. Len(s) = n /\ DOMAIN s = D
  OBVIOUS
<1> HIDE DEF D
<1>3. k \in 1 .. n /\ l \in 1 .. n /\ k <= l
  OBVIOUS
<1>4. /\ a \in Nat /\ Cardinality(AtMost(D, s, a)) >= k
      /\ b \in Nat /\ Cardinality(Below(D, s, b)) < l
      /\ a <= b
  <2>1. s \in [D -> Nat] /\ k \in 1 .. Cardinality(D) /\ l \in 1 .. Cardinality(D)
    BY <1>1, <1>3 DEF D
  <2> HIDE DEF k, l
  <2>2. a \in Nat /\ Cardinality(AtMost(D, s, a)) >= k
    BY <1>1, <2>1, KthSmallestProperties
  <2>3. b \in Nat /\ Cardinality(Below(D, s, b)) < l
    BY <1>1, <2>1, KthSmallestProperties
  <2>4. a <= b
    BY <1>1, <1>3, <2>1, KthSmallestMonotone
  <2> QED BY <2>2, <2>3, <2>4
<1>5. m = (a + b + 1) \div 2
  BY <1>2 DEF CeilMedian
<1> HIDE DEF a, b, m, k, l
<1>6. m \in Nat /\ a <= m /\ m <= b
  BY <1>4, <1>5
<1>7. AtMost(D, s, a) \subseteq AtMost(D, s, m) /\ D \ Below(D, s, b) \subseteq High
  BY <1>4, <1>6 DEF AtMost, Below, D
<1>8. /\ IsFiniteSet(AtMost(D, s, a)) /\ IsFiniteSet(AtMost(D, s, m))
      /\ IsFiniteSet(Below(D, s, b)) /\ IsFiniteSet(High)
      /\ IsFiniteSet(D \ Below(D, s, b))
  <2>1. /\ AtMost(D, s, a) \in SUBSET D /\ AtMost(D, s, m) \in SUBSET D
        /\ Below(D, s, b) \in SUBSET D /\ High \in SUBSET D
        /\ D \ Below(D, s, b) \in SUBSET D
    BY DEF AtMost, Below
  <2> HIDE DEF High
  <2> QED BY <1>1, <2>1, FS_Subset
<1>9. 2 * Cardinality(AtMost(D, s, m)) >= n
  <2>1. Cardinality(AtMost(D, s, a)) <= Cardinality(AtMost(D, s, m))
    BY <1>7, <1>8, FS_Subset
  <2>2. Cardinality(AtMost(D, s, a)) \in Nat /\ Cardinality(AtMost(D, s, m)) \in Nat
    BY <1>8, FS_CardinalityType
  <2>3. k \in Nat /\ 2 * k >= n
    BY DEF k
  <2> QED BY <1>4, <2>1, <2>2, <2>3
<1>10. 2 * Cardinality(High) >= n
  <2>1. Cardinality(D \ Below(D, s, b)) = n - Cardinality(Below(D, s, b))
    <3>1. D \cap Below(D, s, b) = Below(D, s, b)
      BY DEF Below
    <3>2. Cardinality(D \ Below(D, s, b)) = Cardinality(D) - Cardinality(D \cap Below(D, s, b))
      BY <1>1, FS_Difference
    <3> QED BY <1>1, <3>1, <3>2
  <2> HIDE DEF High
  <2>2. Cardinality(D \ Below(D, s, b)) <= Cardinality(High)
    BY <1>7, <1>8, FS_Subset
  <2>3. Cardinality(Below(D, s, b)) \in Nat /\ Cardinality(High) \in Nat
    BY <1>8, FS_CardinalityType
  <2>4. l \in Nat /\ 2 * (n - l + 1) >= n
    BY DEF l
  <2> QED BY <1>4, <2>1, <2>2, <2>3, <2>4
<1> QED BY <1>6, <1>9, <1>10 DEF AtMost, D, m

-----------------------------------------------------------------------------
(* What a verdict rests on                                                 *)

LEMMA Quorums ==
  ASSUME RecordsInv
  PROVE  AgreementQuorum \in Nat \ {0} /\ ConsensusQuorum \in Nat \ {0}
<1>1. config \in MultiExecutorConfig /\ Total \in Nat
  BY ConfigAssumption, HeardProperties DEF RecordsInv
<1>2. AgreementQuorum \in Nat \ {0}
  BY <1>1 DEF AgreementQuorum, MultiExecutorConfig
<1>3. PICK p, q \in Nat \ {0} : config.consensusQuorumRatio = <<p, q>>
  BY <1>1 DEF MultiExecutorConfig
<1>4. Total \in Nat /\ Total > 2 => (Total * p + q - 1) \div q \in Nat \ {0}
  <2> SUFFICES ASSUME Total > 2 PROVE (Total * p + q - 1) \div q \in Nat \ {0}
    BY <1>1
  <2>1. Total * p \in Nat /\ Total * p >= 1
    BY <1>1
  <2> DEFINE x == Total * p
  <2> HIDE DEF x
  <2>2. x \in Nat /\ x >= 1
    BY <2>1 DEF x
  <2>3. (x + q - 1) \div q \in Nat /\ (x + q - 1) \div q >= 1
    BY <2>2
  <2> QED BY <2>3 DEF x
<1>5. ConsensusQuorum = IF Total <= 2 THEN 1 ELSE (Total * p + q - 1) \div q
  BY <1>3 DEF ConsensusQuorum
<1> QED BY <1>1, <1>2, <1>4, <1>5

\* The settlement of a sequence of numbers, one from each who was heard, where T[v] are
\* the providers that answer v.
LEMMA SettlementVotes ==
  ASSUME RecordsInv, NEW s, DOMAIN s = DOMAIN successfulResults,
         NEW T \in [Values -> SUBSET Answering],
         \A n \in DOMAIN s : s[n] \in Values,
         \A v \in Values, n \in DOMAIN s : s[n] = v <=> successfulResults[n] \in T[v]
  PROVE  /\ Settlement(s) \in {"enough", "wait", "throw"}
         /\ Settlement(s) = "throw" =>
              \A v \in Values : Cardinality(T[v]) < AgreementQuorum
         /\ Settlement(s) = "enough" /\ Successes # 0 => Agreed(s) \in Values \cup {Undefined}
         /\ Settlement(s) = "enough" /\ ~UnagreedToUndefined =>
              Agreed(s) \in Values /\ Cardinality(T[Agreed(s)]) >= AgreementQuorum
<1>1. AgreementQuorum \in Nat \ {0}
  BY Quorums
<1>2. \A v \in Values : /\ Count(s, v) \in Nat /\ Cardinality(T[v]) \in Nat
                        /\ Count(s, v) <= Cardinality(T[v])
                        /\ AllSettled => Count(s, v) = Cardinality(T[v])
  BY VoteCount
<1>3. DOMAIN s = 1 .. Successes /\ Successes \in Nat
  BY LenProperties DEF Successes, RecordsInv
<1>4. Successes # 0 => /\ FirstMode(s) \in Values
                       /\ \A n \in DOMAIN s : Count(s, s[n]) <= Count(s, FirstMode(s))
  BY <1>3, FirstModeProperties
<1>5. ASSUME Settlement(s) = "throw", NEW v \in Values
      PROVE  Cardinality(T[v]) < AgreementQuorum
  <2>1. ~HasCount(s, AgreementQuorum) /\ AllSettled
    BY <1>5 DEF Settlement
  <2> SUFFICES ASSUME Count(s, v) >= AgreementQuorum PROVE FALSE
    BY <1>1, <1>2, <2>1
  <2>2. Count(s, v) # 0
    BY <1>1, <1>2
  <2>3. {n \in DOMAIN s : s[n] = v} # {}
    BY <2>2, FS_EmptySet DEF Count
  <2> QED BY <2>1, <2>3 DEF HasCount
<1>6. ASSUME Settlement(s) = "enough", ~UnagreedToUndefined
      PROVE  Agreed(s) \in Values /\ Cardinality(T[Agreed(s)]) >= AgreementQuorum
  <2>1. HasCount(s, AgreementQuorum)
    BY <1>6 DEF Settlement
  <2>2. PICK n \in DOMAIN s : Count(s, s[n]) >= AgreementQuorum
    BY <2>1 DEF HasCount
  <2>3. Successes # 0
    BY <1>3
  <2>4. Agreed(s) = FirstMode(s)
    BY <1>6 DEF Agreed
  <2> QED BY <1>1, <1>2, <1>4, <2>2, <2>3, <2>4
<1>7. Successes # 0 => Agreed(s) \in Values \cup {Undefined}
  BY <1>4 DEF Agreed
<1>8. Settlement(s) \in {"enough", "wait", "throw"}
  BY DEF Settlement
<1> QED BY <1>5, <1>6, <1>7, <1>8

\* The results heard are values of the mode.
LEMMA RowProperties ==
  ASSUME RecordsInv
  PROVE  /\ DOMAIN Row = DOMAIN successfulResults
         /\ DOMAIN Row = 1 .. Successes
         /\ \A n \in DOMAIN Row : Row[n] \in Results(Mode)
         /\ \A v : \A n \in DOMAIN Row : Row[n] = v <=> successfulResults[n] \in Voters(v)
<1>1. \A n \in DOMAIN successfulResults : successfulResults[n] \in Answering
  BY HeardProperties
<1>2. DOMAIN successfulResults = 1 .. Successes
  BY LenProperties DEF Successes, RecordsInv
<1>3. \A f \in Answering : answer[f] \in Results(Mode)
  BY DEF Answering, RecordsInv
<1> QED BY <1>1, <1>2, <1>3 DEF Row, Voters

LEMMA AgreementVotes ==
  ASSUME RecordsInv, Mode = "agreement"
  PROVE  \/ AgreementVerdict = Waiting
         \/ /\ AgreementVerdict = Rejected
            /\ \A v \in Values : Cardinality(Voters(v)) < AgreementQuorum
         \/ \E w \in Values : /\ AgreementVerdict = Resolved(w)
                              /\ Cardinality(Voters(w)) >= AgreementQuorum
<1> DEFINE T == [v \in Values |-> Voters(v)]
<1>1. T \in [Values -> SUBSET Answering]
  BY DEF Voters
<1>2. /\ DOMAIN Row = DOMAIN successfulResults
      /\ \A n \in DOMAIN Row : Row[n] \in Values
      /\ \A v \in Values, n \in DOMAIN Row : Row[n] = v <=> successfulResults[n] \in T[v]
  BY RowProperties DEF Results
<1>3. ~UnagreedToUndefined
  BY DEF UnagreedToUndefined
<1>4. \A v \in Values : T[v] = Voters(v)
  OBVIOUS
<1> HIDE DEF T
<1>5. /\ Settlement(Row) \in {"enough", "wait", "throw"}
      /\ Settlement(Row) = "throw" => \A v \in Values : Cardinality(T[v]) < AgreementQuorum
      /\ Settlement(Row) = "enough" =>
           Agreed(Row) \in Values /\ Cardinality(T[Agreed(Row)]) >= AgreementQuorum
  BY <1>1, <1>2, <1>3, SettlementVotes
<1> QED BY <1>4, <1>5 DEF AgreementVerdict

LEMMA MultiAgreementVotes ==
  ASSUME RecordsInv, Mode = "multi_agreement"
  PROVE  \/ MultiAgreementVerdict = Waiting
         \/ /\ MultiAgreementVerdict = Rejected
            /\ \/ Cardinality(Answering) < AgreementQuorum
               \/ \E p \in Points : \A v \in Values :
                    Cardinality(VotersAt(p, v)) < AgreementQuorum
         \/ \E w \in [Points -> Values \cup {Undefined}] :
              /\ MultiAgreementVerdict = Resolved(w)
              /\ ~UnagreedToUndefined =>
                   \A p \in Points : Cardinality(VotersAt(p, w[p])) >= AgreementQuorum
<1>1. ASSUME NEW p \in Points
      PROVE  /\ Settlement(Column(p)) \in {"enough", "wait", "throw"}
             /\ Settlement(Column(p)) = "throw" =>
                  \A v \in Values : Cardinality(VotersAt(p, v)) < AgreementQuorum
             /\ Settlement(Column(p)) = "enough" /\ Successes # 0 =>
                  Agreed(Column(p)) \in Values \cup {Undefined}
             /\ Settlement(Column(p)) = "enough" /\ ~UnagreedToUndefined =>
                  Cardinality(VotersAt(p, Agreed(Column(p)))) >= AgreementQuorum
  <2> DEFINE T == [v \in Values |-> VotersAt(p, v)]
  <2>1. T \in [Values -> SUBSET Answering]
    BY DEF VotersAt
  <2>2. /\ DOMAIN Column(p) = DOMAIN successfulResults
        /\ \A n \in DOMAIN Column(p) : Column(p)[n] \in Values
    BY RowProperties DEF Results, Column
  <2>3. \A v \in Values, n \in DOMAIN Column(p) :
          Column(p)[n] = v <=> successfulResults[n] \in T[v]
    BY HeardProperties, RowProperties DEF Column, VotersAt, Row
  <2>4. \A v \in Values : T[v] = VotersAt(p, v)
    OBVIOUS
  <2> HIDE DEF T
  <2>5. /\ Settlement(Column(p)) \in {"enough", "wait", "throw"}
        /\ Settlement(Column(p)) = "throw" =>
             \A v \in Values : Cardinality(T[v]) < AgreementQuorum
        /\ Settlement(Column(p)) = "enough" /\ Successes # 0 =>
             Agreed(Column(p)) \in Values \cup {Undefined}
        /\ Settlement(Column(p)) = "enough" /\ ~UnagreedToUndefined =>
             /\ Agreed(Column(p)) \in Values
             /\ Cardinality(T[Agreed(Column(p))]) >= AgreementQuorum
    BY <2>1, <2>2, <2>3, SettlementVotes
  <2> QED BY <2>4, <2>5
<1>2. /\ AgreementQuorum \in Nat \ {0} /\ Successes \in Nat
      /\ Successes = Cardinality(Heard)
      /\ AllSettled => Heard = Answering
  BY Quorums, HeardProperties
<1>3. CASE Successes < AgreementQuorum
  BY <1>2, <1>3 DEF MultiAgreementVerdict
<1>4. CASE ~(Successes < AgreementQuorum)
  <2>1. Successes # 0
    BY <1>2, <1>4
  <2>2. CASE \A p \in Points : Settlement(Column(p)) = "enough"
    <3> DEFINE w == [p \in Points |-> Agreed(Column(p))]
    <3>1. MultiAgreementVerdict = Resolved(w)
      BY <1>4, <2>2 DEF MultiAgreementVerdict
    <3>2. w \in [Points -> Values \cup {Undefined}]
      BY <1>1, <2>1, <2>2
    <3>3. ~UnagreedToUndefined =>
            \A p \in Points : Cardinality(VotersAt(p, w[p])) >= AgreementQuorum
      BY <1>1, <2>2
    <3> QED BY <3>1, <3>2, <3>3
  <2>3. CASE \E p \in Points : Settlement(Column(p)) # "enough"
    <3>1. MultiAgreementVerdict =
            IF \E p \in Points : Settlement(Column(p)) = "throw" THEN Rejected ELSE Waiting
      BY <1>4, <2>3 DEF MultiAgreementVerdict
    <3> QED BY <1>1, <3>1
  <2> QED BY <2>2, <2>3
<1> QED BY <1>3, <1>4

\* A median of everything heard, which is everything that is answered.
LEMMA MedianVotes ==
  ASSUME RecordsInv, Mode = "ceil_median", AllSettled, Successes # 0
  PROVE  LET m == CeilMedian(Row)
         IN  /\ m \in Nat
             /\ 2 * Cardinality({f \in Answering : answer[f] <= m}) >= Cardinality(Answering)
             /\ 2 * Cardinality({f \in Answering : answer[f] >= m}) >= Cardinality(Answering)
<1> DEFINE m == CeilMedian(Row)
           Low == {f \in Answering : answer[f] <= m}
           High == {f \in Answering : answer[f] >= m}
<1>1. /\ Successes \in Nat /\ Successes = Cardinality(Answering)
      /\ \A f \in Answering : f \in promises /\ Holds(successfulResults, f)
      /\ \A n \in DOMAIN successfulResults : successfulResults[n] \in Answering
  BY HeardProperties DEF Heard
<1>2. Row \in [1 .. Successes -> Nat]
  <2>1. \A n \in DOMAIN Row : Row[n] \in Nat
    BY RowProperties, ConfigAssumption DEF Results
  <2> QED BY <2>1, RowProperties DEF Row
<1>3. /\ m \in Nat
      /\ 2 * Cardinality({n \in 1 .. Successes : Row[n] <= m}) >= Successes
      /\ 2 * Cardinality({n \in 1 .. Successes : Row[n] >= m}) >= Successes
  BY <1>1, <1>2, CeilMedianProperties
<1> HIDE DEF m
<1>4. /\ {n \in 1 .. Successes : Row[n] <= m}
           = {n \in DOMAIN successfulResults : successfulResults[n] \in Low}
      /\ {n \in 1 .. Successes : Row[n] >= m}
           = {n \in DOMAIN successfulResults : successfulResults[n] \in High}
  BY <1>1, RowProperties DEF Row
<1>5. (\A f \in Low : Holds(successfulResults, f)) /\ (\A f \in High : Holds(successfulResults, f))
  BY <1>1
<1> HIDE DEF Low, High
<1>6. /\ Cardinality({n \in DOMAIN successfulResults : successfulResults[n] \in Low})
           = Cardinality(Low)
      /\ Cardinality({n \in DOMAIN successfulResults : successfulResults[n] \in High})
           = Cardinality(High)
  BY <1>5, PositionsOf DEF RecordsInv
<1> QED BY <1>1, <1>3, <1>4, <1>6 DEF m, Low, High

LEMMA ConsensusVotes ==
  ASSUME RecordsInv, Mode \in {"ceil_median", "consensus_all_equal"}
  PROVE  \/ ConsensusVerdict = Waiting
         \/ /\ ConsensusVerdict = Rejected
            /\ \/ Cardinality(Answering) < ConsensusQuorum
               \/ /\ Mode = "consensus_all_equal"
                  /\ \E f, g \in Answering : answer[f] # answer[g]
         \/ \E w \in Nat :
              /\ ConsensusVerdict = Resolved(w)
              /\ Cardinality(Answering) >= ConsensusQuorum
              /\ Mode = "consensus_all_equal" => Voters(w) = Answering
              /\ Mode = "ceil_median" =>
                   /\ 2 * Cardinality({f \in Answering : answer[f] <= w}) >= Cardinality(Answering)
                   /\ 2 * Cardinality({f \in Answering : answer[f] >= w}) >= Cardinality(Answering)
<1>1. ConsensusQuorum \in Nat \ {0}
  BY Quorums
<1>2. CASE ~AllSettled
  BY <1>2 DEF ConsensusVerdict
<1>3. ASSUME AllSettled
      PROVE  /\ Successes \in Nat /\ Successes = Cardinality(Answering)
             /\ \A f \in Answering : \E n \in DOMAIN Row : successfulResults[n] = f
             /\ \A n \in DOMAIN Row : successfulResults[n] \in Answering
             /\ DOMAIN Row = 1 .. Successes
  BY <1>3, HeardProperties, RowProperties DEF Heard, Holds
<1>4. CASE AllSettled /\ Successes < ConsensusQuorum
  BY <1>3, <1>4 DEF ConsensusVerdict
<1>5. CASE AllSettled /\ ~(Successes < ConsensusQuorum) /\ Mode = "ceil_median"
  <2>1. ConsensusVerdict = Resolved(CeilMedian(Row)) /\ Successes # 0
    BY <1>1, <1>5 DEF ConsensusVerdict
  <2>2. Cardinality(Answering) >= ConsensusQuorum
    BY <1>1, <1>3, <1>5
  <2> QED BY <1>5, <2>1, <2>2, MedianVotes
<1>6. CASE AllSettled /\ ~(Successes < ConsensusQuorum) /\ Mode = "consensus_all_equal"
  <2>1. 1 \in DOMAIN Row
    BY <1>1, <1>3, <1>6
  <2>2. CASE \E n \in DOMAIN Row : Row[n] # Row[1]
    <3>1. ConsensusVerdict = Rejected
      BY <1>6, <2>2 DEF ConsensusVerdict
    <3>2. \E f, g \in Answering : answer[f] # answer[g]
      BY <1>3, <1>6, <2>1, <2>2 DEF Row
    <3> QED BY <1>6, <3>1, <3>2
  <2>3. CASE ~ \E n \in DOMAIN Row : Row[n] # Row[1]
    <3>1. ConsensusVerdict = Resolved(Row[1])
      BY <1>6, <2>3 DEF ConsensusVerdict
    <3>2. Row[1] \in Nat
      BY <1>6, <2>1, RowProperties, ConfigAssumption DEF Results
    <3>3. Voters(Row[1]) = Answering
      BY <1>3, <1>6, <2>3 DEF Voters, Row
    <3>4. Cardinality(Answering) >= ConsensusQuorum
      BY <1>1, <1>3, <1>6
    <3> QED BY <1>6, <3>1, <3>2, <3>3, <3>4
  <2> QED BY <2>2, <2>3
<1> QED BY <1>2, <1>4, <1>5, <1>6

LEMMA FirstVotes ==
  ASSUME RecordsInv, Mode \in {"race", "fallback"}
  PROVE  \/ FirstVerdict = Waiting
         \/ FirstVerdict = Rejected /\ Answering = {}
         \/ \E w \in Nat : FirstVerdict = Resolved(w)
<1>1. /\ Successes \in Nat /\ Successes = Cardinality(Heard) /\ IsFiniteSet(Heard)
      /\ AllSettled => Heard = Answering
  BY HeardProperties
<1>2. CASE Successes > 0
  <2>1. 1 \in DOMAIN Row
    BY <1>1, <1>2, RowProperties
  <2>2. Row[1] \in Results(Mode)
    BY <2>1, RowProperties
  <2>3. Row[1] \in Nat
    BY <2>2, ConfigAssumption DEF Results
  <2> QED BY <1>2, <2>3 DEF FirstVerdict
<1>3. CASE ~(Successes > 0)
  <2>1. Heard = {}
    BY <1>1, <1>3, FS_EmptySet
  <2> QED BY <1>1, <1>3, <2>1 DEF FirstVerdict
<1> QED BY <1>2, <1>3

-----------------------------------------------------------------------------
(* The invariant.  A verdict taken in any state has what the properties ask of an     *)
(* outcome, and no later step takes it away.                               *)

\* What is asked of an outcome o.
TypedOutcome(o) ==
  \/ o \in {Pending, Rejected, TimedOut}
  \/ /\ o = Resolved(o.value)
     /\ o.value \in IF Mode = "multi_agreement"
                    THEN [Points -> Values \cup {Undefined}] ELSE Nat

VotedOutcome(o) ==
  o.kind = "resolved" => AgreedByQuorum(o.value) /\ ConsensusOfAll(o.value)

UnsettledOutcome(o) == o.kind = "rejected" => NeverSettling

OutcomeOK(o) == TypedOutcome(o) /\ VotedOutcome(o) /\ UnsettledOutcome(o)

OutcomeInv == outcome = Pending \/ OutcomeOK(outcome)

LEMMA ModeOf ==
  ASSUME RecordsInv
  PROVE  Mode \in ExecutionMode
  BY ConfigAssumption DEF RecordsInv, Mode, MultiExecutorConfig

LEMMA VerdictOK ==
  ASSUME RecordsInv, Verdict # Waiting
  PROVE  OutcomeOK(Verdict)
<1>1. Mode \in ExecutionMode
  BY ModeOf
<1>2. CASE Mode = "agreement"
  <2>1. Verdict = AgreementVerdict
    BY <1>2 DEF Verdict
  <2>2. CASE /\ AgreementVerdict = Rejected
             /\ \A v \in Values : Cardinality(Voters(v)) < AgreementQuorum
    BY <1>2, <2>1, <2>2
    DEF OutcomeOK, TypedOutcome, VotedOutcome, UnsettledOutcome, NeverSettling,
        Rejected, Resolved
  <2>3. CASE \E w \in Values : /\ AgreementVerdict = Resolved(w)
                              /\ Cardinality(Voters(w)) >= AgreementQuorum
    BY <1>2, <2>1, <2>3, ConfigAssumption
    DEF OutcomeOK, TypedOutcome, VotedOutcome, UnsettledOutcome, AgreedByQuorum,
        ConsensusOfAll, Resolved
  <2> QED BY <1>2, <2>1, <2>2, <2>3, AgreementVotes
<1>3. CASE Mode = "multi_agreement"
  <2>1. Verdict = MultiAgreementVerdict
    BY <1>3 DEF Verdict
  <2>2. CASE /\ MultiAgreementVerdict = Rejected
             /\ \/ Cardinality(Answering) < AgreementQuorum
                \/ \E p \in Points : \A v \in Values :
                     Cardinality(VotersAt(p, v)) < AgreementQuorum
    BY <1>3, <2>1, <2>2
    DEF OutcomeOK, TypedOutcome, VotedOutcome, UnsettledOutcome, NeverSettling,
        Rejected, Resolved
  <2>3. CASE \E w \in [Points -> Values \cup {Undefined}] :
               /\ MultiAgreementVerdict = Resolved(w)
               /\ ~UnagreedToUndefined =>
                    \A p \in Points : Cardinality(VotersAt(p, w[p])) >= AgreementQuorum
    BY <1>3, <2>1, <2>3
    DEF OutcomeOK, TypedOutcome, VotedOutcome, UnsettledOutcome, AgreedByQuorum,
        ConsensusOfAll, Resolved
  <2> QED BY <1>3, <2>1, <2>2, <2>3, MultiAgreementVotes
<1>4. CASE Mode \in {"ceil_median", "consensus_all_equal"}
  <2>1. Verdict = ConsensusVerdict
    BY <1>4 DEF Verdict
  <2>2. CASE /\ ConsensusVerdict = Rejected
             /\ \/ Cardinality(Answering) < ConsensusQuorum
                \/ /\ Mode = "consensus_all_equal"
                   /\ \E f, g \in Answering : answer[f] # answer[g]
    BY <1>4, <2>1, <2>2
    DEF OutcomeOK, TypedOutcome, VotedOutcome, UnsettledOutcome, NeverSettling,
        Rejected, Resolved
  <2>3. CASE \E w \in Nat :
              /\ ConsensusVerdict = Resolved(w)
              /\ Cardinality(Answering) >= ConsensusQuorum
              /\ Mode = "consensus_all_equal" => Voters(w) = Answering
              /\ Mode = "ceil_median" =>
                   /\ 2 * Cardinality({f \in Answering : answer[f] <= w}) >= Cardinality(Answering)
                   /\ 2 * Cardinality({f \in Answering : answer[f] >= w}) >= Cardinality(Answering)
    BY <1>4, <2>1, <2>3
    DEF OutcomeOK, TypedOutcome, VotedOutcome, UnsettledOutcome, AgreedByQuorum,
        ConsensusOfAll, Resolved
  <2> QED BY <1>4, <2>1, <2>2, <2>3, ConsensusVotes
<1>5. CASE Mode \in {"race", "fallback"}
  <2>1. Verdict = FirstVerdict
    BY <1>5 DEF Verdict
  <2>2. CASE FirstVerdict = Rejected /\ Answering = {}
    BY <1>5, <2>1, <2>2
    DEF OutcomeOK, TypedOutcome, VotedOutcome, UnsettledOutcome, NeverSettling,
        Rejected, Resolved
  <2>3. CASE \E w \in Nat : FirstVerdict = Resolved(w)
    BY <1>5, <2>1, <2>3
    DEF OutcomeOK, TypedOutcome, VotedOutcome, UnsettledOutcome, AgreedByQuorum,
        ConsensusOfAll, Resolved
  <2> QED BY <1>5, <2>1, <2>2, <2>3, FirstVotes
<1> QED BY <1>1, <1>2, <1>3, <1>4, <1>5 DEF ExecutionMode

\* Only the configuration and the answers count.
LEMMA OutcomeStays ==
  ASSUME config' = config, answer' = answer, NEW o, outcome' = o, OutcomeOK(o)
  PROVE  OutcomeInv'
<1>1. TypedOutcome(outcome)'
  BY DEF OutcomeOK, TypedOutcome, Mode, Resolved, Rejected, TimedOut
<1>2. VotedOutcome(outcome)'
  BY DEF OutcomeOK, VotedOutcome, AgreedByQuorum, ConsensusOfAll, UnagreedToUndefined, Mode,
         Voters, VotersAt, Answering, promises, AgreementQuorum, ConsensusQuorum, Total
<1>3. UnsettledOutcome(outcome)'
  BY DEF OutcomeOK, UnsettledOutcome, NeverSettling, Mode,
         Voters, VotersAt, Answering, promises, AgreementQuorum, ConsensusQuorum, Total
<1> QED BY <1>1, <1>2, <1>3 DEF OutcomeInv, OutcomeOK

LEMMA ExecutorInit == Init => RecordsInv /\ OutcomeInv
<1> SUFFICES ASSUME Init PROVE RecordsInv /\ OutcomeInv
  OBVIOUS
<1>1. RecordsInv
  <2>1. PICK started \in SUBSET Functions :
          answer \in [started -> Results(Mode) \cup {Error, Hang}]
    BY DEF Init
  <2>2. promises = started /\ promises \subseteq Functions
        /\ answer \in [promises -> Results(Mode) \cup {Error, Hang}]
    BY <2>1 DEF promises
  <2>3. /\ successfulResults \in Seq(promises) /\ NoDuplicates(successfulResults)
        /\ \A f \in promises : ~Holds(successfulResults, f)
    BY DEF Init, NoDuplicates, Holds
  <2> QED BY <2>2, <2>3 DEF Init, RecordsInv
<1>2. CASE promises # {}
  BY <1>1, <1>2 DEF Init, OutcomeInv
<1>3. CASE promises = {}
  <2>1. outcome = Rejected
    BY <1>3 DEF Init
  <2>2. Answering = {} /\ \A v : Voters(v) = {}
    BY <1>3 DEF Answering, Voters
  <2>3. Cardinality({}) = 0 /\ AgreementQuorum \in Nat \ {0} /\ Mode \in ExecutionMode
    BY <1>1, Quorums, ModeOf, FS_EmptySet
  <2>4. NeverSettling
    BY <1>3, <2>2, <2>3 DEF NeverSettling
  <2> QED BY <1>1, <2>1, <2>4
      DEF OutcomeInv, OutcomeOK, TypedOutcome, VotedOutcome, UnsettledOutcome, Rejected
<1> QED BY <1>1, <1>2, <1>3

LEMMA RecordStep ==
  ASSUME RecordsInv, NEW f, Record(f)
  PROVE  RecordsInv'
<1>1. /\ config' = config /\ answer' = answer /\ f \in promises
      /\ ~Holds(successfulResults, f)
      /\ unhandled' = unhandled \cup {f} /\ didFinish' = didFinish
  BY DEF Record, Recorded, Holds
<1>2. promises' = promises /\ Answering' = Answering
  BY <1>1 DEF promises, Answering
<1>3. CASE answer[f] \in {Error, Hang}
  <2>1. errorResults' = errorResults \cup {f} /\ successfulResults' = successfulResults
    BY <1>3 DEF Record
  <2>2. f \notin Answering
    BY <1>3 DEF Answering
  <2> QED BY <1>1, <1>2, <2>1, <2>2 DEF RecordsInv, Mode, Results
<1>4. CASE answer[f] \notin {Error, Hang}
  <2>1. successfulResults' = Append(successfulResults, f) /\ errorResults' = errorResults
    BY <1>4 DEF Record
  <2>2. f \in Answering
    BY <1>1, <1>4 DEF Answering
  <2>3. /\ successfulResults' \in Seq(promises) /\ NoDuplicates(successfulResults')
        /\ \A g : Holds(successfulResults', g) <=> Holds(successfulResults, g) \/ g = f
    BY <1>1, <2>1, AppendHolds DEF RecordsInv
  <2> QED BY <1>1, <1>2, <2>1, <2>2, <2>3 DEF RecordsInv, Mode, Results
<1> QED BY <1>3, <1>4

LEMMA ExecutorStep ==
  ASSUME RecordsInv, OutcomeInv, [Next]_vars
  PROVE  RecordsInv' /\ OutcomeInv'
<1>1. config' = config /\ answer' = answer
  BY DEF Next, vars, Record, Handle, TotalTimeout
<1>2. ASSUME outcome' = outcome PROVE OutcomeInv'
  <2>1. CASE outcome = Pending
    BY <1>2, <2>1 DEF OutcomeInv
  <2>2. CASE OutcomeOK(outcome)
    BY <1>1, <1>2, <2>2, OutcomeStays
  <2> QED BY <2>1, <2>2 DEF OutcomeInv
<1>3. ASSUME successfulResults' = successfulResults, errorResults' = errorResults,
             unhandled' \subseteq unhandled, didFinish' \in BOOLEAN
      PROVE  RecordsInv'
  BY <1>1, <1>3 DEF RecordsInv, promises, Answering, Mode, Results
<1>4. ASSUME NEW f \in Functions, Record(f) PROVE RecordsInv' /\ OutcomeInv'
  BY <1>2, <1>4, RecordStep DEF Record
<1>5. ASSUME NEW f \in Functions, Handle(f) PROVE RecordsInv' /\ OutcomeInv'
  <2>1. RecordsInv'
    BY <1>3, <1>5 DEF Handle, RecordsInv
  <2>2. CASE Verdict # Waiting /\ outcome' = Verdict
    BY <1>1, <2>1, <2>2, VerdictOK, OutcomeStays
  <2>3. CASE outcome' = outcome
    BY <1>2, <2>1, <2>3
  <2> QED BY <1>5, <2>1, <2>2, <2>3 DEF Handle
<1>6. ASSUME TotalTimeout PROVE RecordsInv' /\ OutcomeInv'
  <2>1. OutcomeOK(TimedOut)
    BY DEF OutcomeOK, TypedOutcome, VotedOutcome, UnsettledOutcome, TimedOut
  <2>2. outcome' = TimedOut
    BY <1>6 DEF TotalTimeout
  <2> QED BY <1>1, <1>3, <1>6, <2>1, <2>2, OutcomeStays DEF TotalTimeout, RecordsInv
<1>7. ASSUME UNCHANGED vars PROVE RecordsInv' /\ OutcomeInv'
  BY <1>2, <1>3, <1>7 DEF vars, RecordsInv
<1> QED BY <1>4, <1>5, <1>6, <1>7 DEF Next

LEMMA ExecutorInvariance == Spec => [](RecordsInv /\ OutcomeInv)
  BY ExecutorInit, ExecutorStep, PTL DEF Spec

\* A call's record and its outcome have their types in every mode.
THEOREM TypeCorrect == Spec => []TypeOK
<1>1. RecordsInv /\ OutcomeInv => TypeOK
  BY DEF RecordsInv, OutcomeInv, OutcomeOK, TypedOutcome, TypeOK
<1> QED BY <1>1, ExecutorInvariance, PTL

\* A result has the votes its mode asks for, whatever the order of the answers.
THEOREM ResultsVoted == Spec => []ResolvedByVotes
<1>1. OutcomeInv => ResolvedByVotes
  BY DEF OutcomeInv, OutcomeOK, VotedOutcome, ResolvedByVotes, IsResolved
<1> QED BY <1>1, ExecutorInvariance, PTL

\* A call is rejected only if no order of its answers could have settled it.
THEOREM RejectionsJustified == Spec => []RejectedOnlyUnsettled
<1>1. OutcomeInv => RejectedOnlyUnsettled
  BY DEF OutcomeInv, OutcomeOK, UnsettledOutcome, RejectedOnlyUnsettled, IsRejected
<1> QED BY <1>1, ExecutorInvariance, PTL

-----------------------------------------------------------------------------
(* The curated list                                                        *)

ListInv == ListTypeOK /\ TimersArmed /\ EnoughHealthy

LEMMA ListInitially == ListInit => ListInv
<1> SUFFICES ASSUME ListInit PROVE ListInv
  OBVIOUS
<1>1. ListTypeOK
  <2>1. callsCount \in [Rpcs -> Nat] /\ errorsCount \in [Rpcs -> Nat] /\ inFlight \in [Rpcs -> Nat]
    BY DEF ListInit
  <2>2. \A rpc \in Rpcs : errorsCount[rpc] <= callsCount[rpc]
    BY DEF ListInit
  <2>3. /\ inQuarantine \in SUBSET Rpcs /\ healthyIdentifiers \in SUBSET Rpcs
        /\ freeFromQuarantineTimer \in BOOLEAN /\ evaluationTimer \in BOOLEAN
        /\ refreshDue \in BOOLEAN
    BY DEF ListInit
  <2> QED BY <2>1, <2>2, <2>3 DEF ListTypeOK
<1>2. TimersArmed
  <2>1. ~ \E rpc \in Rpcs : callsCount[rpc] > 0
    BY DEF ListInit
  <2>2. inQuarantine = {} /\ freeFromQuarantineTimer = FALSE /\ evaluationTimer = FALSE
    BY DEF ListInit
  <2> QED BY <2>1, <2>2 DEF TimersArmed
<1>3. EnoughHealthy
  BY ListAssumption, FS_CardinalityType DEF ListInit, EnoughHealthy
<1> QED BY <1>1, <1>2, <1>3 DEF ListInv

\* Whoever asks for the best providers gets enough of them.
LEMMA RefreshStep ==
  ASSUME ListInv, Refresh
  PROVE  ListInv'
<1>1. PICK quarantine \in SUBSET inQuarantine :
        /\ Released(quarantine)
        /\ inQuarantine' = quarantine
        /\ healthyIdentifiers' = Healthy(quarantine)
        /\ IF quarantine = inQuarantine
           THEN UNCHANGED freeFromQuarantineTimer
           ELSE UpdateFreeTimer
  BY DEF Refresh
<1>2. UNCHANGED <<callsCount, errorsCount, evaluationTimer, inFlight>> /\ refreshDue' = FALSE
  BY DEF Refresh
<1>3. ListTypeOK'
  BY <1>1, <1>2 DEF ListInv, ListTypeOK, Healthy, UpdateFreeTimer
<1>4. TimersArmed'
  BY <1>1, <1>2 DEF ListInv, TimersArmed, UpdateFreeTimer
<1>5. Cardinality(Healthy(quarantine)) >= MinimalProvidersCount
  BY <1>1, ListAssumption DEF Released
<1> QED BY <1>1, <1>3, <1>4, <1>5 DEF ListInv, EnoughHealthy

LEMMA SettleStep ==
  ASSUME ListInv, NEW rpc \in Rpcs, NEW error \in BOOLEAN, Settle(rpc, error)
  PROVE  ListInv'
<1>1. /\ inFlight[rpc] > 0
      /\ inFlight' = [inFlight EXCEPT ![rpc] = @ - 1]
      /\ callsCount' = [callsCount EXCEPT ![rpc] = @ + 1]
      /\ errorsCount' = [errorsCount EXCEPT ![rpc] = @ + IF error THEN 1 ELSE 0]
      /\ UpdateEvaluationTimer
      /\ UNCHANGED <<inQuarantine, freeFromQuarantineTimer, healthyIdentifiers, refreshDue>>
  BY DEF Settle
<1>2. inFlight' \in [Rpcs -> Nat] /\ callsCount' \in [Rpcs -> Nat]
  BY <1>1 DEF ListInv, ListTypeOK
<1>3. errorsCount' \in [Rpcs -> Nat] /\ \A r \in Rpcs : errorsCount'[r] <= callsCount'[r]
  <2>1. (IF error THEN 1 ELSE 0) \in {0, 1}
    OBVIOUS
  <2> QED BY <1>1, <2>1 DEF ListInv, ListTypeOK
<1>4. ListTypeOK'
  BY <1>1, <1>2, <1>3 DEF ListInv, ListTypeOK, UpdateEvaluationTimer
<1> QED BY <1>1, <1>4 DEF ListInv, TimersArmed, EnoughHealthy, UpdateEvaluationTimer

LEMMA EvaluateStep ==
  ASSUME ListInv, Evaluate
  PROVE  ListInv'
<1> DEFINE Failing == {rpc \in Rpcs : TooManyErrors(rpc)}
<1>1. /\ inQuarantine' = inQuarantine \cup Failing
      /\ callsCount' = [rpc \in Rpcs |-> 0] /\ errorsCount' = [rpc \in Rpcs |-> 0]
      /\ UpdateEvaluationTimer
      /\ UNCHANGED <<healthyIdentifiers, refreshDue, inFlight>>
  BY DEF Evaluate
<1>2. freeFromQuarantineTimer' = (inQuarantine' # {})
  <2>1. CASE Failing # {}
    BY <2>1 DEF Evaluate, UpdateFreeTimer
  <2>2. CASE Failing = {}
    BY <1>1, <2>2 DEF Evaluate, ListInv, TimersArmed
  <2> QED BY <2>1, <2>2
<1>3. ListTypeOK'
  BY <1>1, <1>2 DEF ListInv, ListTypeOK, UpdateEvaluationTimer
<1> QED BY <1>1, <1>2, <1>3 DEF ListInv, TimersArmed, EnoughHealthy, UpdateEvaluationTimer

LEMMA ListStep ==
  ASSUME ListInv, [ListNext]_curatedVars
  PROVE  ListInv'
<1>1. ASSUME NEW rpc \in Rpcs, Call(rpc) PROVE ListInv'
  <2>1. /\ inFlight' = [inFlight EXCEPT ![rpc] = @ + 1]
        /\ UNCHANGED <<listVars, healthyIdentifiers, refreshDue>>
    BY <1>1 DEF Call
  <2>2. ListTypeOK'
    BY <2>1 DEF listVars, ListInv, ListTypeOK
  <2> QED BY <2>1, <2>2 DEF listVars, ListInv, TimersArmed, EnoughHealthy
<1>2. ASSUME NEW rpc \in Rpcs, FreeOne(rpc) PROVE ListInv'
  BY <1>2 DEF FreeOne, UpdateFreeTimer, ListInv, ListTypeOK, TimersArmed, EnoughHealthy
<1>3. ASSUME Elapse PROVE ListInv'
  BY <1>3 DEF Elapse, listVars, ListInv, ListTypeOK, TimersArmed, EnoughHealthy
<1>4. ASSUME UNCHANGED curatedVars PROVE ListInv'
  BY <1>4 DEF curatedVars, ListInv, ListTypeOK, TimersArmed, EnoughHealthy
<1> QED BY <1>1, <1>2, <1>3, <1>4, RefreshStep, SettleStep, EvaluateStep DEF ListNext

LEMMA ListInvariance == ListSpec => []ListInv
  BY ListInitially, ListStep, PTL DEF ListSpec

\* The list's counters and timers have their types, and errors are calls.
THEOREM ListTypeCorrect == ListSpec => []ListTypeOK
  BY ListInvariance, PTL DEF ListInv

\* A timer runs exactly while there is something for it to do.
THEOREM TimersRun == ListSpec => []TimersArmed
  BY ListInvariance, PTL DEF ListInv

\* The executors always find as many providers as configured.
THEOREM EnoughToCall == ListSpec => []EnoughHealthy
  BY ListInvariance, PTL DEF ListInv
=============================================================================
