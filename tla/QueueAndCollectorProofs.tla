---------------------- MODULE QueueAndCollectorProofs ----------------------
(***************************************************************************)
(* Theorems about the two helpers of utils that decide when asynchronous    *)
(* work starts: OperationQueue, for all ids and operations and for every    *)
(* conforms relation that meets ConformsAssumption, and RequestCollector,   *)
(* for all keys, callers and sizes of a batch.                              *)
(***************************************************************************)
EXTENDS OperationQueue, SetOperationQueue, RequestCollector, FiniteLemmas

\* SetOperationQueue's superset relation meets ConformsAssumption for all sets of keys, so
\* that the theorems about the queue hold of that class whatever its ids are.
LEMMA SupersetsConform ==
  ASSUME NEW S
  PROVE  /\ \A x \in S : SetConforms(x, x, FALSE)
         /\ \A x, y, z \in S :
              SetConforms(x, y, FALSE) /\ SetConforms(y, z, FALSE) => SetConforms(x, z, FALSE)
         /\ \A x, y \in S : SetConforms(x, y, TRUE) => x = y
BY DEF SetConforms

-----------------------------------------------------------------------------
(* What the parts of a step return.                                         *)

\* findIndex answers the least of the conforming positions.
LEMMA FirstProperties ==
  ASSUME NEW n \in Nat, NEW S \in SUBSET (1 .. n), S # {}
  PROVE  First(S) \in S /\ \A j \in S : First(S) <= j
  BY LeastPosition DEF First

\* p is what purge leaves of q: the subsequence at K, which has every position up
\* to k and drops only what conforms to newId.
IsPurgeOf(p, q, k, newId, K) ==
  /\ \A i \in DOMAIN q : i <= k => i \in K
  /\ \A i \in DOMAIN q :
       Purging /\ i > k => (i \in K <=> ~Conforms(q[i].id, newId, FALSE))
  /\ ~Purging => K = DOMAIN q
  /\ p \in Seq(Entry)
  /\ \A n \in DOMAIN p : \E i \in K : Rank(K, i) = n /\ p[n] = q[i]
  /\ \A i \in K : Rank(K, i) \in DOMAIN p /\ p[Rank(K, i)] = q[i]

\* The queue after a purge is a subsequence of the one before.
LEMMA PurgeProperties ==
  ASSUME NEW q \in Seq(Entry), NEW k \in DOMAIN q, NEW newId \in Ids
  PROVE  \E K \in SUBSET DOMAIN q : IsPurgeOf(Purge(q, k, newId), q, k, newId, K)
<1> DEFINE Kept == {i \in DOMAIN q : i > k => ~Conforms(q[i].id, newId, FALSE)}
<1>0. DOMAIN q \subseteq Nat /\ DOMAIN q = 1 .. Len(q) /\ Len(q) \in Nat
  OBVIOUS
<1>1. CASE Purging
  <2>1. Purge(q, k, newId) = Keep(q, Kept)
    BY <1>1 DEF Purge
  <2>2. Kept \in SUBSET DOMAIN q
    OBVIOUS
  <2>3. /\ Keep(q, Kept) \in Seq(Entry)
        /\ \A n \in DOMAIN Keep(q, Kept) : \E i \in Kept :
             Rank(Kept, i) = n /\ Keep(q, Kept)[n] = q[i]
        /\ \A i \in Kept : /\ Rank(Kept, i) \in DOMAIN Keep(q, Kept)
                           /\ Keep(q, Kept)[Rank(Kept, i)] = q[i]
    BY <2>2, KeepProperties
  <2>4. ASSUME NEW i \in DOMAIN q, i <= k PROVE i \in Kept
    <3>1. ~ (i > k)
      BY <1>0, <2>4
    <3> QED BY <3>1
  <2>5. \A i \in DOMAIN q : i > k => (i \in Kept <=> ~Conforms(q[i].id, newId, FALSE))
    OBVIOUS
  <2> HIDE DEF Kept
  <2> WITNESS Kept \in SUBSET DOMAIN q
  <2> QED BY <1>1, <2>1, <2>2, <2>3, <2>4, <2>5 DEF IsPurgeOf
<1>2. CASE ~Purging
  <2> DEFINE All == DOMAIN q
  <2>1. Purge(q, k, newId) = q
    BY <1>2 DEF Purge
  <2>2. \A i \in All : Rank(All, i) = i
    <3> TAKE i \in All
    <3>1. {j \in All : j <= i} = 1 .. i
      BY <1>0
    <3>2. Cardinality(1 .. i) = i
      BY <1>0, FS_Interval
    <3> QED BY <3>1, <3>2 DEF Rank
  <2> QED BY <1>2, <2>1, <2>2 DEF IsPurgeOf
<1> QED BY <1>1, <1>2

\* An array without its head: every later entry moves up by one.
LEMMA TailProperties ==
  ASSUME NEW S, NEW q \in Seq(S), q # << >>
  PROVE  /\ Head(q) \in S
         /\ Head(q) = q[1]
         /\ Tail(q) \in Seq(S)
         /\ \A i \in DOMAIN Tail(q) : i + 1 \in DOMAIN q /\ Tail(q)[i] = q[i + 1]
         /\ \A i \in DOMAIN q : i # 1 => i - 1 \in DOMAIN Tail(q) /\ Tail(q)[i - 1] = q[i]
  OBVIOUS

-----------------------------------------------------------------------------
(* Type correctness.                                                        *)

\* A turn of the loop leaves well-typed values.
LEMMA ProcessNextType ==
  ASSUME NEW q \in Seq(Entry), NEW active \in SUBSET Ids,
         NEW waiting \in SUBSET Entry, ProcessNext(q, active, waiting)
  PROVE  /\ queue' \in Seq(Entry)
         /\ isProcessing' \in BOOLEAN
         /\ activeOperations' \in SUBSET Ids
         /\ awaited' \in SUBSET Entry
<1>1. CASE q = << >>
  BY <1>1 DEF ProcessNext
<1>2. CASE q # << >>
  <2>1. Head(q) \in Entry /\ Tail(q) \in Seq(Entry)
    BY <1>2, TailProperties
  <2>2. Head(q).id \in Ids
    BY <2>1 DEF Entry
  <2>3. /\ queue' = Tail(q)
        /\ isProcessing' = TRUE
        /\ activeOperations' = active \cup {Head(q).id}
        /\ awaited' = waiting \cup {Head(q)}
    BY <1>2 DEF ProcessNext
  <2> QED BY <2>1, <2>2, <2>3
<1> QED BY <1>1, <1>2

\* Replace updates the first conforming entry k and purges what is behind it.
LEMMA ReplaceShape ==
  ASSUME TypeOK, NEW x \in Ids, NEW o \in Operations, Replace(x, o)
  PROVE  \E k \in DOMAIN queue :
           LET r == [queue EXCEPT ![k] = [id |-> x, operation |-> o]]
           IN  /\ Conforms(queue[k].id, x, FALSE)
               /\ \A j \in DOMAIN queue : j < k => ~Conforms(queue[j].id, x, FALSE)
               /\ queue' = Purge(r, k, x)
               /\ r \in Seq(Entry)
               /\ \E K \in SUBSET DOMAIN r : IsPurgeOf(queue', r, k, x, K)
<1> DEFINE k == First(Conforming(x))
           r == [queue EXCEPT ![k] = [id |-> x, operation |-> o]]
<1>1. Len(queue) \in Nat /\ DOMAIN queue = 1 .. Len(queue) /\ queue \in Seq(Entry)
  BY DEF TypeOK
<1>2. Conforming(x) \in SUBSET (1 .. Len(queue)) /\ Conforming(x) # {}
  BY <1>1 DEF Replace, Conforming
<1>3. k \in Conforming(x) /\ \A j \in Conforming(x) : k <= j
  BY <1>1, <1>2, FirstProperties
<1> HIDE DEF k
<1>4. k \in DOMAIN queue /\ Conforms(queue[k].id, x, FALSE)
  BY <1>3 DEF Conforming
<1>5. ASSUME NEW j \in DOMAIN queue, j < k PROVE ~Conforms(queue[j].id, x, FALSE)
  <2>1. ~ (k <= j)
    BY <1>1, <1>4, <1>5
  <2> QED BY <1>3, <2>1 DEF Conforming
<1>6. r \in Seq(Entry) /\ k \in DOMAIN r
  <2>1. [id |-> x, operation |-> o] \in Entry
    BY DEF Entry
  <2> QED BY <1>1, <1>4, <2>1
<1>7. queue' = Purge(r, k, x)
  BY DEF Replace, k
<1>8. \E K \in SUBSET DOMAIN r : IsPurgeOf(queue', r, k, x, K)
  BY <1>6, <1>7, PurgeProperties
<1> QED BY <1>4, <1>5, <1>6, <1>7, <1>8

\* Every step of the queue keeps its variables in their types.
LEMMA TypeInvariance == TypeOK /\ [Next]_vars => TypeOK'
<1> SUFFICES ASSUME TypeOK, [Next]_vars PROVE TypeOK'
  OBVIOUS
<1>1. ASSUME NEW x \in Ids, NEW o \in Operations, Replace(x, o) PROVE TypeOK'
  <2>1. queue' \in Seq(Entry)
    BY <1>1, ReplaceShape DEF IsPurgeOf
  <2> QED BY <1>1, <2>1 DEF TypeOK, Replace
<1>2. ASSUME NEW x \in Ids, NEW o \in Operations, NEW can \in BOOLEAN, Push(x, o, can)
      PROVE  TypeOK'
  <2> DEFINE q == Append(queue, [id |-> x, operation |-> o])
  <2>1. q \in Seq(Entry)
    BY DEF TypeOK, Entry
  <2>2. /\ queue' \in Seq(Entry)
        /\ isProcessing' \in BOOLEAN
        /\ activeOperations' \in SUBSET Ids
        /\ awaited' \in SUBSET Entry
    <3>1. CASE isProcessing
      BY <1>2, <2>1, <3>1 DEF Push, ProcessQueue, TypeOK
    <3>2. CASE ~isProcessing
      BY <1>2, <2>1, <3>2, ProcessNextType DEF Push, ProcessQueue, TypeOK
    <3> QED BY <3>1, <3>2
  <2> QED BY <1>2, <2>2 DEF Push, TypeOK
<1>3. ASSUME NEW e \in awaited, Settle(e) PROVE TypeOK'
  <2>1. ProcessNext(queue, activeOperations \ {e.id}, awaited \ {e})
    BY <1>3 DEF Settle
  <2>2. /\ queue' \in Seq(Entry)
        /\ isProcessing' \in BOOLEAN
        /\ activeOperations' \in SUBSET Ids
        /\ awaited' \in SUBSET Entry
    BY <2>1, ProcessNextType DEF TypeOK
  <2> QED BY <1>3, <2>2 DEF Settle, TypeOK
<1>4. CASE UNCHANGED vars
  BY <1>4 DEF TypeOK, vars
<1> QED BY <1>1, <1>2, <1>3, <1>4 DEF Next, Refuse

\* The queue's variables keep their types.
THEOREM TypeCorrect == Spec => []TypeOK
<1>1. Init => TypeOK
  <2> SUFFICES ASSUME Init PROVE TypeOK
    OBVIOUS
  <2>1. queue \in Seq(Entry)
    BY DEF Init
  <2>2. latest \in [Ids -> Operations \cup {NoOperation}]
    BY DEF Init
  <2> QED BY <2>1, <2>2 DEF Init, TypeOK
<1> QED BY <1>1, TypeInvariance, PTL DEF Spec

-----------------------------------------------------------------------------
(* No entry is covered by one behind it.                                    *)

\* NoCoveredEntry of any queue, so that it can be said of the ones in between.
Uncovered(q) ==
  \A i, j \in DOMAIN q : i < j => ~Conforms(q[i].id, q[j].id, FALSE)

\* shift cannot break it.
LEMMA UncoveredTail ==
  ASSUME NEW q \in Seq(Entry), q # << >>, Uncovered(q)
  PROVE  Uncovered(Tail(q))
<1> SUFFICES ASSUME NEW i \in DOMAIN Tail(q), NEW j \in DOMAIN Tail(q), i < j
             PROVE  ~Conforms(Tail(q)[i].id, Tail(q)[j].id, FALSE)
  BY DEF Uncovered
<1>1. /\ i + 1 \in DOMAIN q /\ Tail(q)[i] = q[i + 1]
      /\ j + 1 \in DOMAIN q /\ Tail(q)[j] = q[j + 1]
  BY TailProperties
<1>2. i + 1 < j + 1
  <2>1. i \in Nat /\ j \in Nat
    BY TailProperties
  <2> QED BY <2>1
<1> QED BY <1>1, <1>2 DEF Uncovered

\* push adds an entry to which no queued one conforms.
LEMMA UncoveredPush ==
  ASSUME NEW q \in Seq(Entry), NEW e \in Entry, Uncovered(q),
         \A i \in DOMAIN q : ~Conforms(q[i].id, e.id, FALSE)
  PROVE  Append(q, e) \in Seq(Entry) /\ Uncovered(Append(q, e))
<1> DEFINE r == Append(q, e)
<1>1. /\ r \in Seq(Entry)
      /\ \A i \in DOMAIN r : (i \in DOMAIN q /\ r[i] = q[i]) \/ (i = Len(q) + 1 /\ r[i] = e)
  OBVIOUS
<1>2. \A i \in DOMAIN q : i < Len(q) + 1
  OBVIOUS
<1>3. ASSUME NEW i \in DOMAIN r, NEW j \in DOMAIN r, i < j
      PROVE  ~Conforms(r[i].id, r[j].id, FALSE)
  <2>0. i # Len(q) + 1
    <3>1. j <= Len(q) + 1 /\ i \in Nat /\ j \in Nat /\ Len(q) \in Nat
      BY <1>1, <1>2
    <3> QED BY <1>3, <3>1
  <2>1. i \in DOMAIN q /\ r[i] = q[i]
    BY <1>1, <2>0
  <2>2. CASE j \in DOMAIN q /\ r[j] = q[j]
    BY <1>3, <2>1, <2>2 DEF Uncovered
  <2>3. CASE r[j] = e
    BY <2>1, <2>3
  <2> QED BY <1>1, <2>2, <2>3
<1> QED BY <1>1, <1>3 DEF Uncovered

\* A replacement at the first conforming position, purge included: what stood
\* before k does not conform to newId, and if newId conformed to an entry behind
\* k, so would the entry it replaced.
LEMMA UncoveredReplace ==
  ASSUME NEW q \in Seq(Entry), Uncovered(q), NEW newId \in Ids, NEW o \in Operations,
         NEW k \in DOMAIN q, Conforms(q[k].id, newId, FALSE),
         \A j \in DOMAIN q : j < k => ~Conforms(q[j].id, newId, FALSE)
  PROVE  Uncovered(Purge([q EXCEPT ![k] = [id |-> newId, operation |-> o]], k, newId))
<1> DEFINE e == [id |-> newId, operation |-> o]
           r == [q EXCEPT ![k] = e]
           p == Purge(r, k, newId)
<1>0. e \in Entry
  BY DEF Entry
<1>1. /\ r \in Seq(Entry)
      /\ DOMAIN r = DOMAIN q
      /\ r[k].id = newId
      /\ \A i \in DOMAIN q : i # k => r[i] = q[i]
      /\ DOMAIN q \subseteq Nat
      /\ Len(q) \in Nat /\ DOMAIN q = 1 .. Len(q)
  <2>1. r \in Seq(Entry) /\ DOMAIN r = DOMAIN q
    BY <1>0
  <2>2. r[k] = e /\ \A i \in DOMAIN q : i # k => r[i] = q[i]
    OBVIOUS
  <2> QED BY <2>1, <2>2
<1> HIDE DEF r
<1>2. \A i \in DOMAIN q : q[i].id \in Ids /\ r[i].id \in Ids
  <2>1. \A i \in DOMAIN q : q[i] \in Entry /\ r[i] \in Entry
    BY <1>1
  <2> QED BY <2>1 DEF Entry
<1>3. PICK K \in SUBSET DOMAIN r : IsPurgeOf(p, r, k, newId, K)
  BY <1>1, PurgeProperties
<1> HIDE DEF p
<1>4. \A i, j \in K : Rank(K, i) < Rank(K, j) => i < j
  <2>1. K \in SUBSET (1 .. Len(q)) /\ Len(q) \in Nat
    BY <1>1
  <2> QED BY <2>1, RankReflectsOrder
<1>5. ASSUME NEW i \in K, NEW j \in K, i < j
      PROVE  ~Conforms(r[i].id, r[j].id, FALSE)
  <2>0. i \in DOMAIN q /\ j \in DOMAIN q /\ i \in Nat /\ j \in Nat /\ k \in Nat
    BY <1>1
  <2>1. CASE i = k
    <3>1. q[j].id = r[j].id /\ j > k
      BY <1>1, <1>5, <2>0, <2>1
    <3>2. ~Conforms(q[k].id, q[j].id, FALSE)
      BY <1>5, <2>0, <2>1 DEF Uncovered
    <3> QED BY <1>1, <1>2, <2>0, <2>1, <3>1, <3>2, ConformsAssumption
  <2>2. CASE j = k
    BY <1>1, <1>5, <2>0, <2>2
  <2>3. CASE i # k /\ j # k
    BY <1>1, <1>5, <2>0, <2>3 DEF Uncovered
  <2> QED BY <2>1, <2>2, <2>3
<1>6. ASSUME NEW m \in DOMAIN p, NEW n \in DOMAIN p, m < n
      PROVE  ~Conforms(p[m].id, p[n].id, FALSE)
  <2>1. PICK i \in K : Rank(K, i) = m /\ p[m] = r[i]
    BY <1>3 DEF IsPurgeOf
  <2>2. PICK j \in K : Rank(K, j) = n /\ p[n] = r[j]
    BY <1>3 DEF IsPurgeOf
  <2>3. i < j
    BY <1>4, <1>6, <2>1, <2>2
  <2> QED BY <1>5, <2>1, <2>2, <2>3
<1> QED BY <1>6 DEF Uncovered, p, r

\* One step keeps queued entries uncovered, from whatever state is well typed.
LEMMA UncoveredInvariance ==
  TypeOK /\ NoCoveredEntry /\ [Next]_vars => NoCoveredEntry'
<1> SUFFICES ASSUME TypeOK, Uncovered(queue), [Next]_vars PROVE Uncovered(queue')
  BY DEF NoCoveredEntry, Uncovered
<1>0. queue \in Seq(Entry)
  BY DEF TypeOK
<1>1. ASSUME NEW x \in Ids, NEW o \in Operations, Replace(x, o)
      PROVE  Uncovered(queue')
  <2>1. PICK k \in DOMAIN queue :
          /\ Conforms(queue[k].id, x, FALSE)
          /\ \A j \in DOMAIN queue : j < k => ~Conforms(queue[j].id, x, FALSE)
          /\ queue' = Purge([queue EXCEPT ![k] = [id |-> x, operation |-> o]], k, x)
    BY <1>1, ReplaceShape
  <2> QED BY <1>0, <2>1, UncoveredReplace
<1>2. ASSUME NEW x \in Ids, NEW o \in Operations, NEW can \in BOOLEAN, Push(x, o, can)
      PROVE  Uncovered(queue')
  <2> DEFINE e == [id |-> x, operation |-> o]
             q == Append(queue, e)
  <2>1. e \in Entry
    BY DEF Entry
  <2>2. \A i \in DOMAIN queue : ~Conforms(queue[i].id, e.id, FALSE)
    BY <1>2 DEF Push, Conforming
  <2> HIDE DEF e
  <2>3. q \in Seq(Entry) /\ Uncovered(q)
    BY <1>0, <2>1, <2>2, UncoveredPush
  <2>5. q # << >>
    BY <1>0, <2>1
  <2>4. queue' = q \/ queue' = Tail(q)
    BY <1>2 DEF Push, ProcessQueue, ProcessNext, e
  <2> HIDE DEF q
  <2> QED BY <2>3, <2>5, <2>4, UncoveredTail
<1>3. ASSUME NEW e \in awaited, Settle(e) PROVE Uncovered(queue')
  <2>1. queue' = queue \/ (queue # << >> /\ queue' = Tail(queue))
    BY <1>3 DEF Settle, ProcessNext
  <2> QED BY <1>0, <2>1, UncoveredTail
<1>4. CASE UNCHANGED vars
  BY <1>4 DEF vars
<1> QED BY <1>1, <1>2, <1>3, <1>4 DEF Next, Refuse

\* In every reachable state of enqueue and processQueue no queued id conforms to
\* one behind it: a newer covering call always lands in the older one's place.
THEOREM EntriesUncovered == Spec => []NoCoveredEntry
<1>1. Init => NoCoveredEntry
  BY DEF Init, NoCoveredEntry
<1> QED BY <1>1, TypeCorrect, UncoveredInvariance, PTL DEF Spec

-----------------------------------------------------------------------------
(* One loop at a time, and none missing.                                    *)

\* A turn of the loop started when nothing is awaited keeps SingleFlight.
LEMMA ProcessNextSingle ==
  ASSUME NEW q, ProcessNext(q, {}, {})
  PROVE  SingleFlight'
<1>1. CASE q = << >>
  BY <1>1 DEF ProcessNext, SingleFlight
<1>2. CASE q # << >>
  BY <1>2 DEF ProcessNext, SingleFlight
<1> QED BY <1>1, <1>2

\* One step keeps SingleFlight.
LEMMA SingleFlightInvariance ==
  SingleFlight /\ [Next]_vars => SingleFlight'
<1> SUFFICES ASSUME SingleFlight, [Next]_vars PROVE SingleFlight'
  OBVIOUS
<1>1. ASSUME NEW x \in Ids, NEW o \in Operations, Replace(x, o) PROVE SingleFlight'
  <2>1. DOMAIN queue # {}
    BY <1>1 DEF Replace, Conforming
  <2>2. queue # << >>
    BY <2>1
  <2> QED BY <1>1, <2>2 DEF Replace, SingleFlight
<1>2. ASSUME NEW x \in Ids, NEW o \in Operations, NEW can \in BOOLEAN, Push(x, o, can)
      PROVE  SingleFlight'
  <2>1. CASE isProcessing
    BY <1>2, <2>1 DEF Push, ProcessQueue, SingleFlight
  <2>2. CASE ~isProcessing
    <3>1. awaited = {} /\ activeOperations = {}
      BY <2>2 DEF SingleFlight
    <3> QED BY <1>2, <2>2, <3>1, ProcessNextSingle DEF Push, ProcessQueue
  <2> QED BY <2>1, <2>2
<1>3. ASSUME NEW e \in awaited, Settle(e) PROVE SingleFlight'
  <2>1. awaited = {e} /\ activeOperations = {e.id}
    BY <1>3 DEF SingleFlight
  <2>2. awaited \ {e} = {} /\ activeOperations \ {e.id} = {}
    BY <2>1
  <2> QED BY <1>3, <2>2, ProcessNextSingle DEF Settle
<1>4. CASE UNCHANGED vars
  BY <1>4 DEF vars, SingleFlight
<1> QED BY <1>1, <1>2, <1>3, <1>4 DEF Next, Refuse

\* processQueue never runs two operations at once and never leaves a queued one
\* with nobody to shift it, whatever calls interleave with its awaits.
THEOREM OneLoop == Spec => []SingleFlight
<1>1. Init => SingleFlight
  BY DEF Init, SingleFlight
<1> QED BY <1>1, SingleFlightInvariance, PTL DEF Spec

-----------------------------------------------------------------------------
(* A queued entry has the newest operation of its id.                       *)

\* One step keeps FreshOperation where no queued id is covered by a later one.
LEMMA FreshInvariance ==
  TypeOK /\ NoCoveredEntry /\ FreshOperation /\ [Next]_vars => FreshOperation'
<1> SUFFICES ASSUME TypeOK, NoCoveredEntry, FreshOperation, [Next]_vars
             PROVE  FreshOperation'
  OBVIOUS
<1>0. /\ queue \in Seq(Entry)
      /\ DOMAIN queue \subseteq Nat
      /\ \A i \in DOMAIN queue : queue[i].id \in Ids
      /\ latest \in [Ids -> Operations \cup {NoOperation}]
  <2>1. queue \in Seq(Entry) /\ latest \in [Ids -> Operations \cup {NoOperation}]
    BY DEF TypeOK
  <2>2. \A i \in DOMAIN queue : queue[i] \in Entry
    BY <2>1
  <2> QED BY <2>1, <2>2 DEF Entry
<1>1. ASSUME NEW x \in Ids, NEW o \in Operations, Replace(x, o) PROVE FreshOperation'
  <2> DEFINE e == [id |-> x, operation |-> o]
  <2>1. PICK k \in DOMAIN queue :
          LET r == [queue EXCEPT ![k] = e]
          IN  /\ Conforms(queue[k].id, x, FALSE)
              /\ \A j \in DOMAIN queue : j < k => ~Conforms(queue[j].id, x, FALSE)
              /\ \E K \in SUBSET DOMAIN r : IsPurgeOf(queue', r, k, x, K)
    BY <1>1, ReplaceShape
  <2> DEFINE r == [queue EXCEPT ![k] = e]
  <2>2. r[k] = e /\ \A i \in DOMAIN queue : i # k => r[i] = queue[i]
    OBVIOUS
  <2>3. \A n \in DOMAIN queue' : \E i \in DOMAIN queue : queue'[n] = r[i]
    BY <2>1 DEF IsPurgeOf
  <2>4. latest' = [latest EXCEPT ![x] = o]
    BY <1>1 DEF Replace
  <2> HIDE DEF r
  <2>5. ASSUME NEW i \in DOMAIN queue, i # k PROVE queue[i].id # x
    <3>1. CASE i < k
      BY <1>0, <2>1, <3>1, ConformsAssumption
    <3>2. CASE k < i
      BY <1>0, <2>1, <3>2 DEF NoCoveredEntry
    <3>3. i < k \/ k < i
      BY <1>0, <2>5
    <3> QED BY <3>1, <3>2, <3>3
  <2>6. ASSUME NEW i \in DOMAIN queue PROVE r[i].operation = latest'[r[i].id]
    <3>1. CASE i = k
      BY <1>0, <2>2, <2>4, <3>1
    <3>2. CASE i # k
      BY <1>0, <2>2, <2>4, <2>5, <3>2 DEF FreshOperation
    <3> QED BY <3>1, <3>2
  <2> QED BY <2>3, <2>6 DEF FreshOperation
<1>2. ASSUME NEW x \in Ids, NEW o \in Operations, NEW can \in BOOLEAN, Push(x, o, can)
      PROVE  FreshOperation'
  <2> DEFINE e == [id |-> x, operation |-> o]
             q == Append(queue, e)
  <2>1. /\ q \in Seq(Entry) /\ q # << >>
        /\ \A i \in DOMAIN q : (i \in DOMAIN queue /\ q[i] = queue[i]) \/ q[i] = e
    <3>1. e \in Entry
      BY DEF Entry
    <3> HIDE DEF e
    <3> QED BY <1>0, <3>1
  <2>2. latest' = [latest EXCEPT ![x] = o]
    BY <1>2 DEF Push
  <2>3. \A i \in DOMAIN queue : queue[i].id # x
    BY <1>0, <1>2, ConformsAssumption DEF Push, Conforming
  <2>4. \A i \in DOMAIN q : q[i].operation = latest'[q[i].id]
    <3> TAKE i \in DOMAIN q
    <3>1. CASE q[i] = e
      BY <1>0, <2>2, <3>1
    <3>2. CASE i \in DOMAIN queue /\ q[i] = queue[i]
      BY <1>0, <2>2, <2>3, <3>2 DEF FreshOperation
    <3> QED BY <2>1, <3>1, <3>2
  <2>5. queue' = q \/ queue' = Tail(q)
    BY <1>2 DEF Push, ProcessQueue, ProcessNext
  <2> HIDE DEF q
  <2>6. \A i \in DOMAIN queue' : \E j \in DOMAIN q : queue'[i] = q[j]
    BY <2>1, <2>5, TailProperties
  <2> QED BY <2>4, <2>6 DEF FreshOperation
<1>3. ASSUME NEW e \in awaited, Settle(e) PROVE FreshOperation'
  <2>1. queue' = queue \/ (queue # << >> /\ queue' = Tail(queue))
    BY <1>3 DEF Settle, ProcessNext
  <2>2. \A i \in DOMAIN queue' : \E j \in DOMAIN queue : queue'[i] = queue[j]
    BY <1>0, <2>1, TailProperties
  <2>3. latest' = latest
    BY <1>3 DEF Settle
  <2> QED BY <2>2, <2>3 DEF FreshOperation
<1>4. CASE UNCHANGED vars
  BY <1>4 DEF vars, FreshOperation
<1> QED BY <1>1, <1>2, <1>3, <1>4 DEF Next, Refuse

\* A replacement is never lost: the operation that will run for a queued id is the
\* one of the last call that enqueue accepted for it.
THEOREM NewestOperationRuns == Spec => []FreshOperation
<1>1. Init => FreshOperation
  BY DEF Init, FreshOperation
<1> QED BY <1>1, TypeCorrect, EntriesUncovered, FreshInvariance, PTL DEF Spec

-----------------------------------------------------------------------------
(* No step sends a waiting id back.                                         *)

\* What a step owes the entry at i.
Kept(i) ==
  \/ WaitsAtMost(queue', queue[i].id, i)
  \/ \E e \in awaited' : e = queue[i]

\* A step away from a well-typed state in which a waiting entry has a loop.
LEMMA OvertakingStep ==
  TypeOK /\ SingleFlight /\ [Next]_vars => \A i \in DOMAIN queue : Kept(i)
<1> SUFFICES ASSUME TypeOK, SingleFlight, [Next]_vars, NEW i \in DOMAIN queue
             PROVE  Kept(i)
  OBVIOUS
<1>0. /\ queue \in Seq(Entry) /\ Len(queue) \in Nat /\ DOMAIN queue = 1 .. Len(queue)
      /\ \A j \in DOMAIN queue : j \in Nat /\ queue[j].id \in Ids
  <2>1. queue \in Seq(Entry)
    BY DEF TypeOK
  <2>2. \A j \in DOMAIN queue : queue[j] \in Entry
    BY <2>1
  <2> QED BY <2>1, <2>2 DEF Entry
<1>1. ASSUME NEW j \in DOMAIN queue', j <= i, queue'[j].id = queue[i].id PROVE Kept(i)
  BY <1>0, <1>1, ConformsAssumption DEF Kept, WaitsAtMost
<1>2. ASSUME NEW x \in Ids, NEW o \in Operations, Replace(x, o) PROVE Kept(i)
  <2> DEFINE e == [id |-> x, operation |-> o]
  <2>1. PICK k \in DOMAIN queue :
          LET r == [queue EXCEPT ![k] = e]
          IN  /\ Conforms(queue[k].id, x, FALSE)
              /\ r \in Seq(Entry)
              /\ \E K \in SUBSET DOMAIN r : IsPurgeOf(queue', r, k, x, K)
    BY <1>2, ReplaceShape
  <2> DEFINE r == [queue EXCEPT ![k] = e]
  <2>2. /\ r[k] = e /\ \A j \in DOMAIN queue : j # k => r[j] = queue[j]
        /\ DOMAIN r = DOMAIN queue
    OBVIOUS
  <2>3. PICK K \in SUBSET DOMAIN queue : IsPurgeOf(queue', r, k, x, K)
    BY <2>1, <2>2
  <2> HIDE DEF r
  <2>4. \A j \in K : Rank(K, j) \in DOMAIN queue' /\ queue'[Rank(K, j)] = r[j]
    BY <2>3 DEF IsPurgeOf
  <2>5. k \in K /\ (i <= k => i \in K)
    BY <1>0, <2>2, <2>3 DEF IsPurgeOf
  <2>6. \A j \in K : Rank(K, j) <= j /\ Rank(K, j) \in Nat
    <3>1. K \in SUBSET (1 .. Len(queue))
      BY <1>0
    <3>2. \A j \in K : Rank(K, j) <= j
      BY <1>0, <3>1, RankBound
    <3>3. /\ \A j \in K : Rank(K, j) \in 1 .. Cardinality(K)
          /\ Cardinality(K) \in Nat
      BY <1>0, <3>1, RankProperties, Zenon
    <3> QED BY <3>2, <3>3
  <2>7. CASE i \in K /\ i # k
    <3>1. queue'[Rank(K, i)].id = queue[i].id
      BY <2>2, <2>4, <2>7
    <3> QED BY <1>1, <2>4, <2>6, <2>7, <3>1
  <2>8. CASE i = k \/ i \notin K
    <3>1. k <= i
      BY <1>0, <2>5, <2>8
    <3>2. Conforms(queue[i].id, x, FALSE)
      <4>1. CASE i = k
        BY <2>1, <4>1
      <4>2. CASE i \notin K
        <5>1. Purging /\ i > k
          BY <1>0, <2>2, <2>3, <2>5, <4>2 DEF IsPurgeOf
        <5>2. r[i] = queue[i]
          BY <1>0, <2>2, <5>1
        <5> QED BY <2>2, <2>3, <4>2, <5>1, <5>2 DEF IsPurgeOf
      <4> QED BY <2>8, <4>1, <4>2
    <3>3. /\ Rank(K, k) \in DOMAIN queue'
          /\ queue'[Rank(K, k)].id = x
          /\ Rank(K, k) <= i
      BY <1>0, <2>2, <2>4, <2>5, <2>6, <3>1
    <3> QED BY <3>2, <3>3 DEF Kept, WaitsAtMost
  <2> QED BY <2>7, <2>8
<1>3. ASSUME NEW x \in Ids, NEW o \in Operations, NEW can \in BOOLEAN, Push(x, o, can)
      PROVE  Kept(i)
  <2> DEFINE e == [id |-> x, operation |-> o]
  <2>1. isProcessing
    <3>1. queue # << >>
      BY <1>0
    <3> QED BY <3>1 DEF SingleFlight
  <2>2. queue' = Append(queue, e)
    BY <1>3, <2>1 DEF Push, ProcessQueue
  <2>3. e \in Entry
    BY DEF Entry
  <2> HIDE DEF e
  <2>4. i \in DOMAIN queue' /\ queue'[i] = queue[i]
    BY <1>0, <2>2, <2>3
  <2> QED BY <1>0, <1>1, <2>4
<1>4. ASSUME NEW e \in awaited, Settle(e) PROVE Kept(i)
  <2>1. queue # << >>
    BY <1>0
  <2>2. queue' = Tail(queue) /\ Head(queue) \in awaited'
    BY <1>4, <2>1 DEF Settle, ProcessNext
  <2>3. CASE i = 1
    BY <1>0, <2>1, <2>2, <2>3, TailProperties DEF Kept
  <2>4. CASE i # 1
    <3>1. i - 1 \in DOMAIN Tail(queue) /\ Tail(queue)[i - 1] = queue[i]
      BY <1>0, <2>1, <2>4, TailProperties
    <3> QED BY <1>0, <1>1, <2>2, <3>1
  <2> QED BY <2>3, <2>4
<1>5. CASE UNCHANGED vars
  <2>1. i \in DOMAIN queue' /\ queue'[i].id = queue[i].id
    BY <1>5 DEF vars
  <2> QED BY <1>0, <1>1, <2>1
<1> QED BY <1>2, <1>3, <1>4, <1>5 DEF Next, Refuse

\* Neither a replacement nor a purge nor a push makes a waiting id wait longer:
\* it, or one that covers it, stays where it was or moves to the head.
THEOREM NothingOvertaken == Spec => NeverOvertaken
<1>1. TypeOK /\ SingleFlight /\ [Next]_vars =>
        [\A i \in DOMAIN queue :
           \/ WaitsAtMost(queue', queue[i].id, i)
           \/ \E e \in awaited' : e = queue[i]]_vars
  BY OvertakingStep DEF Kept
<1> QED BY <1>1, TypeCorrect, OneLoop, PTL DEF Spec, NeverOvertaken

-----------------------------------------------------------------------------
(* RequestCollector: what flattening, slicing and filtering return.         *)

\* Positions that hold the first and the next after each they hold are all positions.
LEMMA AllPositions ==
  ASSUME NEW n \in Nat, NEW P \in SUBSET (1 .. n), 1 \in P,
         \A i \in P : i + 1 \in 1 .. n => i + 1 \in P
  PROVE  P = 1 .. n
<1> DEFINE Missing == (1 .. n) \ P
<1> SUFFICES ASSUME Missing # {} PROVE FALSE
  OBVIOUS
<1>1. Missing \in SUBSET (1 .. n)
  OBVIOUS
<1>2. PICK m \in Missing : \A j \in Missing : m <= j
  <2> HIDE DEF Missing
  <2> QED BY <1>1, LeastPosition
<1>3. m \in 1 .. n /\ m \notin P /\ m # 1
  BY <1>2
<1>4. m - 1 \in 1 .. n /\ m - 1 \notin Missing /\ (m - 1) + 1 = m
  BY <1>2, <1>3
<1> QED BY <1>3, <1>4

\* What FlattenSeq has gathered up to each position.
Gathered(seqs) ==
  CHOOSE f : f = [i \in 1 .. Len(seqs) |-> IF i = 1 THEN seqs[i] ELSE f[i - 1] \o seqs[i]]

LEMMA GatheredProperties ==
  ASSUME NEW S, NEW seqs \in Seq(Seq(S)), seqs # << >>
  PROVE  LET g == Gathered(seqs)
             N == Len(seqs)
         IN  /\ N \in Nat \ {0}
             /\ FlattenSeq(seqs) = g[N]
             /\ g[1] = seqs[1]
             /\ \A i \in 1 .. N : g[i] \in Seq(S)
             /\ \A i \in 1 .. N : i + 1 \in 1 .. N => g[i + 1] = g[i] \o seqs[i + 1]
<1> DEFINE N == Len(seqs)
           Gathers(f, m) ==
             f = [i \in 1 .. m |-> IF i = 1 THEN seqs[i] ELSE f[i - 1] \o seqs[i]]
           P == {m \in 1 .. N : \E f : Gathers(f, m)}
           g == Gathered(seqs)
<1>1. N \in Nat \ {0} /\ \A i \in 1 .. N : seqs[i] \in Seq(S)
  BY LenProperties, EmptySeq, ElementOfSeq
<1>2. 1 \in P
  <2>1. Gathers([i \in 1 .. 1 |-> seqs[1]], 1)
    OBVIOUS
  <2>2. 1 \in 1 .. N
    BY <1>1
  <2> HIDE DEF Gathers, N
  <2> QED BY <2>1, <2>2
<1>3. ASSUME NEW m \in P, m + 1 \in 1 .. N PROVE m + 1 \in P
  <2>1. PICK f : Gathers(f, m)
    OBVIOUS
  <2> DEFINE h == [i \in 1 .. m + 1 |-> IF i = m + 1 THEN f[m] \o seqs[m + 1] ELSE f[i]]
  <2>2. m \in 1 .. N /\ m \in Nat
    BY <1>1
  <2>3. \A i \in 1 .. m : f[i] = IF i = 1 THEN seqs[i] ELSE f[i - 1] \o seqs[i]
    BY <2>1
  <2>4. /\ h[m + 1] = f[m] \o seqs[m + 1] /\ \A i \in 1 .. m : h[i] = f[i]
        /\ DOMAIN h = 1 .. m + 1
    <3>1. m + 1 \in 1 .. m + 1 /\ \A i \in 1 .. m : i \in 1 .. m + 1 /\ i # m + 1
      BY <2>2
    <3> QED BY <3>1
  <2>5. \A i \in 1 .. m + 1 : h[i] = IF i = 1 THEN seqs[i] ELSE h[i - 1] \o seqs[i]
    <3> HIDE DEF h
    <3> TAKE i \in 1 .. m + 1
    <3>1. CASE i = m + 1
      <4>1. i # 1 /\ i - 1 = m /\ m \in 1 .. m
        BY <2>2, <3>1
      <4> QED BY <2>4, <3>1, <4>1
    <3>2. CASE i \in 1 .. m
      <4>1. h[i] = f[i] /\ (i # 1 => i - 1 \in 1 .. m /\ h[i - 1] = f[i - 1])
        BY <2>2, <2>4, <3>2
      <4> QED BY <2>3, <3>2, <4>1
    <3> QED BY <2>2, <3>1, <3>2
  <2>6. Gathers(h, m + 1)
    <3>1. h = [i \in 1 .. m + 1 |-> h[i]]
      OBVIOUS
    <3> HIDE DEF h
    <3> QED BY <2>5, <3>1
  <2> QED BY <1>3, <2>6
<1>4. P = 1 .. N
  <2>1. P \in SUBSET (1 .. N)
    OBVIOUS
  <2> HIDE DEF P, N
  <2> QED BY <1>1, <1>2, <1>3, <2>1, AllPositions
<1>5. Gathers(g, N)
  <2>1. N \in 1 .. N
    BY <1>1
  <2>2. \E f : Gathers(f, N)
    BY <1>4, <2>1
  <2> QED BY <2>2 DEF Gathered
<1>6. \A i \in 1 .. N : g[i] = IF i = 1 THEN seqs[i] ELSE g[i - 1] \o seqs[i]
  <2> HIDE DEF g
  <2> QED BY <1>5
<1>7. g[1] = seqs[1] /\ \A i \in 1 .. N : i + 1 \in 1 .. N => g[i + 1] = g[i] \o seqs[i + 1]
  <2> HIDE DEF g
  <2>1. \A i \in 1 .. N : i + 1 # 1 /\ (i + 1) - 1 = i
    OBVIOUS
  <2>2. 1 \in 1 .. N
    BY <1>1
  <2> HIDE DEF N
  <2> QED BY <1>6, <2>1, <2>2
<1>8. \A i \in 1 .. N : g[i] \in Seq(S)
  <2> DEFINE Q == {i \in 1 .. N : g[i] \in Seq(S)}
  <2>1. 1 \in Q
    BY <1>1, <1>7
  <2>2. ASSUME NEW i \in Q, i + 1 \in 1 .. N PROVE i + 1 \in Q
    <3>1. g[i] \in Seq(S) /\ seqs[i + 1] \in Seq(S) /\ g[i + 1] = g[i] \o seqs[i + 1]
      BY <1>1, <1>7, <2>2
    <3> HIDE DEF g
    <3>2. g[i + 1] \in Seq(S)
      BY <3>1, ConcatProperties
    <3> QED BY <2>2, <3>2
  <2>3. Q \in SUBSET (1 .. N)
    OBVIOUS
  <2>4. Q = 1 .. N
    <3> HIDE DEF Q, N
    <3> QED BY <1>1, <2>1, <2>2, <2>3, AllPositions
  <2> QED BY <2>4
<1>9. FlattenSeq(seqs) = g[N]
  BY <1>1 DEF FlattenSeq, Gathered
<1> QED BY <1>1, <1>7, <1>8, <1>9

LEMMA FlattenType ==
  ASSUME NEW S, NEW seqs \in Seq(Seq(S))
  PROVE  FlattenSeq(seqs) \in Seq(S) /\ (seqs = << >> => FlattenSeq(seqs) = << >>)
<1>1. CASE seqs = << >>
  <2>1. Len(seqs) = 0
    BY <1>1
  <2>2. FlattenSeq(seqs) = << >>
    BY <1>1, <2>1 DEF FlattenSeq
  <2>3. << >> \in Seq(S)
    OBVIOUS
  <2> QED BY <2>2, <2>3
<1>2. CASE seqs # << >>
  <2> DEFINE N == Len(seqs)
             g == Gathered(seqs)
  <2>1. N \in Nat \ {0} /\ FlattenSeq(seqs) = g[N] /\ \A i \in 1 .. N : g[i] \in Seq(S)
    BY <1>2, GatheredProperties
  <2> HIDE DEF N, g
  <2>2. N \in 1 .. N
    BY <2>1
  <2> QED BY <1>2, <2>1, <2>2
<1> QED BY <1>1, <1>2

\* What is gathered up to n begins all that is gathered up to a later position.
LEMMA GatheredPrefix ==
  ASSUME NEW S, NEW seqs \in Seq(Seq(S)), seqs # << >>,
         NEW n \in 1 .. Len(seqs)
  PROVE  \A i \in 1 .. Len(seqs) : i >= n =>
           /\ Len(Gathered(seqs)[n]) <= Len(Gathered(seqs)[i])
           /\ \A j \in 1 .. Len(Gathered(seqs)[n]) :
                Gathered(seqs)[i][j] = Gathered(seqs)[n][j]
<1> DEFINE N == Len(seqs)
           g == Gathered(seqs)
           Begins(i) == /\ Len(g[n]) <= Len(g[i])
                        /\ \A j \in 1 .. Len(g[n]) : g[i][j] = g[n][j]
           P == {i \in 1 .. N : i >= n => Begins(i)}
<1>1. /\ N \in Nat \ {0} /\ \A i \in 1 .. N : g[i] \in Seq(S)
      /\ \A i \in 1 .. N : i + 1 \in 1 .. N => g[i + 1] = g[i] \o seqs[i + 1]
  BY GatheredProperties
<1>2. \A i \in 1 .. N : seqs[i] \in Seq(S)
  BY ElementOfSeq
<1>3. n \in 1 .. N
  OBVIOUS
<1> HIDE DEF g, N
<1>4. Begins(n)
  <2>1. Len(g[n]) \in Nat
    BY <1>1, <1>3, LenProperties
  <2> QED BY <2>1
<1>5. 1 \in P
  <2>1. 1 \in 1 .. N /\ (1 >= n => n = 1)
    BY <1>1, <1>3
  <2> HIDE DEF Begins
  <2> QED BY <1>4, <2>1
<1>6. ASSUME NEW i \in P, i + 1 \in 1 .. N PROVE i + 1 \in P
  <2>1. i \in 1 .. N
    OBVIOUS
  <2>2. CASE i >= n
    <3>1. Begins(i)
      BY <2>2
    <3>2. /\ g[i] \in Seq(S) /\ seqs[i + 1] \in Seq(S) /\ g[n] \in Seq(S)
          /\ g[i + 1] = g[i] \o seqs[i + 1]
      BY <1>1, <1>2, <1>3, <1>6, <2>1
    <3>3. /\ Len(g[i]) \in Nat /\ Len(g[n]) \in Nat /\ Len(seqs[i + 1]) \in Nat
      BY <3>2, LenProperties
    <3>4. /\ Len(g[i + 1]) = Len(g[i]) + Len(seqs[i + 1])
          /\ \A j \in 1 .. Len(g[i]) : g[i + 1][j] = g[i][j]
      <4> DEFINE a == g[i]
                 b == seqs[i + 1]
      <4>1. a \in Seq(S) /\ b \in Seq(S) /\ g[i + 1] = a \o b
        BY <3>2
      <4> HIDE DEF a, b
      <4>2. Len(a \o b) = Len(a) + Len(b) /\ \A j \in 1 .. Len(a) : (a \o b)[j] = a[j]
        BY <4>1, ConcatProperties, LenProperties
      <4> QED BY <4>1, <4>2 DEF a, b
    <3>5. Begins(i + 1)
      <4>1. Len(g[n]) <= Len(g[i]) /\ \A j \in 1 .. Len(g[n]) : g[i][j] = g[n][j]
        BY <3>1
      <4>2. \A j \in 1 .. Len(g[n]) : j \in 1 .. Len(g[i])
        BY <3>3, <4>1
      <4>3. Len(g[n]) <= Len(g[i + 1])
        <5>1. \A x, y, z \in Nat : x <= y => x <= y + z
          OBVIOUS
        <5>2. Len(g[n]) <= Len(g[i]) + Len(seqs[i + 1])
          BY <3>3, <4>1, <5>1, Zenon
        <5> QED BY <3>4, <5>2, Zenon
      <4>4. \A j \in 1 .. Len(g[n]) : g[i + 1][j] = g[n][j]
        BY <3>4, <4>1, <4>2
      <4> QED BY <4>3, <4>4
    <3> HIDE DEF Begins
    <3> QED BY <1>6, <3>5
  <2>3. CASE ~ (i >= n)
    <3>1. i + 1 >= n => i + 1 = n
      BY <1>3, <2>1, <2>3
    <3> HIDE DEF Begins
    <3> QED BY <1>4, <1>6, <3>1
  <2> QED BY <2>2, <2>3
<1>7. P = 1 .. N
  <2>1. P \in SUBSET (1 .. N)
    OBVIOUS
  <2> HIDE DEF P
  <2> QED BY <1>1, <1>5, <1>6, <2>1, AllPositions
<1>8. \A i \in 1 .. N : i >= n => Begins(i)
  BY <1>7
<1> QED BY <1>8 DEF g, N

\* A list is found in the flattened lists after the lists before it.
LEMMA FlattenSlice ==
  ASSUME NEW S, NEW seqs \in Seq(Seq(S)), NEW n \in 1 .. Len(seqs)
  PROVE  LET all    == FlattenSeq(seqs)
             before == Len(FlattenSeq(SubSeq(seqs, 1, n - 1)))
         IN  /\ all \in Seq(S) /\ before \in Nat
             /\ before + Len(seqs[n]) <= Len(all)
             /\ \A j \in 1 .. Len(seqs[n]) : all[before + j] = seqs[n][j]
<1> DEFINE N == Len(seqs)
           g == Gathered(seqs)
           all == FlattenSeq(seqs)
           before == Len(FlattenSeq(SubSeq(seqs, 1, n - 1)))
<1>1. N \in Nat /\ n \in 1 .. N /\ n \in Nat /\ N \in 1 .. N /\ N >= n /\ seqs # << >>
  BY LenProperties, EmptySeq
<1>2. /\ all = g[N] /\ g[1] = seqs[1] /\ \A i \in 1 .. N : g[i] \in Seq(S)
      /\ \A i \in 1 .. N : i + 1 \in 1 .. N => g[i + 1] = g[i] \o seqs[i + 1]
  BY <1>1, GatheredProperties
<1>3. Len(g[n]) <= Len(all) /\ \A j \in 1 .. Len(g[n]) : all[j] = g[n][j]
  <2>1. \A i \in 1 .. N : i >= n =>
          Len(g[n]) <= Len(g[i]) /\ \A j \in 1 .. Len(g[n]) : g[i][j] = g[n][j]
    BY <1>1, GatheredPrefix
  <2> HIDE DEF g, N, all
  <2> QED BY <1>1, <1>2, <2>1
<1>4. \A i \in 1 .. N : seqs[i] \in Seq(S) /\ Len(seqs[i]) \in Nat
  BY ElementOfSeq, LenProperties
<1>5. /\ before \in Nat
      /\ Len(g[n]) = before + Len(seqs[n])
      /\ \A j \in 1 .. Len(seqs[n]) : g[n][before + j] = seqs[n][j]
  <2>1. CASE n = 1
    <3>1. SubSeq(seqs, 1, n - 1) = << >>
      BY <2>1
    <3>2. before = 0
      <4>1. Len(<< >>) = 0
        OBVIOUS
      <4>2. FlattenSeq(<< >>) = << >>
        BY <4>1 DEF FlattenSeq
      <4> QED BY <3>1, <4>1, <4>2
    <3> HIDE DEF g, before, N
    <3> QED BY <1>1, <1>2, <1>4, <2>1, <3>2
  <2>2. CASE n # 1
    <3> DEFINE some == SubSeq(seqs, 1, n - 1)
               h == Gathered(some)
    <3>1. n - 1 \in 1 .. N /\ n - 1 \in Nat /\ (n - 1) + 1 = n
      BY <1>1, <2>2
    <3>2. /\ some \in Seq(Seq(S)) /\ Len(some) = n - 1
          /\ \A i \in 1 .. n - 1 : some[i] = seqs[i]
      BY <1>1, <3>1
    <3> HIDE DEF some
    <3>3. some # << >>
      BY <3>1, <3>2, EmptySeq
    <3>4. /\ FlattenSeq(some) = h[n - 1] /\ h[1] = some[1]
          /\ \A i \in 1 .. n - 1 : i + 1 \in 1 .. n - 1 => h[i + 1] = h[i] \o some[i + 1]
      BY <3>2, <3>3, GatheredProperties
    <3> HIDE DEF h, g, N
    <3> DEFINE P == {i \in 1 .. n - 1 : h[i] = g[i]}
    <3>5. 1 \in P
      <4>1. 1 \in 1 .. n - 1
        BY <3>1
      <4> QED BY <1>2, <3>2, <3>4, <4>1
    <3>6. ASSUME NEW i \in P, i + 1 \in 1 .. n - 1 PROVE i + 1 \in P
      <4>1. i \in 1 .. n - 1 /\ i \in 1 .. N /\ i + 1 \in 1 .. N
        BY <1>1, <3>1, <3>6
      <4>2. h[i + 1] = h[i] \o some[i + 1] /\ g[i + 1] = g[i] \o seqs[i + 1]
        BY <1>2, <3>4, <3>6, <4>1
      <4>3. h[i] = g[i] /\ some[i + 1] = seqs[i + 1]
        BY <3>2, <3>6
      <4> QED BY <3>6, <4>2, <4>3
    <3>7. P = 1 .. n - 1
      <4>1. P \in SUBSET (1 .. n - 1)
        OBVIOUS
      <4> HIDE DEF P
      <4> QED BY <3>1, <3>5, <3>6, <4>1, AllPositions
    <3>8. h[n - 1] = g[n - 1]
      <4>1. n - 1 \in 1 .. n - 1
        BY <3>1
      <4> QED BY <3>7, <4>1
    <3> DEFINE a == g[n - 1]
               b == seqs[n]
    <3>9. a \in Seq(S) /\ b \in Seq(S) /\ g[n] = a \o b /\ before = Len(a)
      <4>1. g[(n - 1) + 1] = g[n - 1] \o seqs[(n - 1) + 1]
        BY <1>1, <1>2, <3>1
      <4>2. FlattenSeq(SubSeq(seqs, 1, n - 1)) = g[n - 1]
        BY <3>4, <3>8 DEF some
      <4> QED BY <1>1, <1>2, <1>4, <3>1, <4>1, <4>2
    <3> HIDE DEF a, before
    <3>10. Len(a) \in Nat /\ Len(b) \in Nat /\ b \in Seq(S)
      BY <3>9, LenProperties
    <3> HIDE DEF b
    <3>11. Len(a \o b) = Len(a) + Len(b)
           /\ \A j \in 1 .. Len(b) : (a \o b)[Len(a) + j] = b[j]
      BY <3>9, <3>10
    <3> QED BY <3>9, <3>10, <3>11 DEF b
  <2> QED BY <2>1, <2>2
<1>6. all \in Seq(S)
  BY FlattenType
<1> HIDE DEF g, all, before, N
<1>7. \A j \in 1 .. Len(seqs[n]) : before + j \in 1 .. Len(g[n])
  BY <1>1, <1>4, <1>5
<1> QED BY <1>1, <1>3, <1>5, <1>6, <1>7 DEF all, before

LEMMA KeysOfType ==
  ASSUME NEW entries \in Seq(Calls), NEW cs, \A r \in Calls : cs[r].keys \in Seq(Keys)
  PROVE  KeysOf(entries, cs) \in Seq(Keys) /\ (entries = << >> => KeysOf(entries, cs) = << >>)
<1> DEFINE lists == [n \in DOMAIN entries |-> cs[entries[n]].keys]
<1>1. \A n \in DOMAIN entries : entries[n] \in Calls
  BY ElementOfSeq
<1>2. Len(entries) \in Nat /\ DOMAIN entries = 1 .. Len(entries)
  BY LenProperties
<1>3. lists \in Seq(Seq(Keys)) /\ Len(lists) = Len(entries)
  BY <1>1, <1>2
<1>4. entries = << >> => lists = << >>
  <2>1. SUFFICES ASSUME entries = << >> PROVE lists = << >>
    OBVIOUS
  <2>2. Len(entries) = 0
    BY <2>1
  <2> HIDE DEF lists
  <2> QED BY <1>3, <2>2, EmptySeq
<1> HIDE DEF lists
<1>5. FlattenSeq(lists) \in Seq(Keys) /\ (lists = << >> => FlattenSeq(lists) = << >>)
  BY <1>3, FlattenType
<1> QED BY <1>4, <1>5 DEF KeysOf, lists

\* Each entry of a consume call is resolved with the answers to its own keys.
LEMMA SliceIsKeys ==
  ASSUME CollectorTypeOK, NEW entries \in Seq(Calls), NEW n \in DOMAIN entries
  PROVE  Slice(entries, n, KeysOf(entries, call)) = call[entries[n]].keys
<1> DEFINE lists == [i \in DOMAIN entries |-> call[entries[i]].keys]
           some  == SubSeq(entries, 1, n - 1)
           fewer == [i \in DOMAIN some |-> call[some[i]].keys]
           all   == FlattenSeq(lists)
           before == Len(FlattenSeq(SubSeq(lists, 1, n - 1)))
<1>1. /\ \A i \in DOMAIN entries : entries[i] \in Calls
      /\ \A r \in Calls : call[r].keys \in Seq(Keys)
  BY ElementOfSeq DEF CollectorTypeOK
<1>2. Len(entries) \in Nat /\ DOMAIN entries = 1 .. Len(entries)
      /\ n \in Nat /\ n - 1 \in Nat /\ n - 1 <= Len(entries)
  BY LenProperties
<1>3. lists \in Seq(Seq(Keys)) /\ Len(lists) = Len(entries) /\ lists[n] = call[entries[n]].keys
  BY <1>1, <1>2
<1>4. fewer = SubSeq(lists, 1, n - 1)
  <2>1. /\ some \in Seq(Calls) /\ Len(some) = n - 1
        /\ \A i \in 1 .. n - 1 : some[i] = entries[i] /\ i \in DOMAIN entries
    BY <1>2
  <2>2. \A i \in 1 .. n - 1 : lists[i] = call[entries[i]].keys
    BY <2>1
  <2>3. SubSeq(lists, 1, n - 1) = [i \in 1 .. n - 1 |-> lists[i]]
    <3> HIDE DEF lists
    <3> QED BY <1>2, <1>3
  <2> HIDE DEF some, lists
  <2>4. DOMAIN some = 1 .. n - 1
    BY <2>1, LenProperties
  <2> QED BY <2>1, <2>2, <2>3, <2>4
<1> HIDE DEF lists, fewer, all, before
<1>5. /\ all \in Seq(Keys) /\ before \in Nat
      /\ before + Len(lists[n]) <= Len(all)
      /\ \A j \in 1 .. Len(lists[n]) : all[before + j] = lists[n][j]
  <2>1. n \in 1 .. Len(lists)
    BY <1>2, <1>3
  <2>2. /\ FlattenSeq(lists) \in Seq(Keys)
        /\ Len(FlattenSeq(SubSeq(lists, 1, n - 1))) \in Nat
        /\ Len(FlattenSeq(SubSeq(lists, 1, n - 1))) + Len(lists[n]) <= Len(FlattenSeq(lists))
        /\ \A j \in 1 .. Len(lists[n]) :
             FlattenSeq(lists)[Len(FlattenSeq(SubSeq(lists, 1, n - 1))) + j] = lists[n][j]
    BY <1>3, <2>1, FlattenSlice, Zenon
  <2> QED BY <2>2, Zenon DEF all, before
<1> DEFINE keys == lists[n]
<1>6. keys \in Seq(Keys) /\ Len(keys) \in Nat
  BY <1>1, <1>2, <1>3, LenProperties
<1>7. Slice(entries, n, KeysOf(entries, call)) = SubSeq(all, before + 1, before + Len(keys))
  BY <1>3, <1>4 DEF Slice, KeysOf, lists, fewer, all, before
<1> HIDE DEF keys
<1>8. SubSeq(all, before + 1, before + Len(keys)) = keys
  <2> DEFINE part == SubSeq(all, before + 1, before + Len(keys))
  <2>1. /\ part \in Seq(Keys) /\ Len(part) = Len(keys)
        /\ \A j \in 1 .. Len(keys) : part[j] = all[before + j]
    BY <1>5, <1>6 DEF keys
  <2>2. \A j \in 1 .. Len(keys) : part[j] = keys[j]
    BY <1>5, <2>1 DEF keys
  <2> HIDE DEF part
  <2>3. part = keys
    BY <1>6, <2>1, <2>2, SeqEqual
  <2> QED BY <2>3 DEF part
<1> QED BY <1>3, <1>7, <1>8 DEF keys

-----------------------------------------------------------------------------
(* RequestCollector: the parts of its steps.                               *)

\* The fields of the state, one by one.
LEMMA CollectorTypes ==
  ASSUME CollectorTypeOK
  PROVE  /\ \A r \in Calls :
              /\ call[r].state \in CallStates /\ call[r].keys \in Seq(Keys)
              /\ call[r].results \in Seq(Keys) /\ call[r].flush \in Consumes \cup {None}
         /\ \A s \in Consumes : consume[s].entries \in Seq(Calls)
         /\ \A c \in Callers :
              /\ caller[c].keys \in Seq(Keys) /\ caller[c].via \in Seq([call : Calls, index : Nat])
              /\ caller[c].own \in Calls \cup {None}
              /\ \A n \in DOMAIN caller[c].via :
                   caller[c].via[n].call \in Calls /\ caller[c].via[n].index \in Nat
         /\ \A k \in Keys : pending[k] # None =>
              pending[k].call \in Calls /\ pending[k].index \in Nat
<1>1. \A c \in Callers : caller[c].via \in Seq([call : Calls, index : Nat])
  BY DEF CollectorTypeOK
<1>2. \A c \in Callers : \A n \in DOMAIN caller[c].via :
        caller[c].via[n].call \in Calls /\ caller[c].via[n].index \in Nat
  <2> TAKE c \in Callers
  <2>1. \A n \in DOMAIN caller[c].via : caller[c].via[n] \in [call : Calls, index : Nat]
    <3> DEFINE R == [call : Calls, index : Nat]
    <3> HIDE DEF R
    <3>1. \A v \in Seq(R) : \A n \in DOMAIN v : v[n] \in R
      OBVIOUS
    <3> QED BY <1>1, <3>1, Zenon DEF R
  <2> QED BY <2>1
<1>3. \A k \in Keys : pending[k] # None =>
        pending[k].call \in Calls /\ pending[k].index \in Nat
  BY DEF CollectorTypeOK
<1> QED BY <1>1, <1>2, <1>3 DEF CollectorTypeOK

\* The keys that are left to register: those asked for that are not pending.
LEMMA RemainingProperties ==
  ASSUME CollectorTypeOK, NEW keys \in KeyLists
  PROVE  /\ keys \in Seq(Keys)
         /\ Remaining(keys) \in Seq(Keys)
         /\ \A n \in DOMAIN Remaining(keys) :
              /\ pending[Remaining(keys)[n]] = None
              /\ \E i \in DOMAIN keys : keys[i] = Remaining(keys)[n]
         /\ \A i \in DOMAIN keys : pending[keys[i]] = None =>
              \E n \in DOMAIN Remaining(keys) : Remaining(keys)[n] = keys[i]
<1> DEFINE K == {n \in DOMAIN keys : pending[keys[n]] = None}
<1>1. keys \in Seq(Keys)
  BY BoundsAssumption
<1>2. K \in SUBSET DOMAIN keys
  OBVIOUS
<1>3. Remaining(keys) = Keep(keys, K)
  BY DEF Remaining
<1> HIDE DEF K
<1>4. /\ Keep(keys, K) \in Seq(Keys)
      /\ \A n \in DOMAIN Keep(keys, K) : \E i \in K :
           Rank(K, i) = n /\ Keep(keys, K)[n] = keys[i]
      /\ \A i \in K : Rank(K, i) \in DOMAIN Keep(keys, K) /\ Keep(keys, K)[Rank(K, i)] = keys[i]
  BY <1>1, <1>2, KeepProperties
<1>5. /\ \A i \in K : i \in DOMAIN keys /\ pending[keys[i]] = None
      /\ \A i \in DOMAIN keys : pending[keys[i]] = None => i \in K
  BY DEF K
<1>6. \A n \in DOMAIN Remaining(keys) :
        pending[Remaining(keys)[n]] = None /\ \E i \in DOMAIN keys : keys[i] = Remaining(keys)[n]
  <2> TAKE n \in DOMAIN Remaining(keys)
  <2>1. PICK i \in K : Keep(keys, K)[n] = keys[i]
    BY <1>3, <1>4
  <2>2. i \in DOMAIN keys /\ pending[keys[i]] = None /\ Remaining(keys)[n] = keys[i]
    BY <1>3, <1>5, <2>1
  <2> QED BY <2>2
<1>7. \A i \in DOMAIN keys : pending[keys[i]] = None =>
        \E n \in DOMAIN Remaining(keys) : Remaining(keys)[n] = keys[i]
  BY <1>3, <1>4, <1>5, Zenon
<1> QED BY <1>1, <1>3, <1>4, <1>6, <1>7

LEMMA PendingWithProperties ==
  ASSUME CollectorTypeOK, NEW rest \in Seq(Keys), NEW r \in Calls
  PROVE  /\ PendingWith(rest, r) \in [Keys -> {None} \cup [call : Calls, index : Nat]]
         /\ \A k \in Keys :
              IF \E n \in DOMAIN rest : rest[n] = k
              THEN /\ PendingWith(rest, r)[k] # None
                   /\ PendingWith(rest, r)[k].call = r
                   /\ PendingWith(rest, r)[k].index \in DOMAIN rest
                   /\ rest[PendingWith(rest, r)[k].index] = k
              ELSE PendingWith(rest, r)[k] = pending[k]
<1> DEFINE LastOf(k) == CHOOSE n \in DOMAIN rest :
                        rest[n] = k /\ \A m \in DOMAIN rest : rest[m] = k => m <= n
           Value(k) == IF \E n \in DOMAIN rest : rest[n] = k
                       THEN [call |-> r, index |-> LastOf(k)] ELSE pending[k]
<1>1. PendingWith(rest, r) = [k \in Keys |-> Value(k)]
  BY DEF PendingWith
<1>2. Len(rest) \in Nat /\ DOMAIN rest = 1 .. Len(rest)
  BY LenProperties
<1>3. ASSUME NEW k \in Keys, \E n \in DOMAIN rest : rest[n] = k
      PROVE  LastOf(k) \in DOMAIN rest /\ rest[LastOf(k)] = k
  <2> DEFINE D == {n \in DOMAIN rest : rest[n] = k}
             v == [n \in D |-> n]
  <2>1. IsFiniteSet(D) /\ D # {} /\ v \in [D -> Nat]
    <3>1. IsFiniteSet(DOMAIN rest)
      BY <1>2, FS_Interval
    <3> QED BY <1>2, <1>3, <3>1, FS_Subset
  <2> HIDE DEF v
  <2>2. \E d \in D : \A e \in D : v[e] <= v[d]
    <3> HIDE DEF D
    <3> QED BY <2>1, GreatestValue
  <2>3. \E n \in DOMAIN rest : rest[n] = k /\ \A m \in DOMAIN rest : rest[m] = k => m <= n
    BY <2>2 DEF v
  <2> QED BY <2>3
<1> HIDE DEF LastOf
<1>4. \A i \in Nat : /\ [call |-> r, index |-> i] # None
                     /\ [call |-> r, index |-> i] \in [call : Calls, index : Nat]
  BY BoundsAssumption
<1>5. ASSUME NEW k \in Keys
      PROVE  /\ Value(k) \in {None} \cup [call : Calls, index : Nat]
             /\ IF \E n \in DOMAIN rest : rest[n] = k
                THEN /\ Value(k) # None /\ Value(k).call = r
                     /\ Value(k).index \in DOMAIN rest /\ rest[Value(k).index] = k
                ELSE Value(k) = pending[k]
  <2>1. CASE \E n \in DOMAIN rest : rest[n] = k
    <3>1. LastOf(k) \in DOMAIN rest /\ rest[LastOf(k)] = k /\ LastOf(k) \in Nat
      BY <1>2, <1>3, <2>1
    <3>2. Value(k) = [call |-> r, index |-> LastOf(k)]
      BY <2>1
    <3> HIDE DEF Value
    <3> QED BY <1>4, <2>1, <3>1, <3>2
  <2>2. CASE ~ \E n \in DOMAIN rest : rest[n] = k
    BY <2>2 DEF CollectorTypeOK
  <2> QED BY <2>1, <2>2
<1> HIDE DEF Value
<1>6. \A k \in Keys : PendingWith(rest, r)[k] = Value(k)
  BY <1>1
<1> QED BY <1>1, <1>5, <1>6

\* The numbers that are given out are free ones.
LEMMA NextFree ==
  /\ FreeCalls # {} => NextCall \in Calls /\ call[NextCall].state = "free"
  /\ FreeConsumes # {} => NextConsume \in Consumes /\ consume[NextConsume] = NoConsume
<1>1. FreeCalls \in SUBSET Nat /\ FreeConsumes \in SUBSET Nat
  BY BoundsAssumption DEF FreeCalls, FreeConsumes
<1>2. FreeCalls # {} => NextCall \in FreeCalls
  BY <1>1, LeastNatural DEF NextCall
<1>3. FreeConsumes # {} => NextConsume \in FreeConsumes
  BY <1>1, LeastNatural DEF NextConsume
<1> QED BY <1>2, <1>3 DEF FreeCalls, FreeConsumes

CallRecord == [state : CallStates, keys : Seq(Keys), results : Seq(Keys),
               flush : Consumes \cup {None}]
ConsumeRecord == [entries : Seq(Calls), chunks : Seq({"batch", "singles", "done"})]
CallerRecord == [keys : Seq(Keys), via : Seq([call : Calls, index : Nat]),
                 own : Calls \cup {None}]

LEMMA NewRecords ==
  /\ FreeCall \in CallRecord
  /\ NoConsume \in ConsumeRecord
  /\ IdleCaller \in CallerRecord
  /\ \A rest \in Seq(Keys) :
       /\ NewCall("waiting", rest, None) \in CallRecord
       /\ \A s \in Consumes : NewCall("draining", rest, s) \in CallRecord
<1>1. << >> \in Seq(Keys) /\ << >> \in Seq(Calls) /\ << >> \in Seq([call : Calls, index : Nat])
      /\ << >> \in Seq({"batch", "singles", "done"})
  OBVIOUS
<1>2. "free" \in CallStates /\ "waiting" \in CallStates /\ "draining" \in CallStates
  BY DEF CallStates
<1>3. FreeCall \in CallRecord
  BY <1>1, <1>2 DEF FreeCall, CallRecord
<1>4. NoConsume \in ConsumeRecord
  BY <1>1 DEF NoConsume, ConsumeRecord
<1>5. IdleCaller \in CallerRecord
  BY <1>1 DEF IdleCaller, CallerRecord
<1>6. ASSUME NEW rest \in Seq(Keys)
      PROVE  /\ NewCall("waiting", rest, None) \in CallRecord
             /\ \A s \in Consumes : NewCall("draining", rest, s) \in CallRecord
  BY <1>1, <1>2 DEF NewCall, CallRecord
<1> QED BY <1>3, <1>4, <1>5, <1>6

LEMMA RangeOfEntries ==
  ASSUME NEW entries \in Seq(Calls)
  PROVE  /\ Range(entries) \in SUBSET Calls
         /\ \A r : r \in Range(entries) <=> \E n \in DOMAIN entries : entries[n] = r
<1>1. \A n \in DOMAIN entries : entries[n] \in Calls
  BY ElementOfSeq
<1> QED BY <1>1 DEF Range

\* Only the states of the calls rs change.
LEMMA WithStateEffect ==
  ASSUME NEW cs \in [Calls -> CallRecord], NEW rs \in SUBSET Calls, NEW state \in CallStates
  PROVE  /\ WithState(cs, rs, state) \in [Calls -> CallRecord]
         /\ \A r \in Calls :
              /\ WithState(cs, rs, state)[r].keys = cs[r].keys
              /\ WithState(cs, rs, state)[r].results = cs[r].results
              /\ WithState(cs, rs, state)[r].state = IF r \in rs THEN state ELSE cs[r].state
<1> DEFINE w(r) == IF r \in rs THEN [cs[r] EXCEPT !.state = state] ELSE cs[r]
<1>1. WithState(cs, rs, state) = [r \in Calls |-> w(r)]
  BY DEF WithState
<1>2. ASSUME NEW r \in Calls
      PROVE  /\ w(r) \in CallRecord /\ w(r).keys = cs[r].keys /\ w(r).results = cs[r].results
             /\ w(r).state = IF r \in rs THEN state ELSE cs[r].state
  <2>1. cs[r] \in CallRecord
    OBVIOUS
  <2> QED BY <2>1 DEF CallRecord
<1> HIDE DEF w
<1> QED BY <1>1, <1>2

\* What nobody can reach any more is free again; nothing else changes.
LEMMA SweptEffect ==
  ASSUME NEW cs \in [Calls -> CallRecord], NEW callers, NEW pend
  PROVE  /\ Swept(cs, callers, pend) \in [Calls -> CallRecord]
         /\ \A r \in Calls :
              \/ Swept(cs, callers, pend)[r] = cs[r]
              \/ /\ Swept(cs, callers, pend)[r] = FreeCall
                 /\ Garbage(r, cs, callers, pend)
<1>1. \A r \in Calls : Swept(cs, callers, pend)[r] =
        IF Garbage(r, cs, callers, pend) THEN FreeCall ELSE cs[r]
  BY DEF Swept
<1>2. FreeCall \in CallRecord
  BY NewRecords
<1>3. Swept(cs, callers, pend) \in [Calls -> CallRecord]
  BY <1>2 DEF Swept
<1> QED BY <1>1, <1>3

\* A consume call takes the entries that wait.
LEMMA ConsumedEffect ==
  ASSUME CollectorTypeOK, NEW s \in Consumes
  PROVE  /\ Consumed(s, call) \in [Consumes -> ConsumeRecord]
         /\ \A t \in Consumes :
              Consumed(s, call)[t].entries = IF t = s THEN waitingEntries ELSE consume[t].entries
<1> DEFINE keys == KeysOf(waitingEntries, call)
           chunks == [n \in 1 .. ChunkCount(keys) |-> ChunkStart(keys, n)]
           new == [entries |-> waitingEntries, chunks |-> chunks]
<1>1. keys \in Seq(Keys)
  BY KeysOfType, CollectorTypes DEF CollectorTypeOK
<1> HIDE DEF keys
<1>2. ChunkCount(keys) \in Nat
  <2>1. Len(keys) \in Nat /\ MaxBatchSize \in Nat \ {0}
    BY <1>1, BoundsAssumption
  <2>2. \A a \in Nat, b \in Nat \ {0} : (a + b - 1) \div b \in Nat
    OBVIOUS
  <2> QED BY <2>1, <2>2 DEF ChunkCount
<1>3. \A n : ChunkStart(keys, n) \in {"batch", "singles", "done"}
  BY DEF ChunkStart
<1>4. chunks \in Seq({"batch", "singles", "done"})
  BY <1>2, <1>3
<1> HIDE DEF chunks
<1>5. new \in ConsumeRecord /\ new.entries = waitingEntries
  BY <1>4 DEF CollectorTypeOK, ConsumeRecord
<1> HIDE DEF new
<1>6. Consumed(s, call) = [consume EXCEPT ![s] = new]
  BY DEF Consumed, new, chunks, keys
<1>7. consume \in [Consumes -> ConsumeRecord]
  BY DEF CollectorTypeOK, ConsumeRecord
<1> QED BY <1>5, <1>6, <1>7

LEMMA ConsumeWithEffect ==
  ASSUME CollectorTypeOK, NEW s \in Consumes, NEW entries \in Seq(Calls),
         NEW cs \in Seq({"batch", "singles", "done"})
  PROVE  /\ ConsumeWith(s, entries, cs) \in [Consumes -> ConsumeRecord]
         /\ \A t \in Consumes :
              ConsumeWith(s, entries, cs)[t].entries = IF t = s THEN entries ELSE consume[t].entries
<1> DEFINE new == IF entries = << >> /\ ~(HasFetchSingle /\ "batch" \in Range(cs)) THEN NoConsume
                  ELSE [entries |-> entries, chunks |-> cs]
<1>1. ConsumeWith(s, entries, cs) = [consume EXCEPT ![s] = new]
  BY DEF ConsumeWith
<1>2. new \in ConsumeRecord /\ new.entries = entries
  BY NewRecords DEF ConsumeRecord, NoConsume
<1> HIDE DEF new
<1>3. consume \in [Consumes -> ConsumeRecord]
  BY DEF CollectorTypeOK, ConsumeRecord
<1> QED BY <1>1, <1>2, <1>3

-----------------------------------------------------------------------------
(* RequestCollector: the inductive invariant.                               *)

WaitingKnown ==
  \A n \in DOMAIN waitingEntries : call[waitingEntries[n]].state = "waiting"

ConsumedKnown ==
  \A s \in Consumes : \A n \in DOMAIN consume[s].entries :
    call[consume[s].entries[n]].state = "consumed"

\* No entry is in two consume calls.
EntriesApart ==
  \A s, t \in Consumes : s # t =>
    \A n \in DOMAIN consume[s].entries : \A m \in DOMAIN consume[t].entries :
      consume[s].entries[n] # consume[t].entries[m]

\* Nothing can refer to a free call: it has no key.
FreeCallsEmpty == \A r \in Calls : call[r].state = "free" => call[r].keys = << >>

ResultsMatch ==
  \A r \in Calls :
    call[r].state \in {"resolved", "fulfilled"} => call[r].results = call[r].keys

PendingPlaced ==
  \A k \in Keys : pending[k] # None =>
    /\ pending[k].index \in DOMAIN call[pending[k].call].keys
    /\ call[pending[k].call].keys[pending[k].index] = k

ViaPlaced ==
  \A c \in Callers : \A n \in DOMAIN caller[c].via :
    /\ caller[c].via[n].index \in DOMAIN call[caller[c].via[n].call].keys
    /\ call[caller[c].via[n].call].keys[caller[c].via[n].index] = caller[c].keys[n]

OwnsApart ==
  /\ \A c \in Callers : caller[c].own # None =>
       \E n \in DOMAIN caller[c].via : caller[c].via[n].call = caller[c].own
  /\ \A c, d \in Callers : c # d /\ caller[c].own # None => caller[c].own # caller[d].own

PendingOwned ==
  \A k \in Keys : pending[k] # None =>
    \E c \in Callers : caller[c].own = pending[k].call

\* The keys of a call in progress are pending, under that call, while its caller waits.
OwnKeysPending ==
  ~disposed =>
    \A c \in Callers :
      caller[c].own # None /\ call[caller[c].own].state \in Active =>
        \A n \in DOMAIN call[caller[c].own].keys :
          /\ pending[call[caller[c].own].keys[n]] # None
          /\ pending[call[caller[c].own].keys[n]].call = caller[c].own

ActiveCalls == {r \in Calls : call[r].state \in Active}
RunningConsumes == {s \in Consumes : Running(s)}

Counted ==
  /\ activeRegisterCalls = Cardinality(ActiveCalls)
  /\ activeConsumeCalls = Cardinality(RunningConsumes)

Batches == WaitingKnown /\ ConsumedKnown /\ EntriesApart /\ ResultsMatch
           /\ (timer <=> waitingEntries # << >>)
References == FreeCallsEmpty /\ PendingPlaced /\ ViaPlaced /\ OwnsApart /\ PendingOwned

CollectorInv == CollectorTypeOK /\ Batches /\ References /\ OwnKeysPending /\ Counted

LEMMA CollectorInvInit == CollectorInit => CollectorInv
<1> SUFFICES ASSUME CollectorInit PROVE CollectorInv
  OBVIOUS
<1>1. /\ \A k \in Keys : pending[k] = None
      /\ \A r \in Calls : call[r] = FreeCall
      /\ \A s \in Consumes : consume[s] = NoConsume
      /\ \A c \in Callers : caller[c] = IdleCaller
  BY DEF CollectorInit
<1>2. /\ \A r \in Calls : call[r].state = "free" /\ call[r].keys = << >>
      /\ \A s \in Consumes : consume[s].entries = << >>
      /\ \A c \in Callers : caller[c].via = << >> /\ caller[c].own = None
  BY <1>1 DEF FreeCall, NoConsume, IdleCaller
<1>3. CollectorTypeOK
  <2>1. call \in [Calls -> CallRecord] /\ consume \in [Consumes -> ConsumeRecord]
        /\ caller \in [Callers -> CallerRecord]
    BY NewRecords DEF CollectorInit
  <2>2. waitingEntries \in Seq(Calls)
    BY DEF CollectorInit
  <2> QED BY <2>1, <2>2 DEF CollectorInit, CollectorTypeOK, CallRecord, ConsumeRecord, CallerRecord
<1>4. \A e : e \in DOMAIN << >> => FALSE
  OBVIOUS
<1>5. Batches
  <2>1. WaitingKnown /\ (timer <=> waitingEntries # << >>)
    BY <1>4 DEF CollectorInit, WaitingKnown
  <2>2. ConsumedKnown /\ EntriesApart
    BY <1>2, <1>4 DEF ConsumedKnown, EntriesApart
  <2>3. ResultsMatch
    BY <1>2 DEF ResultsMatch
  <2> QED BY <2>1, <2>2, <2>3 DEF Batches
<1>6. References
  BY <1>1, <1>2, <1>4
  DEF References, FreeCallsEmpty, PendingPlaced, ViaPlaced, OwnsApart, PendingOwned
<1>7. OwnKeysPending
  BY <1>2 DEF OwnKeysPending
<1>8. Counted
  <2>1. ActiveCalls = {} /\ RunningConsumes = {}
    BY <1>2 DEF ActiveCalls, RunningConsumes, Running, Active
  <2>2. Cardinality({}) = 0
    BY FS_EmptySet
  <2> QED BY <2>1, <2>2 DEF Counted, CollectorInit
<1> QED BY <1>3, <1>5, <1>6, <1>7, <1>8 DEF CollectorInv

\* References survive a step that drops some of them and frees only calls that
\* nothing refers to any more.
LEMMA ReferencesKept ==
  ASSUME CollectorInv, CollectorTypeOK', FreeCallsEmpty',
         \A k \in Keys : pending'[k] # None =>
           /\ pending'[k] = pending[k]
           /\ call'[pending[k].call].keys = call[pending[k].call].keys
           /\ \E c \in Callers : caller[c].own = pending[k].call /\ caller'[c] = caller[c],
         \A c \in Callers :
           \/ caller'[c] = IdleCaller
           \/ /\ caller'[c] = caller[c]
              /\ \A n \in DOMAIN caller[c].via :
                   call'[caller[c].via[n].call].keys = call[caller[c].via[n].call].keys
  PROVE  References'
<1>1. PendingPlaced /\ ViaPlaced /\ OwnsApart /\ PendingOwned
  BY DEF CollectorInv, References
<1>2. IdleCaller.via = << >> /\ IdleCaller.own = None /\ \A e : e \in DOMAIN << >> => FALSE
  BY DEF IdleCaller
<1>3. PendingPlaced'
  BY <1>1 DEF PendingPlaced
<1>4. ViaPlaced'
  BY <1>1, <1>2 DEF ViaPlaced
<1>5. OwnsApart'
  BY <1>1, <1>2 DEF OwnsApart
<1>6. PendingOwned'
  BY <1>1 DEF PendingOwned
<1> QED BY <1>3, <1>4, <1>5, <1>6 DEF References

\* A consume call ends: its entries are settled, each resolved with its own keys'
\* answers, and calls that awaited the flush go on.
LEMMA SettledEffect ==
  ASSUME CollectorInv, NEW s \in Consumes, NEW success \in BOOLEAN
  PROVE  /\ Settled(s, success) \in [Calls -> CallRecord]
         /\ \A r \in Calls :
              LET was == call[r]
                  is  == Settled(s, success)[r]
              IN  /\ is.keys = was.keys
                  /\ \/ /\ r \in Range(consume[s].entries)
                        /\ is.state \in {"resolved", "rejected"}
                        /\ is.state = "resolved" => is.results = is.keys
                     \/ /\ r \notin Range(consume[s].entries)
                        /\ is.results = was.results
                        /\ \/ is.state = was.state
                           \/ was.state = "draining" /\ is.state = "drained"
<1> DEFINE entries == consume[s].entries
           all == KeysOf(entries, call)
           Position(r) == CHOOSE n \in DOMAIN entries : entries[n] = r
           settled(r) ==
             CASE r \in Range(entries) ->
                    IF success
                    THEN [call[r] EXCEPT !.state = "resolved",
                                         !.results = Slice(entries, Position(r), all)]
                    ELSE [call[r] EXCEPT !.state = "rejected"]
               [] call[r].state = "draining" /\ call[r].flush = s ->
                    [call[r] EXCEPT !.state = "drained", !.flush = None]
               [] OTHER -> call[r]
<1>1. Settled(s, success) = [r \in Calls |-> settled(r)]
  BY DEF Settled
<1>2. /\ CollectorTypeOK /\ entries \in Seq(Calls)
      /\ \A r \in Calls : call[r] \in CallRecord
      /\ ConsumedKnown
  BY CollectorTypes DEF CollectorInv, CollectorTypeOK, CallRecord, Batches
<1>3. ASSUME NEW r \in Calls, r \in Range(entries)
      PROVE  /\ call[r].state = "consumed"
             /\ Slice(entries, Position(r), all) = call[r].keys
  <2>1. \E n \in DOMAIN entries : entries[n] = r
    BY <1>2, <1>3, RangeOfEntries
  <2>2. Position(r) \in DOMAIN entries /\ entries[Position(r)] = r
    BY <2>1
  <2> HIDE DEF Position, entries
  <2>3. Slice(entries, Position(r), all) = call[r].keys
    BY <1>2, <2>2, SliceIsKeys
  <2>4. call[r].state = "consumed"
    BY <1>2, <2>2 DEF ConsumedKnown, entries
  <2> QED BY <2>3, <2>4
<1> HIDE DEF entries, all, Position
<1>4. ASSUME NEW r \in Calls
      PROVE  /\ settled(r) \in CallRecord
             /\ settled(r).keys = call[r].keys
             /\ \/ /\ r \in Range(entries)
                   /\ settled(r).state \in {"resolved", "rejected"}
                   /\ settled(r).state = "resolved" => settled(r).results = settled(r).keys
                \/ /\ r \notin Range(entries)
                   /\ settled(r).results = call[r].results
                   /\ \/ settled(r).state = call[r].state
                      \/ call[r].state = "draining" /\ settled(r).state = "drained"
  <2>1. call[r] \in CallRecord /\ call[r].keys \in Seq(Keys)
    BY <1>2 DEF CallRecord
  <2>2. {"resolved", "rejected", "drained"} \subseteq CallStates
    BY DEF CallStates
  <2>3. CASE r \in Range(entries) /\ success
    <3>1. settled(r) = [call[r] EXCEPT !.state = "resolved", !.results = call[r].keys]
      BY <1>3, <2>3
    <3> HIDE DEF settled
    <3> QED BY <2>1, <2>2, <2>3, <3>1 DEF CallRecord
  <2>4. CASE r \in Range(entries) /\ ~success
    <3>1. success = FALSE
      BY <2>4
    <3>2. settled(r) = IF success
                       THEN [call[r] EXCEPT !.state = "resolved",
                                            !.results = Slice(entries, Position(r), all)]
                       ELSE [call[r] EXCEPT !.state = "rejected"]
      BY <1>3, <2>4
    <3> HIDE DEF settled
    <3>3. settled(r) = [call[r] EXCEPT !.state = "rejected"]
      BY <3>1, <3>2
    <3> QED BY <2>1, <2>2, <2>4, <3>3 DEF CallRecord
  <2>5. CASE r \notin Range(entries) /\ call[r].state = "draining" /\ call[r].flush = s
    <3>1. settled(r) = [call[r] EXCEPT !.state = "drained", !.flush = None]
      BY <2>5
    <3> HIDE DEF settled
    <3> QED BY <2>1, <2>2, <2>5, <3>1 DEF CallRecord
  <2>6. CASE r \notin Range(entries) /\ ~(call[r].state = "draining" /\ call[r].flush = s)
    BY <2>1, <2>6
  <2> QED BY <2>3, <2>4, <2>5, <2>6
<1> HIDE DEF settled
<1>5. \A r \in Calls : Settled(s, success)[r] = settled(r)
  BY <1>1
<1>6. Settled(s, success) \in [Calls -> CallRecord]
  BY <1>1, <1>4
<1> QED BY <1>4, <1>5, <1>6 DEF entries

\* A step that moves calls on in their life, without a caller that comes or goes.
LEMMA CallsMoveOn ==
  ASSUME CollectorInv, CollectorTypeOK', Batches', Counted',
         UNCHANGED <<pending, caller, disposed>>,
         \A r \in Calls : /\ call'[r].keys = call[r].keys
                          /\ call'[r].state = "free" => call[r].state = "free"
                          /\ call'[r].state \in Active => call[r].state \in Active
  PROVE  CollectorInv'
<1>1. CollectorTypeOK /\ References /\ OwnKeysPending
  BY DEF CollectorInv
<1>2. FreeCallsEmpty'
  BY <1>1 DEF References, FreeCallsEmpty
<1>3. /\ \A k \in Keys : pending[k] # None => pending[k].call \in Calls
      /\ \A c \in Callers : caller[c].own # None => caller[c].own \in Calls
      /\ \A c \in Callers : \A n \in DOMAIN caller[c].via : caller[c].via[n].call \in Calls
  BY <1>1, CollectorTypes
<1>4. References'
  <2>1. \A k \in Keys : pending'[k] # None =>
          /\ pending'[k] = pending[k]
          /\ call'[pending[k].call].keys = call[pending[k].call].keys
          /\ \E c \in Callers : caller[c].own = pending[k].call /\ caller'[c] = caller[c]
    BY <1>1, <1>3 DEF References, PendingOwned
  <2>2. \A c \in Callers :
          /\ caller'[c] = caller[c]
          /\ \A n \in DOMAIN caller[c].via :
               call'[caller[c].via[n].call].keys = call[caller[c].via[n].call].keys
    BY <1>3
  <2> QED BY <1>2, <2>1, <2>2, ReferencesKept
<1>5. OwnKeysPending'
  BY <1>1, <1>3 DEF OwnKeysPending
<1> QED BY <1>4, <1>5 DEF CollectorInv

\* As many calls are active after the step as before it.
LEMMA SameActive ==
  ASSUME \A r \in Calls : call'[r].state \in Active <=> call[r].state \in Active
  PROVE  ActiveCalls' = ActiveCalls
BY DEF ActiveCalls

LEMMA SameRunning ==
  ASSUME \A s \in Consumes : consume'[s].entries = consume[s].entries
  PROVE  RunningConsumes' = RunningConsumes
BY DEF RunningConsumes, Running

LEMMA FiniteCounts ==
  /\ IsFiniteSet(ActiveCalls) /\ Cardinality(ActiveCalls) \in Nat
  /\ IsFiniteSet(RunningConsumes) /\ Cardinality(RunningConsumes) \in Nat
<1>1. ActiveCalls \in SUBSET Calls /\ RunningConsumes \in SUBSET Consumes
  BY DEF ActiveCalls, RunningConsumes
<1> QED BY <1>1, BoundsAssumption, FS_Subset, FS_CardinalityType

\* One consume call more, with entries, and the entries that waited are consumed.
LEMMA EntriesConsumed ==
  ASSUME CollectorInv, NEW s \in Consumes, consume[s] = NoConsume,
         waitingEntries # << >>,
         consume' = Consumed(s, call)
  PROVE  /\ consume' \in [Consumes -> ConsumeRecord]
         /\ EntriesApart'
         /\ \A t \in Consumes : \A n \in DOMAIN consume'[t].entries :
              call[consume'[t].entries[n]].state = "consumed"
                \/ consume'[t].entries[n] \in Range(waitingEntries)
         /\ RunningConsumes' = RunningConsumes \cup {s}
         /\ s \notin RunningConsumes
<1>1. /\ CollectorTypeOK /\ WaitingKnown /\ ConsumedKnown /\ EntriesApart
      /\ waitingEntries \in Seq(Calls)
      /\ \A t \in Consumes : consume[t].entries \in Seq(Calls)
  BY CollectorTypes DEF CollectorInv, CollectorTypeOK, Batches
<1>2. /\ consume' \in [Consumes -> ConsumeRecord]
      /\ \A t \in Consumes :
           consume'[t].entries = IF t = s THEN waitingEntries ELSE consume[t].entries
  BY <1>1, ConsumedEffect
<1>3. consume[s].entries = << >>
  BY DEF NoConsume
<1>4. \A n \in DOMAIN waitingEntries : waitingEntries[n] \in Range(waitingEntries)
  BY <1>1, RangeOfEntries
<1>5. \A t \in Consumes : \A n \in DOMAIN consume'[t].entries :
        call[consume'[t].entries[n]].state = "consumed"
          \/ consume'[t].entries[n] \in Range(waitingEntries)
  BY <1>1, <1>2, <1>4 DEF ConsumedKnown
<1>6. EntriesApart'
  <2>1. ASSUME NEW t \in Consumes, NEW u \in Consumes, t # u,
               NEW n \in DOMAIN consume'[t].entries, NEW m \in DOMAIN consume'[u].entries
        PROVE  consume'[t].entries[n] # consume'[u].entries[m]
    <3>1. CASE t = s
      BY <1>1, <1>2, <2>1, <3>1 DEF WaitingKnown, ConsumedKnown
    <3>2. CASE u = s
      BY <1>1, <1>2, <2>1, <3>2 DEF WaitingKnown, ConsumedKnown
    <3>3. CASE t # s /\ u # s
      BY <1>1, <1>2, <2>1, <3>3 DEF EntriesApart
    <3> QED BY <3>1, <3>2, <3>3
  <2> QED BY <2>1 DEF EntriesApart
<1>7. RunningConsumes' = RunningConsumes \cup {s} /\ s \notin RunningConsumes
  BY <1>2, <1>3 DEF RunningConsumes, Running
<1> QED BY <1>2, <1>5, <1>6, <1>7

LEMMA TimerFiresStep == ASSUME CollectorInv, TimerFires PROVE CollectorInv'
<1> DEFINE s == NextConsume
<1>1. s \in Consumes /\ consume[s] = NoConsume
  BY NextFree DEF TimerFires
<1> HIDE DEF s
<1>2. /\ CollectorTypeOK /\ WaitingKnown /\ ConsumedKnown /\ ResultsMatch /\ Counted
      /\ (timer <=> waitingEntries # << >>)
      /\ call \in [Calls -> CallRecord] /\ waitingEntries \in Seq(Calls)
  BY DEF CollectorInv, CollectorTypeOK, CallRecord, Batches
<1>3. /\ waitingEntries # << >>
      /\ consume' = Consumed(s, call)
      /\ call' = WithState(call, Range(waitingEntries), "consumed")
      /\ waitingEntries' = << >> /\ timer' = FALSE
      /\ activeConsumeCalls' = activeConsumeCalls + 1
      /\ UNCHANGED <<pending, batchSupported, activeRegisterCalls, caller, disposed>>
  BY <1>2 DEF TimerFires, s
<1>4. /\ consume' \in [Consumes -> ConsumeRecord] /\ EntriesApart'
      /\ \A t \in Consumes : \A n \in DOMAIN consume'[t].entries :
           call[consume'[t].entries[n]].state = "consumed"
             \/ consume'[t].entries[n] \in Range(waitingEntries)
      /\ RunningConsumes' = RunningConsumes \cup {s} /\ s \notin RunningConsumes
  BY <1>1, <1>3, EntriesConsumed
<1>5. /\ Range(waitingEntries) \in SUBSET Calls
      /\ \A r \in Range(waitingEntries) : call[r].state = "waiting"
  BY <1>2, RangeOfEntries DEF WaitingKnown
<1>6. /\ call' \in [Calls -> CallRecord]
      /\ \A r \in Calls :
           /\ call'[r].keys = call[r].keys /\ call'[r].results = call[r].results
           /\ call'[r].state = IF r \in Range(waitingEntries) THEN "consumed" ELSE call[r].state
  BY <1>2, <1>3, <1>5, WithStateEffect DEF CallStates
<1>7. \A r \in Calls : /\ call'[r].state = "free" => call[r].state = "free"
                       /\ call'[r].state \in Active <=> call[r].state \in Active
  BY <1>5, <1>6 DEF Active
<1>8. CollectorTypeOK'
  <2>1. << >> \in Seq(Calls)
    OBVIOUS
  <2>2. /\ {timer', batchSupported', disposed'} \subseteq BOOLEAN
        /\ activeRegisterCalls' \in Nat
    BY <1>2, <1>3 DEF CollectorTypeOK
  <2>3. activeConsumeCalls' \in Nat
    BY <1>2, <1>3 DEF CollectorTypeOK
  <2> QED BY <2>3, <1>2, <1>3, <1>4, <1>6, <2>1, <2>2 DEF CollectorTypeOK, CallRecord, ConsumeRecord
<1>9. Batches'
  <2>1. ConsumedKnown'
    <3>1. \A t \in Consumes : consume'[t].entries \in Seq(Calls)
      BY <1>4 DEF ConsumeRecord
    <3>2. \A t \in Consumes : \A n \in DOMAIN consume'[t].entries : consume'[t].entries[n] \in Calls
      BY <3>1, ElementOfSeq
    <3> QED BY <1>4, <1>6, <3>2 DEF ConsumedKnown
  <2>2. ResultsMatch'
    BY <1>2, <1>6 DEF ResultsMatch
  <2>3. WaitingKnown' /\ (timer' <=> waitingEntries' # << >>)
    BY <1>3 DEF WaitingKnown
  <2> QED BY <1>4, <2>1, <2>2, <2>3 DEF Batches
<1>10. Counted'
  <2>1. ActiveCalls' = ActiveCalls
    BY <1>7, SameActive
  <2>2. Cardinality(RunningConsumes \cup {s}) = Cardinality(RunningConsumes) + 1
    BY <1>4, FiniteCounts, FS_AddElement
  <2> QED BY <1>2, <1>3, <1>4, <2>1, <2>2 DEF Counted
<1> QED BY <1>3, <1>6, <1>7, <1>8, <1>9, <1>10, CallsMoveOn

LEMMA RegisterPushesStep ==
  ASSUME CollectorInv, NEW r \in Calls, RegisterPushes(r) PROVE CollectorInv'
<1>1. /\ CollectorTypeOK /\ WaitingKnown /\ ConsumedKnown /\ EntriesApart /\ ResultsMatch /\ Counted
      /\ call \in [Calls -> CallRecord] /\ waitingEntries \in Seq(Calls)
      /\ \A s \in Consumes : consume[s].entries \in Seq(Calls)
  BY CollectorTypes DEF CollectorInv, CollectorTypeOK, CallRecord, Batches
<1>2. /\ call[r].state = "drained"
      /\ call' = [call EXCEPT ![r].state = "waiting"]
      /\ waitingEntries' = Append(waitingEntries, r)
      /\ timer' = TRUE
      /\ UNCHANGED <<pending, batchSupported, activeRegisterCalls, activeConsumeCalls,
                     consume, caller, disposed>>
  BY DEF RegisterPushes
<1>3. /\ call' \in [Calls -> CallRecord]
      /\ \A q \in Calls :
           /\ call'[q].keys = call[q].keys /\ call'[q].results = call[q].results
           /\ call'[q].state = IF q = r THEN "waiting" ELSE call[q].state
  BY <1>1, <1>2 DEF CallRecord, CallStates
<1>4. /\ waitingEntries' \in Seq(Calls) /\ waitingEntries' # << >>
      /\ \A n \in DOMAIN waitingEntries' :
           \/ n \in DOMAIN waitingEntries /\ waitingEntries'[n] = waitingEntries[n]
           \/ waitingEntries'[n] = r
  BY <1>1, <1>2
<1>5. CollectorTypeOK'
  BY <1>1, <1>2, <1>3, <1>4 DEF CollectorTypeOK, CallRecord
<1>6. \A q \in Calls : /\ call'[q].state = "free" => call[q].state = "free"
                       /\ call'[q].state \in Active <=> call[q].state \in Active
  BY <1>2, <1>3 DEF Active
<1>7. Batches'
  <2>1. WaitingKnown' /\ (timer' <=> waitingEntries' # << >>)
    <3>1. \A n \in DOMAIN waitingEntries : waitingEntries[n] \in Calls
      BY <1>1, ElementOfSeq
    <3> QED BY <1>1, <1>2, <1>3, <1>4, <3>1 DEF WaitingKnown
  <2>2. ConsumedKnown'
    <3>1. \A s \in Consumes : \A n \in DOMAIN consume[s].entries : consume[s].entries[n] \in Calls
      BY <1>1, ElementOfSeq
    <3> QED BY <1>1, <1>2, <1>3, <3>1 DEF ConsumedKnown
  <2>3. EntriesApart' /\ ResultsMatch'
    BY <1>1, <1>2, <1>3 DEF EntriesApart, ResultsMatch
  <2> QED BY <2>1, <2>2, <2>3 DEF Batches
<1>8. Counted'
  <2>1. ActiveCalls' = ActiveCalls
    BY <1>6, SameActive
  <2>2. RunningConsumes' = RunningConsumes
    BY <1>2, SameRunning
  <2> QED BY <1>1, <1>2, <2>1, <2>2 DEF Counted
<1> QED BY <1>2, <1>3, <1>5, <1>6, <1>7, <1>8, CallsMoveOn

\* A consume call that ends leaves no entry unsettled, and onIdle cannot fire yet: its
\* register calls are still to return.
LEMMA ConsumeEndsStep ==
  ASSUME CollectorInv, NEW s \in Consumes, Running(s), NEW success \in BOOLEAN,
         NEW cs \in Seq({"batch", "singles", "done"}),
         ConsumeEnds(s, cs, success),
         UNCHANGED <<waitingEntries, timer, activeRegisterCalls, caller, disposed>>
  PROVE  CollectorInv'
<1>1. /\ CollectorTypeOK /\ WaitingKnown /\ ConsumedKnown /\ EntriesApart /\ ResultsMatch /\ Counted
      /\ (timer <=> waitingEntries # << >>)
      /\ call \in [Calls -> CallRecord] /\ waitingEntries \in Seq(Calls)
      /\ \A t \in Consumes : consume[t].entries \in Seq(Calls)
  BY CollectorTypes DEF CollectorInv, CollectorTypeOK, CallRecord, Batches
<1>2. /\ \A t \in Consumes : \A n \in DOMAIN consume[t].entries : consume[t].entries[n] \in Calls
      /\ \A n \in DOMAIN waitingEntries : waitingEntries[n] \in Calls
  BY <1>1, ElementOfSeq
<1>3. /\ call' = Settled(s, success)
      /\ consume' = ConsumeWith(s, << >>, cs)
      /\ activeConsumeCalls' = activeConsumeCalls - 1
  BY DEF ConsumeEnds
<1>4. /\ call' \in [Calls -> CallRecord]
      /\ \A r \in Calls :
           /\ call'[r].keys = call[r].keys
           /\ \/ /\ r \in Range(consume[s].entries)
                 /\ call'[r].state \in {"resolved", "rejected"}
                 /\ call'[r].state = "resolved" => call'[r].results = call'[r].keys
              \/ /\ r \notin Range(consume[s].entries)
                 /\ call'[r].results = call[r].results
                 /\ \/ call'[r].state = call[r].state
                    \/ call[r].state = "draining" /\ call'[r].state = "drained"
  BY <1>3, SettledEffect
<1>5. /\ consume' \in [Consumes -> ConsumeRecord]
      /\ \A t \in Consumes : consume'[t].entries = IF t = s THEN << >> ELSE consume[t].entries
  <2>1. PICK e \in Seq(Calls) : e = << >>
    <3>1. << >> \in Seq(Calls)
      OBVIOUS
    <3> QED BY <3>1, Zenon
  <2>2. consume' = ConsumeWith(s, e, cs)
    BY <1>3, <2>1
  <2>3. /\ ConsumeWith(s, e, cs) \in [Consumes -> ConsumeRecord]
        /\ \A t \in Consumes :
             ConsumeWith(s, e, cs)[t].entries = IF t = s THEN e ELSE consume[t].entries
    BY <1>1, ConsumeWithEffect
  <2> QED BY <2>1, <2>2, <2>3
<1>6. \A r \in Calls : r \in Range(consume[s].entries) =>
        /\ call[r].state = "consumed"
        /\ \A t \in Consumes : t # s =>
             \A n \in DOMAIN consume[t].entries : consume[t].entries[n] # r
  <2>1. \A r : r \in Range(consume[s].entries) <=>
          \E n \in DOMAIN consume[s].entries : consume[s].entries[n] = r
    BY <1>1, RangeOfEntries
  <2> QED BY <1>1, <2>1 DEF ConsumedKnown, EntriesApart
<1>7. \A r \in Calls : /\ call'[r].state = "free" => call[r].state = "free"
                       /\ call'[r].state \in Active <=> call[r].state \in Active
  BY <1>4, <1>6 DEF Active
<1>8. UNCHANGED <<pending, batchSupported>>
  <2>1. PICK n \in DOMAIN consume[s].entries : TRUE
    <3>1. Len(consume[s].entries) # 0 /\ Len(consume[s].entries) \in Nat
      BY <1>1, EmptySeq, LenProperties DEF Running
    <3>2. 1 \in DOMAIN consume[s].entries
      BY <1>1, <3>1, LenProperties
    <3> QED BY <3>2
  <2>2. consume[s].entries[n] \in ActiveCalls
    BY <1>1, <1>2 DEF ConsumedKnown, ActiveCalls, Active
  <2>3. activeRegisterCalls # 0
    BY <1>1, <2>2, FiniteCounts, FS_EmptySet DEF Counted
  <2>4. ~FiresOnIdle(activeRegisterCalls, activeConsumeCalls - 1, waitingEntries)
    BY <2>3 DEF FiresOnIdle
  <2>5. pending' = pending
    BY <2>4 DEF ConsumeEnds, AfterIdle
  <2>6. batchSupported' = batchSupported
    <3>1. batchSupported' = (batchSupported \/ FALSE)
      BY <2>4, Zenon DEF ConsumeEnds, AfterIdle
    <3>2. batchSupported \in BOOLEAN
      BY <1>1 DEF CollectorTypeOK
    <3> QED BY <3>1, <3>2
  <2> QED BY <2>5, <2>6
<1>9. Counted'
  <2>1. ActiveCalls' = ActiveCalls
    BY <1>7, SameActive
  <2>2. RunningConsumes' = RunningConsumes \ {s} /\ s \in RunningConsumes
    BY <1>5 DEF RunningConsumes, Running
  <2>3. Cardinality(RunningConsumes \ {s}) = Cardinality(RunningConsumes) - 1
    BY <2>2, FiniteCounts, FS_RemoveElement
  <2> QED BY <1>1, <1>3, <2>1, <2>2, <2>3 DEF Counted
<1>10. CollectorTypeOK'
  <2>1. activeConsumeCalls' \in Nat
    <3>1. RunningConsumes' \in SUBSET Consumes
      BY DEF RunningConsumes
    <3>2. Cardinality(RunningConsumes') \in Nat
      BY <3>1, BoundsAssumption, FS_Subset, FS_CardinalityType
    <3> QED BY <1>9, <3>2 DEF Counted
  <2> QED BY <1>1, <1>4, <1>5, <1>8, <2>1 DEF CollectorTypeOK, CallRecord, ConsumeRecord
<1>11. Batches'
  <2>1. WaitingKnown'
    BY <1>1, <1>2, <1>4, <1>6 DEF WaitingKnown
  <2>2. ConsumedKnown'
    <3>1. ASSUME NEW t \in Consumes, NEW n \in DOMAIN consume'[t].entries
          PROVE  call'[consume'[t].entries[n]].state = "consumed"
      <4>1. t # s /\ consume'[t].entries = consume[t].entries
        BY <1>5, <3>1
      <4>2. /\ consume[t].entries[n] \in Calls
            /\ call[consume[t].entries[n]].state = "consumed"
            /\ consume[t].entries[n] \notin Range(consume[s].entries)
        BY <1>1, <1>2, <1>6, <3>1, <4>1 DEF ConsumedKnown
      <4> QED BY <1>4, <4>1, <4>2
    <3> QED BY <3>1 DEF ConsumedKnown
  <2>3. EntriesApart'
    <3>1. ASSUME NEW t \in Consumes, NEW u \in Consumes, t # u,
                 NEW n \in DOMAIN consume'[t].entries, NEW m \in DOMAIN consume'[u].entries
          PROVE  consume'[t].entries[n] # consume'[u].entries[m]
      <4>1. consume'[t].entries = consume[t].entries /\ consume'[u].entries = consume[u].entries
        BY <1>5, <3>1
      <4> QED BY <1>1, <3>1, <4>1 DEF EntriesApart
    <3> QED BY <3>1 DEF EntriesApart
  <2>4. ResultsMatch'
    BY <1>1, <1>4 DEF ResultsMatch
  <2>5. timer' <=> waitingEntries' # << >>
    BY <1>1
  <2> QED BY <2>1, <2>2, <2>3, <2>4, <2>5 DEF Batches
<1> QED BY <1>4, <1>7, <1>8, <1>9, <1>10, <1>11, CallsMoveOn

\* A step that leaves the entries where they are.
LEMMA EntriesStay ==
  ASSUME CollectorInv, ResultsMatch', UNCHANGED <<waitingEntries, timer>>,
         \A s \in Consumes : consume'[s].entries = consume[s].entries,
         \A r \in Calls : call[r].state \in {"waiting", "consumed"} =>
           call'[r].state = call[r].state
  PROVE  Batches' /\ RunningConsumes' = RunningConsumes
<1>1. /\ WaitingKnown /\ ConsumedKnown /\ EntriesApart
      /\ (timer <=> waitingEntries # << >>)
      /\ waitingEntries \in Seq(Calls)
      /\ \A s \in Consumes : consume[s].entries \in Seq(Calls)
  BY CollectorTypes DEF CollectorInv, CollectorTypeOK, Batches
<1>2. /\ \A s \in Consumes : \A n \in DOMAIN consume[s].entries : consume[s].entries[n] \in Calls
      /\ \A n \in DOMAIN waitingEntries : waitingEntries[n] \in Calls
  BY <1>1, ElementOfSeq
<1>3. WaitingKnown'
  BY <1>1, <1>2 DEF WaitingKnown
<1>4. ConsumedKnown'
  BY <1>1, <1>2 DEF ConsumedKnown
<1>5. EntriesApart'
  BY <1>1 DEF EntriesApart
<1>6. timer' <=> waitingEntries' # << >>
  BY <1>1
<1>7. RunningConsumes' = RunningConsumes
  BY SameRunning
<1> QED BY <1>3, <1>4, <1>5, <1>6, <1>7 DEF Batches

LEMMA ChunksStep ==
  ASSUME CollectorInv,
         consume' \in [Consumes -> ConsumeRecord],
         \A t \in Consumes : consume'[t].entries = consume[t].entries,
         batchSupported' \in BOOLEAN,
         UNCHANGED <<pending, waitingEntries, timer, activeRegisterCalls, activeConsumeCalls,
                     call, caller, disposed>>
  PROVE  CollectorInv'
<1>1. CollectorTypeOK /\ Counted /\ ResultsMatch
  BY DEF CollectorInv, Batches
<1>2. CollectorTypeOK'
  BY <1>1 DEF CollectorTypeOK, ConsumeRecord
<1>3. ResultsMatch'
  BY <1>1 DEF ResultsMatch
<1>4. Batches' /\ RunningConsumes' = RunningConsumes
  BY <1>3, EntriesStay
<1>5. Counted'
  <2>1. ActiveCalls' = ActiveCalls
    BY SameActive
  <2> QED BY <1>1, <1>4, <2>1 DEF Counted
<1> QED BY <1>2, <1>4, <1>5, CallsMoveOn

LEMMA ChunkSettlesStep ==
  ASSUME CollectorInv, NEW s \in Consumes, NEW n \in DOMAIN consume[s].chunks,
         ChunkSettles(s, n) \/ ChunkUnsupported(s, n)
  PROVE  CollectorInv'
<1> DEFINE cs == [consume[s].chunks EXCEPT ![n] = "done"]
<1>1. /\ CollectorTypeOK /\ consume \in [Consumes -> ConsumeRecord]
      /\ consume[s] \in ConsumeRecord
      /\ consume[s].chunks \in Seq({"batch", "singles", "done"})
      /\ consume[s].entries \in Seq(Calls)
      /\ batchSupported \in BOOLEAN
  BY DEF CollectorInv, CollectorTypeOK, ConsumeRecord
<1>2. \A x \in {"batch", "singles", "done"} :
        [consume[s].chunks EXCEPT ![n] = x] \in Seq({"batch", "singles", "done"})
  BY <1>1, ExceptSeq
<1>3. cs \in Seq({"batch", "singles", "done"})
  BY <1>2
<1> HIDE DEF cs
<1>4. ASSUME consume' = ConsumeWith(s, consume[s].entries, cs),
             UNCHANGED <<pending, batchSupported, waitingEntries, timer, activeRegisterCalls,
                         activeConsumeCalls, call, caller, disposed>>
      PROVE  CollectorInv'
  <2>1. /\ consume' \in [Consumes -> ConsumeRecord]
        /\ \A t \in Consumes : consume'[t].entries = consume[t].entries
    BY <1>1, <1>3, <1>4, ConsumeWithEffect
  <2> QED BY <1>1, <1>4, <2>1, ChunksStep
<1>5. CASE ChunkFetched(s, n)
  <2>1. CASE Running(s) /\ Range(cs) = {"done"}
    <3>1. ConsumeEnds(s, cs, TRUE)
          /\ UNCHANGED <<waitingEntries, timer, activeRegisterCalls, caller, disposed>>
      BY <1>5, <2>1 DEF ChunkFetched, cs
    <3> QED BY <1>3, <2>1, <3>1, ConsumeEndsStep
  <2>2. CASE ~(Running(s) /\ Range(cs) = {"done"})
    BY <1>4, <1>5, <2>2 DEF ChunkFetched, cs
  <2> QED BY <2>1, <2>2
<1>6. CASE ChunkFails(s, n)
  <2>1. CASE Running(s)
    <3>1. ConsumeEnds(s, cs, FALSE)
          /\ UNCHANGED <<waitingEntries, timer, activeRegisterCalls, caller, disposed>>
      BY <1>6, <2>1 DEF ChunkFails, cs
    <3> QED BY <1>3, <2>1, <3>1, ConsumeEndsStep
  <2>2. CASE ~Running(s)
    <3>1. consume[s].entries = << >>
      BY <2>2 DEF Running
    <3> QED BY <1>4, <1>6, <2>2, <3>1 DEF ChunkFails, cs
  <2> QED BY <2>1, <2>2
<1>7. CASE ChunkUnsupported(s, n)
  <2>1. consume' = [consume EXCEPT ![s].chunks[n] = "singles"] /\ batchSupported' = FALSE
        /\ UNCHANGED <<pending, waitingEntries, timer, activeRegisterCalls,
                       activeConsumeCalls, call, caller, disposed>>
    BY <1>7 DEF ChunkUnsupported
  <2> DEFINE new == [consume[s].chunks EXCEPT ![n] = "singles"]
  <2>2. new \in Seq({"batch", "singles", "done"})
    BY <1>2
  <2>3. consume' = [consume EXCEPT ![s] = [consume[s] EXCEPT !.chunks = new]]
    BY <2>1
  <2> HIDE DEF new
  <2>4. /\ consume' \in [Consumes -> ConsumeRecord]
        /\ \A t \in Consumes : consume'[t].entries = consume[t].entries
    BY <1>1, <2>2, <2>3 DEF ConsumeRecord
  <2> QED BY <2>1, <2>4, ChunksStep
<1> QED BY <1>5, <1>6, <1>7 DEF ChunkSettles

LEMMA DisposeStep == ASSUME CollectorInv, Dispose PROVE CollectorInv'
<1>1. /\ CollectorTypeOK /\ WaitingKnown /\ ConsumedKnown /\ EntriesApart /\ ResultsMatch /\ Counted
      /\ References
      /\ call \in [Calls -> CallRecord] /\ waitingEntries \in Seq(Calls)
      /\ \A s \in Consumes : consume[s].entries \in Seq(Calls)
  BY CollectorTypes DEF CollectorInv, CollectorTypeOK, CallRecord, Batches
<1>2. /\ timer' = FALSE /\ waitingEntries' = << >> /\ disposed' = TRUE
      /\ call' = WithState(call, Range(waitingEntries), "rejected")
      /\ pending' = [k \in Keys |-> None]
      /\ UNCHANGED <<batchSupported, activeRegisterCalls, activeConsumeCalls, consume, caller>>
  BY DEF Dispose
<1>3. /\ Range(waitingEntries) \in SUBSET Calls
      /\ \A r \in Range(waitingEntries) : call[r].state = "waiting"
  BY <1>1, RangeOfEntries DEF WaitingKnown
<1>4. /\ call' \in [Calls -> CallRecord]
      /\ \A r \in Calls :
           /\ call'[r].keys = call[r].keys /\ call'[r].results = call[r].results
           /\ call'[r].state = IF r \in Range(waitingEntries) THEN "rejected" ELSE call[r].state
  BY <1>1, <1>2, <1>3, WithStateEffect DEF CallStates
<1>5. \A k \in Keys : pending'[k] = None
  BY <1>2
<1>6. CollectorTypeOK'
  <2>1. << >> \in Seq(Calls)
    OBVIOUS
  <2>2. pending' \in [Keys -> {None} \cup [call : Calls, index : Nat]]
    BY <1>2
  <2>3. {timer', batchSupported', disposed'} \subseteq BOOLEAN
    BY <1>1, <1>2 DEF CollectorTypeOK
  <2> QED BY <1>1, <1>2, <1>4, <2>1, <2>2, <2>3 DEF CollectorTypeOK, CallRecord
<1>7. Batches'
  <2>1. ConsumedKnown'
    <3>1. \A s \in Consumes : \A n \in DOMAIN consume[s].entries : consume[s].entries[n] \in Calls
      BY <1>1, ElementOfSeq
    <3> QED BY <1>1, <1>2, <1>3, <1>4, <3>1 DEF ConsumedKnown
  <2>2. ResultsMatch' /\ EntriesApart'
    BY <1>1, <1>2, <1>4 DEF ResultsMatch, EntriesApart
  <2>3. WaitingKnown' /\ (timer' <=> waitingEntries' # << >>)
    BY <1>2 DEF WaitingKnown
  <2> QED BY <2>1, <2>2, <2>3 DEF Batches
<1>8. Counted'
  <2>1. ActiveCalls' = ActiveCalls
    BY <1>3, <1>4, SameActive DEF Active
  <2>2. RunningConsumes' = RunningConsumes
    BY <1>2, SameRunning
  <2> QED BY <1>1, <1>2, <2>1, <2>2 DEF Counted
<1>9. References'
  <2>1. FreeCallsEmpty'
    BY <1>1, <1>4 DEF References, FreeCallsEmpty
  <2>2. \A c \in Callers :
          /\ caller'[c] = caller[c]
          /\ \A n \in DOMAIN caller[c].via :
               call'[caller[c].via[n].call].keys = call[caller[c].via[n].call].keys
    BY <1>1, <1>2, <1>4, CollectorTypes
  <2> QED BY <1>5, <1>6, <2>1, <2>2, ReferencesKept
<1>10. OwnKeysPending'
  BY <1>2 DEF OwnKeysPending
<1> QED BY <1>6, <1>7, <1>8, <1>9, <1>10 DEF CollectorInv

LEMMA NewCollectorStep == ASSUME CollectorInv, NewCollector PROVE CollectorInv'
<1>1. /\ CollectorTypeOK /\ Counted /\ ResultsMatch /\ References
  BY DEF CollectorInv, Batches
<1>2. /\ disposed' = FALSE /\ batchSupported' = TRUE
      /\ UNCHANGED <<pending, waitingEntries, timer, activeRegisterCalls,
                     activeConsumeCalls, call, consume, caller>>
      /\ \A c \in Callers : caller[c] = IdleCaller
  BY DEF NewCollector, Idle
<1>3. CollectorTypeOK'
  BY <1>1, <1>2 DEF CollectorTypeOK
<1>4. ResultsMatch'
  BY <1>1, <1>2 DEF ResultsMatch
<1>5. Batches' /\ RunningConsumes' = RunningConsumes
  BY <1>2, <1>4, EntriesStay
<1>6. ActiveCalls' = ActiveCalls
  BY <1>2, SameActive
<1>7. References'
  BY <1>1, <1>2
  DEF References, FreeCallsEmpty, PendingPlaced, ViaPlaced, OwnsApart, PendingOwned
<1>8. OwnKeysPending'
  BY <1>2 DEF OwnKeysPending, IdleCaller
<1> QED BY <1>1, <1>2, <1>3, <1>5, <1>6, <1>7, <1>8 DEF CollectorInv, Counted

LEMMA RegisterReturnsStep ==
  ASSUME CollectorInv, NEW r \in Calls, RegisterReturns(r) PROVE CollectorInv'
<1> DEFINE new == IF call[r].state = "resolved" THEN "fulfilled" ELSE "failed"
           moved == [call EXCEPT ![r].state = new]
<1>1. /\ CollectorTypeOK /\ ResultsMatch /\ Counted /\ References /\ OwnKeysPending
      /\ FreeCallsEmpty /\ PendingOwned
      /\ call \in [Calls -> CallRecord]
      /\ batchSupported \in BOOLEAN /\ activeRegisterCalls \in Nat
  BY DEF CollectorInv, CollectorTypeOK, CallRecord, Batches, References
<1>2. /\ call[r].state \in {"resolved", "rejected"}
      /\ activeRegisterCalls' = activeRegisterCalls - 1
      /\ AfterIdle(activeRegisterCalls - 1, activeConsumeCalls, waitingEntries, pending)
      /\ call' = Swept(moved, caller, pending')
      /\ UNCHANGED <<waitingEntries, timer, activeConsumeCalls, consume, caller, disposed>>
  BY DEF RegisterReturns
<1>3. /\ moved \in [Calls -> CallRecord]
      /\ \A q \in Calls :
           /\ moved[q].keys = call[q].keys /\ moved[q].results = call[q].results
           /\ moved[q].state = IF q = r THEN new ELSE call[q].state
  BY <1>1, <1>2 DEF CallRecord, CallStates
<1> HIDE DEF moved
<1>4. /\ call' \in [Calls -> CallRecord]
      /\ \A q \in Calls :
           \/ call'[q] = moved[q]
           \/ call'[q] = FreeCall /\ Garbage(q, moved, caller, pending')
  BY <1>2, <1>3, SweptEffect
<1>5. FreeCall.state = "free" /\ FreeCall.keys = << >> /\ FreeCall.results = << >>
  BY DEF FreeCall
<1>6. \A q \in Calls :
        /\ call'[q].state \in Active <=> q # r /\ call[q].state \in Active
        /\ call[q].state \in {"waiting", "consumed"} => call'[q].state = call[q].state
        /\ call'[q].state = "free" => call'[q].keys = << >>
        /\ call'[q].state \in {"resolved", "fulfilled"} => call'[q].results = call'[q].keys
  <2> TAKE q \in Calls
  <2>1. moved[q].state \in {"fulfilled", "failed"} =>
          q = r \/ call[q].state \in {"fulfilled", "failed"}
    BY <1>3
  <2>2. Garbage(q, moved, caller, pending') => moved[q].state \in {"fulfilled", "failed"}
    BY DEF Garbage
  <2>3. /\ call'[q].state \in Active <=> q # r /\ call[q].state \in Active
        /\ call[q].state \in {"waiting", "consumed"} => call'[q].state = call[q].state
    BY <1>2, <1>3, <1>4, <1>5, <2>1, <2>2 DEF Active
  <2>4. call'[q].state = "free" => call'[q].keys = << >>
    BY <1>1, <1>3, <1>4, <1>5 DEF FreeCallsEmpty
  <2>5. call'[q].state \in {"resolved", "fulfilled"} => call'[q].results = call'[q].keys
    BY <1>1, <1>2, <1>3, <1>4, <1>5 DEF ResultsMatch
  <2> QED BY <2>3, <2>4, <2>5
<1>7. \/ pending' = pending
      \/ (\A k \in Keys : pending'[k] = None) /\ activeRegisterCalls - 1 = 0
  BY <1>2 DEF AfterIdle, FiresOnIdle
<1>8. CollectorTypeOK'
  <2>1. r \in ActiveCalls
    BY <1>2 DEF ActiveCalls, Active
  <2>2. activeRegisterCalls # 0
    BY <1>1, <2>1, FiniteCounts, FS_EmptySet DEF Counted
  <2>3. activeRegisterCalls' \in Nat
    BY <1>1, <1>2, <2>2
  <2>4. pending' \in [Keys -> {None} \cup [call : Calls, index : Nat]]
    BY <1>1, <1>2 DEF AfterIdle, CollectorTypeOK
  <2>5. batchSupported' \in BOOLEAN
    BY <1>2 DEF AfterIdle
  <2> QED BY <1>1, <1>2, <1>4, <2>3, <2>4, <2>5 DEF CollectorTypeOK, CallRecord
<1>9. ResultsMatch' /\ FreeCallsEmpty'
  BY <1>6 DEF ResultsMatch, FreeCallsEmpty
<1>10. Batches' /\ RunningConsumes' = RunningConsumes
  BY <1>2, <1>6, <1>9, EntriesStay
<1>11. /\ ActiveCalls' = ActiveCalls \ {r} /\ r \in ActiveCalls
       /\ Cardinality(ActiveCalls') = activeRegisterCalls - 1
  <2>1. ActiveCalls' = ActiveCalls \ {r} /\ r \in ActiveCalls
    BY <1>2, <1>6 DEF ActiveCalls, Active
  <2>2. Cardinality(ActiveCalls \ {r}) = Cardinality(ActiveCalls) - 1
    BY <2>1, FiniteCounts, FS_RemoveElement
  <2> QED BY <1>1, <2>1, <2>2 DEF Counted
<1>12. Counted'
  BY <1>1, <1>2, <1>10, <1>11 DEF Counted
<1>13. References'
  <2>1. \A k \in Keys : pending'[k] # None =>
          /\ pending'[k] = pending[k]
          /\ call'[pending[k].call].keys = call[pending[k].call].keys
          /\ \E c \in Callers : caller[c].own = pending[k].call /\ caller'[c] = caller[c]
    <3> SUFFICES ASSUME NEW k \in Keys, pending'[k] # None
                 PROVE  /\ pending'[k] = pending[k]
                        /\ call'[pending[k].call].keys = call[pending[k].call].keys
                        /\ \E c \in Callers :
                             caller[c].own = pending[k].call /\ caller'[c] = caller[c]
      OBVIOUS
    <3>1. pending'[k] = pending[k]
      BY <1>7
    <3>2. pending[k].call \in Calls
      BY <1>1, <3>1, CollectorTypes
    <3>3. ~Garbage(pending[k].call, moved, caller, pending')
      BY <3>1 DEF Garbage
    <3>4. call'[pending[k].call].keys = call[pending[k].call].keys
      BY <1>3, <1>4, <3>2, <3>3
    <3> QED BY <1>1, <1>2, <3>1, <3>4 DEF PendingOwned
  <2>2. ASSUME NEW c \in Callers, NEW n \in DOMAIN caller[c].via
        PROVE  call'[caller[c].via[n].call].keys = call[caller[c].via[n].call].keys
    <3>1. caller[c].via[n].call \in Calls
      BY <1>1, CollectorTypes
    <3>2. ~Garbage(caller[c].via[n].call, moved, caller, pending')
      BY DEF Garbage
    <3> QED BY <1>3, <1>4, <3>1, <3>2
  <2>3. caller' = caller
    BY <1>2
  <2> QED BY <1>8, <1>9, <2>1, <2>2, <2>3, ReferencesKept
<1>14. OwnKeysPending'
  <2> SUFFICES ASSUME ~disposed', NEW c \in Callers, caller'[c].own # None,
                      call'[caller'[c].own].state \in Active,
                      NEW n \in DOMAIN call'[caller'[c].own].keys
               PROVE  /\ pending'[call'[caller'[c].own].keys[n]] # None
                      /\ pending'[call'[caller'[c].own].keys[n]].call = caller'[c].own
    BY DEF OwnKeysPending
  <2>1. caller'[c] = caller[c] /\ caller[c].own \in Calls
    BY <1>1, <1>2, CollectorTypes
  <2>2. caller[c].own \in ActiveCalls'
    BY <2>1 DEF ActiveCalls
  <2>3. activeRegisterCalls - 1 # 0
    <3>1. IsFiniteSet(ActiveCalls')
      BY <1>11, FiniteCounts, FS_Subset
    <3> QED BY <1>11, <2>2, <3>1, FS_EmptySet
  <2>4. pending' = pending
    BY <1>7, <2>3
  <2>5. call'[caller[c].own].keys = call[caller[c].own].keys /\ call[caller[c].own].state \in Active
    BY <1>3, <1>4, <1>5, <1>6, <2>1 DEF Active
  <2> QED BY <1>1, <1>2, <2>1, <2>4, <2>5 DEF OwnKeysPending
<1> QED BY <1>8, <1>10, <1>12, <1>13, <1>14 DEF CollectorInv

LEMMA CallerSettlesStep ==
  ASSUME CollectorInv, NEW c \in Callers, CallerSettles(c) PROVE CollectorInv'
<1>1. /\ CollectorTypeOK /\ ResultsMatch /\ Counted /\ OwnKeysPending
      /\ FreeCallsEmpty /\ PendingOwned /\ OwnsApart
      /\ call \in [Calls -> CallRecord] /\ caller \in [Callers -> CallerRecord]
      /\ pending \in [Keys -> {None} \cup [call : Calls, index : Nat]]
  BY DEF CollectorInv, CollectorTypeOK, CallRecord, CallerRecord, Batches, References
<1>2. /\ pending' = Forgetting(caller[c].own)
      /\ caller' = [caller EXCEPT ![c] = IdleCaller]
      /\ call' = Swept(call, caller', pending')
      /\ UNCHANGED <<waitingEntries, timer, batchSupported, activeRegisterCalls,
                     activeConsumeCalls, consume, disposed>>
  BY DEF CallerSettles
<1>3. /\ call' \in [Calls -> CallRecord]
      /\ \A q \in Calls :
           \/ call'[q] = call[q]
           \/ call'[q] = FreeCall /\ Garbage(q, call, caller', pending')
  BY <1>1, <1>2, SweptEffect
<1>4. /\ caller' \in [Callers -> CallerRecord]
      /\ \A d \in Callers : caller'[d] = IF d = c THEN IdleCaller ELSE caller[d]
  BY <1>1, <1>2, NewRecords
<1>5. \A k \in Keys :
        pending'[k] = IF pending[k] # None /\ pending[k].call = caller[c].own
                      THEN None ELSE pending[k]
  BY <1>2 DEF Forgetting
<1>6. FreeCall.state = "free" /\ FreeCall.keys = << >> /\ FreeCall.results = << >>
  BY DEF FreeCall
<1>7. \A q \in Calls :
        /\ call'[q].state \in Active <=> call[q].state \in Active
        /\ call[q].state \in {"waiting", "consumed"} => call'[q].state = call[q].state
        /\ call'[q].state = "free" => call'[q].keys = << >>
        /\ call'[q].state \in {"resolved", "fulfilled"} => call'[q].results = call'[q].keys
  <2> TAKE q \in Calls
  <2>1. Garbage(q, call, caller', pending') => call[q].state \in {"fulfilled", "failed"}
    BY DEF Garbage
  <2>2. /\ call'[q].state \in Active <=> call[q].state \in Active
        /\ call[q].state \in {"waiting", "consumed"} => call'[q].state = call[q].state
    BY <1>3, <1>6, <2>1 DEF Active
  <2>3. call'[q].state = "free" => call'[q].keys = << >>
    BY <1>1, <1>3, <1>6 DEF FreeCallsEmpty
  <2>4. call'[q].state \in {"resolved", "fulfilled"} => call'[q].results = call'[q].keys
    BY <1>1, <1>3, <1>6 DEF ResultsMatch
  <2> QED BY <2>2, <2>3, <2>4
<1>8. CollectorTypeOK'
  <2>1. pending' \in [Keys -> {None} \cup [call : Calls, index : Nat]]
    BY <1>1, <1>2 DEF Forgetting
  <2> QED BY <1>1, <1>2, <1>3, <1>4, <2>1 DEF CollectorTypeOK, CallRecord, CallerRecord
<1>9. ResultsMatch' /\ FreeCallsEmpty'
  BY <1>7 DEF ResultsMatch, FreeCallsEmpty
<1>10. Batches' /\ RunningConsumes' = RunningConsumes
  BY <1>2, <1>7, <1>9, EntriesStay
<1>11. ActiveCalls' = ActiveCalls
  BY <1>7, SameActive
<1>12. Counted'
  BY <1>1, <1>2, <1>10, <1>11 DEF Counted
<1>13. References'
  <2>1. ASSUME NEW k \in Keys, pending'[k] # None
        PROVE  /\ pending'[k] = pending[k]
               /\ call'[pending[k].call].keys = call[pending[k].call].keys
               /\ \E d \in Callers : caller[d].own = pending[k].call /\ caller'[d] = caller[d]
    <3>1. pending'[k] = pending[k] /\ pending[k] # None /\ pending[k].call # caller[c].own
      BY <1>5, <2>1
    <3>2. pending[k].call \in Calls
      BY <1>1, <3>1, CollectorTypes
    <3>3. ~Garbage(pending[k].call, call, caller', pending')
      BY <3>1 DEF Garbage
    <3>4. call'[pending[k].call].keys = call[pending[k].call].keys
      BY <1>3, <3>2, <3>3
    <3>5. PICK d \in Callers : caller[d].own = pending[k].call
      BY <1>1, <3>1 DEF PendingOwned
    <3>6. caller'[d] = caller[d]
      BY <1>4, <3>1, <3>5
    <3> QED BY <3>1, <3>4, <3>5, <3>6
  <2>2. ASSUME NEW d \in Callers
        PROVE  \/ caller'[d] = IdleCaller
               \/ /\ caller'[d] = caller[d]
                  /\ \A n \in DOMAIN caller[d].via :
                       call'[caller[d].via[n].call].keys = call[caller[d].via[n].call].keys
    <3>1. CASE d = c
      BY <1>4, <3>1
    <3>2. CASE d # c
      <4>1. caller'[d] = caller[d]
        BY <1>4, <3>2
      <4>2. ASSUME NEW n \in DOMAIN caller[d].via
            PROVE  call'[caller[d].via[n].call].keys = call[caller[d].via[n].call].keys
        <5>1. caller[d].via[n].call \in Calls
          BY <1>1, CollectorTypes
        <5>2. ~Garbage(caller[d].via[n].call, call, caller', pending')
          BY <4>1 DEF Garbage
        <5> QED BY <1>3, <5>1, <5>2
      <4> QED BY <4>1, <4>2
    <3> QED BY <3>1, <3>2
  <2> QED BY <1>8, <1>9, <2>1, <2>2, ReferencesKept
<1>14. OwnKeysPending'
  <2> SUFFICES ASSUME ~disposed', NEW d \in Callers, caller'[d].own # None,
                      call'[caller'[d].own].state \in Active,
                      NEW n \in DOMAIN call'[caller'[d].own].keys
               PROVE  /\ pending'[call'[caller'[d].own].keys[n]] # None
                      /\ pending'[call'[caller'[d].own].keys[n]].call = caller'[d].own
    BY DEF OwnKeysPending
  <2>1. d # c /\ caller'[d] = caller[d]
    BY <1>4 DEF IdleCaller
  <2>2. caller[d].own \in Calls /\ caller[d].own # None /\ caller[d].own # caller[c].own
    BY <1>1, <2>1, CollectorTypes DEF OwnsApart
  <2>3. call'[caller[d].own].keys = call[caller[d].own].keys /\ call[caller[d].own].state \in Active
    BY <1>3, <1>6, <1>7, <2>1, <2>2 DEF Active
  <2> DEFINE k == call[caller[d].own].keys[n]
  <2>4. n \in DOMAIN call[caller[d].own].keys /\ k \in Keys
    BY <1>1, <2>1, <2>2, <2>3, CollectorTypes, ElementOfSeq
  <2>5. pending[k] # None /\ pending[k].call = caller[d].own
    BY <1>1, <1>2, <2>2, <2>3, <2>4 DEF OwnKeysPending
  <2> HIDE DEF k
  <2>6. pending'[k] = pending[k]
    BY <1>5, <2>2, <2>4, <2>5
  <2> QED BY <2>1, <2>3, <2>5, <2>6 DEF k
<1> QED BY <1>8, <1>10, <1>12, <1>13, <1>14 DEF CollectorInv

\* Nothing refers to a free call.
LEMMA FreeUnreferenced ==
  ASSUME CollectorInv, NEW r \in Calls, call[r].state = "free"
  PROVE  /\ \A k \in Keys : pending[k] # None => pending[k].call # r
         /\ \A c \in Callers : \A n \in DOMAIN caller[c].via : caller[c].via[n].call # r
         /\ \A c \in Callers : caller[c].own # r
<1>1. PendingPlaced /\ ViaPlaced /\ OwnsApart /\ FreeCallsEmpty
  BY DEF CollectorInv, References
<1>2. call[r].keys = << >> /\ \A e : e \in DOMAIN << >> => FALSE
  BY <1>1 DEF FreeCallsEmpty
<1>3. \A k \in Keys : pending[k] # None => pending[k].call # r
  BY <1>1, <1>2 DEF PendingPlaced
<1>4. \A c \in Callers : \A n \in DOMAIN caller[c].via : caller[c].via[n].call # r
  BY <1>1, <1>2 DEF ViaPlaced
<1>5. r # None
  BY BoundsAssumption
<1>6. \A c \in Callers : caller[c].own # r
  BY <1>1, <1>4, <1>5 DEF OwnsApart
<1> QED BY <1>3, <1>4, <1>6

\* A caller registers a call for the keys that are left: it and the calls that other
\* callers' keys are in are referred to as they should be.
LEMMA CallRegistered ==
  ASSUME CollectorInv, ~disposed, disposed' = disposed,
         NEW c \in Callers, caller[c] = IdleCaller, NEW keys \in KeyLists,
         NEW r \in Calls, call[r].state = "free",
         NEW rest, rest = Remaining(keys), rest # << >>,
         pending' = PendingWith(rest, r), Waits(c, keys, PendingWith(rest, r), r),
         call'[r].keys = rest, call'[r].state # "free",
         \A q \in Calls : q # r =>
           /\ call'[q].keys = call[q].keys
           /\ call'[q].state = "free" => call[q].state = "free"
           /\ call'[q].state \in Active => call[q].state \in Active
  PROVE  /\ References' /\ OwnKeysPending'
         /\ pending' \in [Keys -> {None} \cup [call : Calls, index : Nat]]
         /\ caller' \in [Callers -> CallerRecord]
<1>1. /\ CollectorTypeOK /\ FreeCallsEmpty /\ PendingPlaced /\ ViaPlaced /\ OwnsApart
      /\ PendingOwned /\ OwnKeysPending
      /\ caller \in [Callers -> CallerRecord]
      /\ pending \in [Keys -> {None} \cup [call : Calls, index : Nat]]
  BY DEF CollectorInv, References, CollectorTypeOK, CallerRecord
<1>2. /\ keys \in Seq(Keys) /\ rest \in Seq(Keys)
      /\ \A n \in DOMAIN rest :
           pending[rest[n]] = None /\ \E i \in DOMAIN keys : keys[i] = rest[n]
      /\ \A i \in DOMAIN keys : pending[keys[i]] = None => \E n \in DOMAIN rest : rest[n] = keys[i]
  BY <1>1, RemainingProperties
<1>3. /\ pending' \in [Keys -> {None} \cup [call : Calls, index : Nat]]
      /\ \A k \in Keys :
           IF \E n \in DOMAIN rest : rest[n] = k
           THEN /\ pending'[k] # None
                /\ pending'[k].call = r
                /\ pending'[k].index \in DOMAIN rest
                /\ rest[pending'[k].index] = k
           ELSE pending'[k] = pending[k]
  BY <1>1, <1>2, PendingWithProperties
<1>4. /\ \A k \in Keys : pending[k] # None => pending[k].call # r
      /\ \A d \in Callers : \A n \in DOMAIN caller[d].via : caller[d].via[n].call # r
      /\ \A d \in Callers : caller[d].own # r
  BY FreeUnreferenced
<1>5. /\ \A i \in DOMAIN keys : keys[i] \in Keys
      /\ \A n \in DOMAIN rest : rest[n] \in Keys
  BY <1>2, ElementOfSeq
<1>6. \A i \in DOMAIN keys : pending'[keys[i]] # None
  BY <1>2, <1>3, <1>5
<1> DEFINE via == [n \in DOMAIN keys |-> pending'[keys[n]]]
<1>7. via \in Seq([call : Calls, index : Nat])
  <2> DEFINE R == [call : Calls, index : Nat]
  <2>1. \A i \in DOMAIN keys : pending'[keys[i]] \in R
    BY <1>3, <1>5, <1>6
  <2> HIDE DEF R
  <2>2. Len(keys) \in Nat /\ DOMAIN keys = 1 .. Len(keys)
    BY <1>2, LenProperties
  <2> QED BY <2>1, <2>2 DEF R
<1>8. \A n \in DOMAIN keys : via[n] = pending'[keys[n]]
  OBVIOUS
<1>9. DOMAIN via = DOMAIN keys
  OBVIOUS
<1> DEFINE new == [keys |-> keys, via |-> via, own |-> r]
<1>10. caller' = [caller EXCEPT ![c] = new]
  BY DEF Waits
<1> HIDE DEF via
<1>11. new \in CallerRecord /\ new.keys = keys /\ new.via = via /\ new.own = r
  BY <1>2, <1>7 DEF CallerRecord
<1> HIDE DEF new
<1>12. /\ caller' \in [Callers -> CallerRecord]
       /\ \A d \in Callers : caller'[d] = IF d = c THEN new ELSE caller[d]
  BY <1>1, <1>10, <1>11
<1>13. r # None
  BY BoundsAssumption
<1>14. caller[c].own = None
  BY DEF IdleCaller
<1>15. \A k \in Keys : pending'[k] # None =>
         /\ pending'[k].index \in DOMAIN call'[pending'[k].call].keys
         /\ call'[pending'[k].call].keys[pending'[k].index] = k
  <2> SUFFICES ASSUME NEW k \in Keys, pending'[k] # None
               PROVE  /\ pending'[k].index \in DOMAIN call'[pending'[k].call].keys
                      /\ call'[pending'[k].call].keys[pending'[k].index] = k
    OBVIOUS
  <2>1. CASE \E n \in DOMAIN rest : rest[n] = k
    BY <1>3, <2>1
  <2>2. CASE ~ \E n \in DOMAIN rest : rest[n] = k
    <3>1. pending'[k] = pending[k] /\ pending[k] # None
      BY <1>3, <2>2
    <3>2. pending[k].call \in Calls /\ pending[k].call # r
      BY <1>1, <1>4, <3>1, CollectorTypes
    <3> QED BY <1>1, <3>1, <3>2 DEF PendingPlaced
  <2> QED BY <2>1, <2>2
<1>16. PendingPlaced'
  BY <1>15 DEF PendingPlaced
<1>17. ViaPlaced'
  <2> SUFFICES ASSUME NEW d \in Callers, NEW n \in DOMAIN caller'[d].via
               PROVE  /\ caller'[d].via[n].index \in DOMAIN call'[caller'[d].via[n].call].keys
                      /\ call'[caller'[d].via[n].call].keys[caller'[d].via[n].index]
                           = caller'[d].keys[n]
    BY DEF ViaPlaced
  <2>1. CASE d = c
    <3>1. caller'[d].via = via /\ caller'[d].keys = keys
      BY <1>11, <1>12, <2>1
    <3>2. n \in DOMAIN keys /\ via[n] = pending'[keys[n]]
      BY <1>8, <1>9, <3>1
    <3> QED BY <1>5, <1>6, <1>15, <3>1, <3>2
  <2>2. CASE d # c
    <3>1. caller'[d] = caller[d]
      BY <1>12, <2>2
    <3>2. caller[d].via[n].call \in Calls /\ caller[d].via[n].call # r
      BY <1>1, <1>4, <3>1, CollectorTypes
    <3> QED BY <1>1, <3>1, <3>2 DEF ViaPlaced
  <2> QED BY <2>1, <2>2
<1>18. OwnsApart'
  <2>1. \E n \in DOMAIN via : via[n].call = r
    <3>1. Len(rest) # 0 /\ Len(rest) \in Nat /\ DOMAIN rest = 1 .. Len(rest)
      BY <1>2, EmptySeq, LenProperties
    <3>2. 1 \in DOMAIN rest
      BY <3>1
    <3>3. PICK i \in DOMAIN keys : keys[i] = rest[1]
      BY <1>2, <3>2
    <3>4. pending'[keys[i]].call = r
      BY <1>3, <1>5, <3>2, <3>3
    <3> QED BY <1>8, <1>9, <3>4
  <2>2. ASSUME NEW d \in Callers, caller'[d].own # None
        PROVE  \E n \in DOMAIN caller'[d].via : caller'[d].via[n].call = caller'[d].own
    BY <1>1, <1>11, <1>12, <2>1, <2>2 DEF OwnsApart
  <2>3. ASSUME NEW d \in Callers, NEW e \in Callers, d # e, caller'[d].own # None
        PROVE  caller'[d].own # caller'[e].own
    BY <1>1, <1>4, <1>11, <1>12, <2>3 DEF OwnsApart
  <2> QED BY <2>2, <2>3 DEF OwnsApart
<1>19. PendingOwned'
  <2> SUFFICES ASSUME NEW k \in Keys, pending'[k] # None
               PROVE  \E d \in Callers : caller'[d].own = pending'[k].call
    BY DEF PendingOwned
  <2>1. CASE \E n \in DOMAIN rest : rest[n] = k
    <3>1. caller'[c].own = r /\ pending'[k].call = r
      BY <1>3, <1>11, <1>12, <2>1
    <3> QED BY <3>1
  <2>2. CASE ~ \E n \in DOMAIN rest : rest[n] = k
    <3>1. pending'[k] = pending[k] /\ pending[k] # None /\ pending[k].call # None
      BY <1>1, <1>3, <2>2, CollectorTypes, BoundsAssumption
    <3>2. PICK d \in Callers : caller[d].own = pending[k].call
      BY <1>1, <3>1 DEF PendingOwned
    <3>3. d # c
      BY <1>14, <3>1, <3>2
    <3> QED BY <1>12, <3>1, <3>2, <3>3
  <2> QED BY <2>1, <2>2
<1>20. FreeCallsEmpty'
  BY <1>1 DEF FreeCallsEmpty
<1>21. OwnKeysPending'
  <2> SUFFICES ASSUME NEW d \in Callers, caller'[d].own # None,
                      call'[caller'[d].own].state \in Active,
                      NEW n \in DOMAIN call'[caller'[d].own].keys
               PROVE  /\ pending'[call'[caller'[d].own].keys[n]] # None
                      /\ pending'[call'[caller'[d].own].keys[n]].call = caller'[d].own
    BY DEF OwnKeysPending
  <2>1. CASE d = c
    <3>1. caller'[d].own = r
      BY <1>11, <1>12, <2>1
    <3> QED BY <1>3, <1>5, <3>1
  <2>2. CASE d # c
    <3>1. caller'[d] = caller[d] /\ caller[d].own # None
      BY <1>12, <2>2
    <3>2. caller[d].own \in Calls /\ caller[d].own # r
      BY <1>1, <1>4, <3>1, CollectorTypes
    <3>3. /\ call'[caller[d].own].keys = call[caller[d].own].keys
          /\ call[caller[d].own].state \in Active
      BY <3>1, <3>2
    <3> DEFINE k == call[caller[d].own].keys[n]
    <3>4. n \in DOMAIN call[caller[d].own].keys /\ k \in Keys
      BY <1>1, <3>1, <3>2, <3>3, CollectorTypes, ElementOfSeq
    <3>5. pending[k] # None /\ pending[k].call = caller[d].own
      BY <1>1, <3>1, <3>3, <3>4 DEF OwnKeysPending
    <3> HIDE DEF k
    <3>6. pending'[k] = pending[k]
      BY <1>2, <1>3, <3>4, <3>5
    <3> QED BY <3>1, <3>3, <3>5, <3>6 DEF k
  <2> QED BY <2>1, <2>2
<1> QED BY <1>3, <1>12, <1>16, <1>17, <1>18, <1>19, <1>20, <1>21 DEF References

LEMMA CollectPendingStep ==
  ASSUME CollectorInv, NEW c \in Callers, NEW keys \in KeyLists, CollectPending(c, keys)
  PROVE  CollectorInv'
<1>1. /\ CollectorTypeOK /\ FreeCallsEmpty /\ PendingPlaced /\ ViaPlaced /\ OwnsApart
      /\ PendingOwned /\ OwnKeysPending /\ Counted /\ Batches
      /\ caller \in [Callers -> CallerRecord]
      /\ pending \in [Keys -> {None} \cup [call : Calls, index : Nat]]
  BY DEF CollectorInv, References, CollectorTypeOK, CallerRecord
<1>2. /\ caller[c] = IdleCaller /\ Remaining(keys) = << >>
      /\ Waits(c, keys, pending, None)
      /\ UNCHANGED <<pending, waitingEntries, timer, batchSupported, activeRegisterCalls,
                     activeConsumeCalls, call, consume, disposed>>
  BY DEF CollectPending, Idle
<1>3. /\ keys \in Seq(Keys) /\ Len(keys) \in Nat /\ DOMAIN keys = 1 .. Len(keys)
      /\ \A i \in DOMAIN keys : keys[i] \in Keys
  BY <1>1, RemainingProperties, LenProperties, ElementOfSeq
<1>4. \A i \in DOMAIN keys : pending[keys[i]] # None
  <2>1. \A e : e \in DOMAIN << >> => FALSE
    OBVIOUS
  <2> QED BY <1>1, <1>2, <2>1, RemainingProperties
<1> DEFINE via == [n \in DOMAIN keys |-> pending[keys[n]]]
<1>5. via \in Seq([call : Calls, index : Nat])
  <2> DEFINE R == [call : Calls, index : Nat]
  <2>1. \A i \in DOMAIN keys : pending[keys[i]] \in R
    BY <1>1, <1>3, <1>4
  <2> HIDE DEF R
  <2> QED BY <1>3, <2>1 DEF R
<1>6. DOMAIN via = DOMAIN keys /\ \A n \in DOMAIN keys : via[n] = pending[keys[n]]
  OBVIOUS
<1> DEFINE new == [keys |-> keys, via |-> via, own |-> None]
<1>7. caller' = [caller EXCEPT ![c] = new]
  BY <1>2 DEF Waits
<1> HIDE DEF via
<1>8. new \in CallerRecord /\ new.keys = keys /\ new.via = via /\ new.own = None
  BY <1>3, <1>5 DEF CallerRecord
<1> HIDE DEF new
<1>9. /\ caller' \in [Callers -> CallerRecord]
      /\ \A d \in Callers : caller'[d] = IF d = c THEN new ELSE caller[d]
  BY <1>1, <1>7, <1>8
<1>10. caller[c].own = None
  BY <1>2 DEF IdleCaller
<1>11. CollectorTypeOK'
  BY <1>1, <1>2, <1>9 DEF CollectorTypeOK, CallerRecord
<1>12. ViaPlaced'
  <2> SUFFICES ASSUME NEW d \in Callers, NEW n \in DOMAIN caller'[d].via
               PROVE  /\ caller'[d].via[n].index \in DOMAIN call'[caller'[d].via[n].call].keys
                      /\ call'[caller'[d].via[n].call].keys[caller'[d].via[n].index]
                           = caller'[d].keys[n]
    BY DEF ViaPlaced
  <2>1. call' = call
    BY <1>2
  <2>2. CASE d = c
    <3>1. caller'[d].via = via /\ caller'[d].keys = keys
      BY <1>8, <1>9, <2>2
    <3>2. n \in DOMAIN keys /\ via[n] = pending[keys[n]]
      BY <1>6, <3>1
    <3> QED BY <1>1, <1>3, <1>4, <2>1, <3>1, <3>2 DEF PendingPlaced
  <2>3. CASE d # c
    BY <1>1, <1>9, <2>1, <2>3 DEF ViaPlaced
  <2> QED BY <2>2, <2>3
<1>13. OwnsApart'
  BY <1>1, <1>8, <1>9 DEF OwnsApart
<1>14. PendingOwned'
  <2> SUFFICES ASSUME NEW k \in Keys, pending'[k] # None
               PROVE  \E d \in Callers : caller'[d].own = pending'[k].call
    BY DEF PendingOwned
  <2>1. pending'[k] = pending[k] /\ pending[k].call # None
    BY <1>1, <1>2, CollectorTypes, BoundsAssumption
  <2>2. PICK d \in Callers : caller[d].own = pending[k].call
    BY <1>1, <2>1 DEF PendingOwned
  <2> QED BY <1>9, <1>10, <2>1, <2>2
<1>15. FreeCallsEmpty' /\ PendingPlaced'
  BY <1>1, <1>2 DEF FreeCallsEmpty, PendingPlaced
<1>16. OwnKeysPending'
  <2>1. pending' = pending /\ call' = call /\ disposed' = disposed
    BY <1>2
  <2>2. \A d \in Callers : caller'[d].own # None => caller'[d].own = caller[d].own
    BY <1>8, <1>9
  <2> QED BY <1>1, <2>1, <2>2 DEF OwnKeysPending
<1>17. Batches'
  <2>1. ResultsMatch'
    BY <1>1, <1>2 DEF Batches, ResultsMatch
  <2> QED BY <1>2, <2>1, EntriesStay
<1>18. Counted'
  BY <1>1, <1>2, SameActive, SameRunning DEF Counted
<1> QED BY <1>11, <1>12, <1>13, <1>14, <1>15, <1>16, <1>17, <1>18 DEF CollectorInv, References

LEMMA CollectRegisteringStep ==
  ASSUME CollectorInv, NEW c \in Callers, NEW keys \in KeyLists, CollectRegistering(c, keys)
  PROVE  CollectorInv'
<1> DEFINE rest == Remaining(keys)
           r == NextCall
           new == NewCall("waiting", rest, None)
<1>1. /\ CollectorTypeOK /\ WaitingKnown /\ ConsumedKnown /\ EntriesApart /\ ResultsMatch /\ Counted
      /\ call \in [Calls -> CallRecord] /\ waitingEntries \in Seq(Calls)
      /\ \A s \in Consumes : consume[s].entries \in Seq(Calls)
  BY CollectorTypes DEF CollectorInv, CollectorTypeOK, CallRecord, Batches
<1>2. /\ caller[c] = IdleCaller /\ ~disposed /\ rest # << >>
      /\ call' = [call EXCEPT ![r] = new]
      /\ waitingEntries' = Append(waitingEntries, r)
      /\ timer' = TRUE
      /\ activeRegisterCalls' = activeRegisterCalls + 1
      /\ pending' = PendingWith(rest, r)
      /\ Waits(c, keys, PendingWith(rest, r), r)
      /\ UNCHANGED <<batchSupported, activeConsumeCalls, consume, disposed>>
  BY DEF CollectRegistering, Idle
<1>3. r \in Calls /\ call[r].state = "free"
  BY NextFree DEF CollectRegistering
<1>4. rest \in Seq(Keys)
  BY <1>1, RemainingProperties
<1> HIDE DEF rest, r
<1>5. new \in CallRecord /\ new.state = "waiting" /\ new.keys = rest
  BY <1>4, NewRecords DEF NewCall
<1> HIDE DEF new
<1>6. /\ call' \in [Calls -> CallRecord]
      /\ \A q \in Calls : call'[q] = IF q = r THEN new ELSE call[q]
  BY <1>1, <1>2, <1>5
<1>7. /\ References' /\ OwnKeysPending'
      /\ pending' \in [Keys -> {None} \cup [call : Calls, index : Nat]]
      /\ caller' \in [Callers -> CallerRecord]
  <2>1. /\ call'[r].keys = rest /\ call'[r].state # "free"
        /\ \A q \in Calls : q # r =>
             /\ call'[q].keys = call[q].keys
             /\ call'[q].state = "free" => call[q].state = "free"
             /\ call'[q].state \in Active => call[q].state \in Active
    BY <1>3, <1>5, <1>6
  <2>2. disposed' = disposed
    BY <1>2
  <2> QED BY <1>2, <1>3, <2>1, <2>2, CallRegistered DEF rest
<1>8. /\ waitingEntries' \in Seq(Calls) /\ waitingEntries' # << >>
      /\ \A n \in DOMAIN waitingEntries' :
           \/ n \in DOMAIN waitingEntries /\ waitingEntries'[n] = waitingEntries[n]
           \/ waitingEntries'[n] = r
  BY <1>1, <1>2, <1>3
<1>9. CollectorTypeOK'
  <2>1. activeRegisterCalls' \in Nat
    BY <1>1, <1>2 DEF CollectorTypeOK
  <2> QED BY <1>1, <1>2, <1>6, <1>7, <1>8, <2>1 DEF CollectorTypeOK, CallRecord, CallerRecord
<1>10. Batches'
  <2>1. WaitingKnown' /\ (timer' <=> waitingEntries' # << >>)
    <3>1. \A n \in DOMAIN waitingEntries : waitingEntries[n] \in Calls
      BY <1>1, ElementOfSeq
    <3>2. WaitingKnown'
      BY <1>1, <1>3, <1>5, <1>6, <1>8, <3>1 DEF WaitingKnown
    <3> QED BY <1>2, <1>8, <3>2
  <2>2. ConsumedKnown'
    <3>1. \A s \in Consumes : \A n \in DOMAIN consume[s].entries : consume[s].entries[n] \in Calls
      BY <1>1, ElementOfSeq
    <3> QED BY <1>1, <1>2, <1>3, <1>6, <3>1 DEF ConsumedKnown
  <2>3. EntriesApart' /\ ResultsMatch'
    BY <1>1, <1>2, <1>5, <1>6 DEF EntriesApart, ResultsMatch
  <2> QED BY <2>1, <2>2, <2>3 DEF Batches
<1>11. Counted'
  <2>1. ActiveCalls' = ActiveCalls \cup {r} /\ r \notin ActiveCalls
    BY <1>3, <1>5, <1>6 DEF ActiveCalls, Active
  <2>2. Cardinality(ActiveCalls \cup {r}) = Cardinality(ActiveCalls) + 1
    BY <2>1, FiniteCounts, FS_AddElement
  <2>3. RunningConsumes' = RunningConsumes
    BY <1>2, SameRunning
  <2> QED BY <1>1, <1>2, <2>1, <2>2, <2>3 DEF Counted
<1> QED BY <1>7, <1>9, <1>10, <1>11 DEF CollectorInv

LEMMA CollectFlushingStep ==
  ASSUME CollectorInv, NEW c \in Callers, NEW keys \in KeyLists, CollectFlushing(c, keys)
  PROVE  CollectorInv'
<1> DEFINE rest == Remaining(keys)
           r == NextCall
           s == NextConsume
           new == NewCall("draining", rest, s)
           moved == WithState(call, Range(waitingEntries), "consumed")
<1>1. /\ CollectorTypeOK /\ WaitingKnown /\ ConsumedKnown /\ EntriesApart /\ ResultsMatch /\ Counted
      /\ call \in [Calls -> CallRecord] /\ waitingEntries \in Seq(Calls)
      /\ \A t \in Consumes : consume[t].entries \in Seq(Calls)
  BY CollectorTypes DEF CollectorInv, CollectorTypeOK, CallRecord, Batches
<1>2. /\ caller[c] = IdleCaller /\ ~disposed /\ rest # << >>
      /\ consume' = Consumed(s, call)
      /\ call' = [moved EXCEPT ![r] = new]
      /\ waitingEntries' = << >> /\ timer' = FALSE
      /\ activeRegisterCalls' = activeRegisterCalls + 1
      /\ activeConsumeCalls' = activeConsumeCalls + 1
      /\ pending' = PendingWith(rest, r)
      /\ Waits(c, keys, PendingWith(rest, r), r)
      /\ UNCHANGED <<batchSupported, disposed>>
  BY DEF CollectFlushing, Idle
<1>3. /\ r \in Calls /\ call[r].state = "free"
      /\ s \in Consumes /\ consume[s] = NoConsume
  BY NextFree DEF CollectFlushing
<1>4. rest \in Seq(Keys)
  BY <1>1, RemainingProperties
<1>5. waitingEntries # << >>
  <2>1. Len(KeysOf(waitingEntries, call)) > 0
    BY DEF CollectFlushing, Overflows
  <2>2. waitingEntries = << >> => KeysOf(waitingEntries, call) = << >>
    BY <1>1, KeysOfType, CollectorTypes
  <2> QED BY <2>1, <2>2
<1> HIDE DEF rest, r, s
<1>6. new \in CallRecord /\ new.state = "draining" /\ new.keys = rest
  BY <1>3, <1>4, NewRecords DEF NewCall
<1> HIDE DEF new
<1>7. /\ Range(waitingEntries) \in SUBSET Calls
      /\ \A q \in Range(waitingEntries) : call[q].state = "waiting"
  BY <1>1, RangeOfEntries DEF WaitingKnown
<1>8. /\ moved \in [Calls -> CallRecord]
      /\ \A q \in Calls :
           /\ moved[q].keys = call[q].keys /\ moved[q].results = call[q].results
           /\ moved[q].state = IF q \in Range(waitingEntries) THEN "consumed" ELSE call[q].state
  BY <1>1, <1>7, WithStateEffect DEF CallStates
<1> HIDE DEF moved
<1>9. /\ call' \in [Calls -> CallRecord]
      /\ \A q \in Calls : call'[q] = IF q = r THEN new ELSE moved[q]
  BY <1>2, <1>6, <1>8
<1>10. r \notin Range(waitingEntries)
  BY <1>3, <1>7
<1>11. \A q \in Calls : q # r =>
         /\ call'[q].keys = call[q].keys
         /\ call'[q].state = "free" => call[q].state = "free"
         /\ call'[q].state \in Active <=> call[q].state \in Active
  BY <1>7, <1>8, <1>9 DEF Active
<1>12. /\ References' /\ OwnKeysPending'
       /\ pending' \in [Keys -> {None} \cup [call : Calls, index : Nat]]
       /\ caller' \in [Callers -> CallerRecord]
  <2>1. call'[r].keys = rest /\ call'[r].state # "free"
    BY <1>3, <1>6, <1>9
  <2>2. disposed' = disposed
    BY <1>2
  <2> QED BY <1>2, <1>3, <1>11, <2>1, <2>2, CallRegistered DEF rest
<1>13. /\ consume' \in [Consumes -> ConsumeRecord] /\ EntriesApart'
       /\ \A t \in Consumes : \A n \in DOMAIN consume'[t].entries :
            call[consume'[t].entries[n]].state = "consumed"
              \/ consume'[t].entries[n] \in Range(waitingEntries)
       /\ RunningConsumes' = RunningConsumes \cup {s} /\ s \notin RunningConsumes
  BY <1>2, <1>3, <1>5, EntriesConsumed
<1>14. CollectorTypeOK'
  <2>1. activeRegisterCalls' \in Nat /\ activeConsumeCalls' \in Nat
    BY <1>1, <1>2 DEF CollectorTypeOK
  <2>2. << >> \in Seq(Calls)
    OBVIOUS
  <2>3. {timer', batchSupported', disposed'} \subseteq BOOLEAN
    BY <1>1, <1>2 DEF CollectorTypeOK
  <2> QED BY <1>2, <1>9, <1>12, <1>13, <2>1, <2>2, <2>3
      DEF CollectorTypeOK, CallRecord, ConsumeRecord, CallerRecord
<1>15. Batches'
  <2>1. ConsumedKnown'
    <3>1. \A t \in Consumes : consume'[t].entries \in Seq(Calls)
      BY <1>13 DEF ConsumeRecord
    <3>2. \A t \in Consumes : \A n \in DOMAIN consume'[t].entries : consume'[t].entries[n] \in Calls
      BY <3>1, ElementOfSeq
    <3>3. ASSUME NEW t \in Consumes, NEW n \in DOMAIN consume'[t].entries
          PROVE  call'[consume'[t].entries[n]].state = "consumed"
      <4> DEFINE q == consume'[t].entries[n]
      <4>1. q \in Calls /\ (call[q].state = "consumed" \/ q \in Range(waitingEntries))
        BY <1>13, <3>2, <3>3
      <4> HIDE DEF q
      <4>2. q # r
        BY <1>3, <1>10, <4>1
      <4>3. call'[q].state = "consumed"
        BY <1>8, <1>9, <4>1, <4>2
      <4> QED BY <4>3 DEF q
    <3> QED BY <3>3 DEF ConsumedKnown
  <2>2. ResultsMatch'
    BY <1>1, <1>6, <1>8, <1>9 DEF ResultsMatch
  <2>3. WaitingKnown' /\ (timer' <=> waitingEntries' # << >>)
    BY <1>2 DEF WaitingKnown
  <2> QED BY <1>13, <2>1, <2>2, <2>3 DEF Batches
<1>16. Counted'
  <2>1. ActiveCalls' = ActiveCalls \cup {r} /\ r \notin ActiveCalls
    <3>1. call'[r].state \in Active /\ call[r].state \notin Active
      BY <1>3, <1>6, <1>9 DEF Active
    <3> QED BY <1>3, <1>11, <3>1 DEF ActiveCalls
  <2>2. Cardinality(ActiveCalls \cup {r}) = Cardinality(ActiveCalls) + 1
    BY <2>1, FiniteCounts, FS_AddElement
  <2>3. Cardinality(RunningConsumes \cup {s}) = Cardinality(RunningConsumes) + 1
    BY <1>13, FiniteCounts, FS_AddElement
  <2> QED BY <1>1, <1>2, <1>13, <2>1, <2>2, <2>3 DEF Counted
<1> QED BY <1>12, <1>14, <1>15, <1>16 DEF CollectorInv

LEMMA CollectorInvariance == CollectorInv /\ [CollectorNext]_collectorVars => CollectorInv'
<1> SUFFICES ASSUME CollectorInv, [CollectorNext]_collectorVars PROVE CollectorInv'
  OBVIOUS
<1>1. ASSUME NEW c \in Callers, Collect(c) \/ CallerSettles(c) PROVE CollectorInv'
  BY <1>1, CollectPendingStep, CollectRegisteringStep, CollectFlushingStep, CallerSettlesStep
  DEF Collect
<1>2. CASE TimerFires
  BY <1>2, TimerFiresStep
<1>3. ASSUME NEW r \in Calls, RegisterPushes(r) \/ RegisterReturns(r) PROVE CollectorInv'
  BY <1>3, RegisterPushesStep, RegisterReturnsStep
<1>4. ASSUME NEW s \in Consumes, NEW n \in DOMAIN consume[s].chunks,
             ChunkSettles(s, n) \/ ChunkUnsupported(s, n)
      PROVE  CollectorInv'
  BY <1>4, ChunkSettlesStep
<1>5. CASE Dispose
  BY <1>5, DisposeStep
<1>6. CASE NewCollector
  BY <1>6, NewCollectorStep
<1>7. CASE UNCHANGED collectorVars
  <2>1. /\ CollectorTypeOK /\ Batches /\ References /\ OwnKeysPending /\ Counted
    BY DEF CollectorInv
  <2>2. UNCHANGED <<pending, waitingEntries, timer, batchSupported, activeRegisterCalls,
                    activeConsumeCalls, call, consume, caller, disposed>>
    BY <1>7 DEF collectorVars
  <2>3. CollectorTypeOK'
    BY <2>1, <2>2 DEF CollectorTypeOK
  <2>4. Batches'
    BY <2>1, <2>2 DEF Batches, WaitingKnown, ConsumedKnown, EntriesApart, ResultsMatch
  <2>5. References'
    BY <2>1, <2>2
    DEF References, FreeCallsEmpty, PendingPlaced, ViaPlaced, OwnsApart, PendingOwned
  <2>6. OwnKeysPending'
    BY <2>1, <2>2 DEF OwnKeysPending
  <2>7. Counted'
    BY <2>1, <2>2, SameActive, SameRunning DEF Counted
  <2> QED BY <2>3, <2>4, <2>5, <2>6, <2>7 DEF CollectorInv
<1> QED BY <1>1, <1>2, <1>3, <1>4, <1>5, <1>6, <1>7 DEF CollectorNext

\* CollectorInv is an invariant of the collector.
LEMMA CollectorInvariant == CollectorSpec => []CollectorInv
BY CollectorInvInit, CollectorInvariance, PTL DEF CollectorSpec

\* The collector's state has its types: calls, entries, chunks and counters.
THEOREM CollectorTypeCorrect == CollectorSpec => []CollectorTypeOK
<1>1. CollectorInv => CollectorTypeOK
  BY DEF CollectorInv
<1> QED BY <1>1, CollectorInvariant, PTL

\* RequestCollector forgets nothing: the timer is set exactly while entries wait, and a
\* key is pending only while the collectMany that registered it is in progress.
THEOREM NothingLeftWaiting == CollectorSpec => []NothingForgotten
<1>1. CollectorInv => NothingForgotten
  BY DEF CollectorInv, Batches, References, PendingOwned, NothingForgotten
<1> QED BY <1>1, CollectorInvariant, PTL

\* Every answer belongs to its key: through flattening, chunking, slicing and the index
\* kept in pending, for any lists, batch size and number of callers.
THEOREM AnswersBelong == CollectorSpec => []AnswersMatch
<1>1. CollectorInv => AnswersMatch
  BY DEF CollectorInv, Batches, References, ResultsMatch, ViaPlaced, AnswersMatch
<1> QED BY <1>1, CollectorInvariant, PTL

\* The counters that decide onIdle count what is in progress, and no key is fetched
\* twice at a time for two callers that both still wait.
THEOREM FetchesKnown == CollectorSpec => []FetchesAccounted
<1>1. ASSUME CollectorInv PROVE FetchesAccounted
  <2>1. CollectorTypeOK /\ OwnsApart /\ OwnKeysPending /\ Counted
    BY <1>1 DEF CollectorInv, References
  <2>2. ASSUME ~disposed, NEW c \in Callers, NEW d \in Callers, c # d,
               caller[c].own # None, caller[d].own # None,
               call[caller[c].own].state \in Active, call[caller[d].own].state \in Active
        PROVE  Range(call[caller[c].own].keys) \cap Range(call[caller[d].own].keys) = {}
    <3>1. caller[c].own # caller[d].own
      BY <2>1, <2>2 DEF OwnsApart
    <3>2. \A x \in Range(call[caller[c].own].keys) : pending[x].call = caller[c].own
      BY <2>1, <2>2 DEF OwnKeysPending, Range
    <3>3. \A x \in Range(call[caller[d].own].keys) : pending[x].call = caller[d].own
      BY <2>1, <2>2 DEF OwnKeysPending, Range
    <3> QED BY <3>1, <3>2, <3>3
  <2> QED BY <2>1, <2>2 DEF FetchesAccounted, Counted, ActiveCalls, RunningConsumes
<1> QED BY <1>1, CollectorInvariant, PTL
=============================================================================
