--------------------------- MODULE OperationQueue ---------------------------
(***************************************************************************)
(* utils/src/operation-queue/OperationQueue.ts: a queue of asynchronous     *)
(* operations, at most one of which runs at a time.  An entry already       *)
(* queued is replaced in place by a newer one whose id it conforms to.      *)
(*                                                                         *)
(* JavaScript runs `enqueue' without interruption, and also the stretch of  *)
(* `processQueue' between two awaits: each is one action.  The subclass     *)
(* hooks `conforms' and `purge' are the constants Conforms and Purging.     *)
(***************************************************************************)
EXTENDS Subsequences

CONSTANTS
  Ids,                 \* the ids an operation may be enqueued under
  Operations,          \* the closures handed to enqueue
  NoOperation,         \* the history value of an id never accepted
  Conforms(_, _, _),   \* conforms(oldId, newId, strict)
  Purging              \* does the class override purge?

ASSUME ConformsAssumption ==
  /\ \A x \in Ids : Conforms(x, x, FALSE)
  /\ \A x, y, z \in Ids :
       Conforms(x, y, FALSE) /\ Conforms(y, z, FALSE) => Conforms(x, z, FALSE)
  /\ \A x, y \in Ids : Conforms(x, y, TRUE) => x = y

\* A class that leaves purge empty may not have one id cover another.
ASSUME PurgeAssumption ==
  /\ Purging \in BOOLEAN
  /\ ~Purging => \A x, y \in Ids : Conforms(x, y, FALSE) => x = y

ASSUME NoOperationAssumption == NoOperation \notin Operations

VARIABLES
  queue,             \* this.queue, the entry's timestamp (a log field) left out
  isProcessing,      \* this.isProcessing
  activeOperations,  \* this.activeOperations
  awaited,           \* the entries whose operation() some processQueue call awaits
  latest             \* history: the operation last accepted for each id

vars == <<queue, isProcessing, activeOperations, awaited, latest>>

Entry == [id : Ids, operation : Operations]

TypeOK ==
  /\ queue \in Seq(Entry)
  /\ isProcessing \in BOOLEAN
  /\ activeOperations \subseteq Ids
  /\ awaited \subseteq Entry
  /\ latest \in [Ids -> Operations \cup {NoOperation}]

Init ==
  /\ queue = << >>
  /\ isProcessing = FALSE
  /\ activeOperations = {}
  /\ awaited = {}
  /\ latest = [x \in Ids |-> NoOperation]

-----------------------------------------------------------------------------
\* findIndex: the first position whose id conforms to newId.
Conforming(newId) == {i \in DOMAIN queue : Conforms(queue[i].id, newId, FALSE)}
\* Mutant of First: findLastIndex.
LastConforming(S) == CHOOSE i \in S : \A j \in S : i >= j
First(S) == CHOOSE i \in S : \A j \in S : i <= j

\* Mutant of Purge: the replaced entry itself is spliced out too.
PurgeOffByOne(q, k, newId) ==
  IF Purging
  THEN Keep(q, {i \in DOMAIN q : i >= k => ~Conforms(q[i].id, newId, FALSE)})
  ELSE q

\* purge(k, newId): the entries behind k that conform to newId are spliced out.
Purge(q, k, newId) ==
  IF Purging
  THEN Keep(q, {i \in DOMAIN q : i > k => ~Conforms(q[i].id, newId, FALSE)})
  ELSE q

\* Mutant of ProcessNext: isProcessing stays up when the loop ends.
ProcessNextNoReset(q, active, waiting) ==
  IF q = << >>
  THEN /\ queue' = q
       /\ isProcessing' = TRUE
       /\ activeOperations' = active
       /\ awaited' = waiting
  ELSE /\ queue' = Tail(q)
       /\ isProcessing' = TRUE
       /\ activeOperations' = active \cup {Head(q).id}
       /\ awaited' = waiting \cup {Head(q)}

\* Mutant of ProcessNext: the closure is added to activeOperations, not the id.
ProcessNextAddsOperation(q, active, waiting) ==
  /\ queue' = IF q = << >> THEN q ELSE Tail(q)
  /\ isProcessing' = (q # << >>)
  /\ activeOperations' = IF q = << >> THEN active ELSE active \cup {Head(q).operation}
  /\ awaited' = IF q = << >> THEN waiting ELSE waiting \cup {Head(q)}

\* One turn of processQueue's loop on the queue q: shift the head and call it,
\* or leave the loop.
ProcessNext(q, active, waiting) ==
  IF q = << >>
  THEN /\ queue' = q
       /\ isProcessing' = FALSE
       /\ activeOperations' = active
       /\ awaited' = waiting
  ELSE /\ queue' = Tail(q)
       /\ isProcessing' = TRUE
       /\ activeOperations' = active \cup {Head(q).id}
       /\ awaited' = waiting \cup {Head(q)}

-----------------------------------------------------------------------------
\* Mutant of Replace: the entry gets the new id and keeps its old operation.
ReplaceIdOnly(newId, operation) ==
  /\ Conforming(newId) # {}
  /\ LET k == First(Conforming(newId))
     IN  queue' = Purge([queue EXCEPT ![k].id = newId], k, newId)
  /\ latest' = [latest EXCEPT ![newId] = operation]
  /\ UNCHANGED <<isProcessing, activeOperations, awaited>>

\* enqueue: an entry that conforms to newId takes its id and operation.
Replace(newId, operation) ==
  /\ Conforming(newId) # {}
  /\ LET k == First(Conforming(newId))
     IN  queue' = Purge([queue EXCEPT ![k] = [id |-> newId, operation |-> operation]],
                        k, newId)
  /\ latest' = [latest EXCEPT ![newId] = operation]
  /\ UNCHANGED <<isProcessing, activeOperations, awaited>>

\* The condition under which enqueue answers false.
Refused(newId, canAddWhenIsRunning) ==
  /\ ~canAddWhenIsRunning
  /\ \E a \in activeOperations : Conforms(a, newId, TRUE)

\* enqueue: false, the same id is running.
Refuse(newId, canAddWhenIsRunning) ==
  /\ Conforming(newId) = {}
  /\ Refused(newId, canAddWhenIsRunning)
  /\ UNCHANGED vars

\* Mutant of ProcessQueue: no isProcessing guard.
ProcessQueueUnguarded(q) == ProcessNext(q, activeOperations, awaited)

\* processQueue, up to its first await: nothing if another call is in its loop.
ProcessQueue(q) ==
  IF isProcessing
  THEN queue' = q /\ UNCHANGED <<isProcessing, activeOperations, awaited>>
  ELSE ProcessNext(q, activeOperations, awaited)

\* enqueue: a new entry at the end, and processQueue is called.
Push(newId, operation, canAddWhenIsRunning) ==
  /\ Conforming(newId) = {}
  /\ ~Refused(newId, canAddWhenIsRunning)
  /\ ProcessQueue(Append(queue, [id |-> newId, operation |-> operation]))
  /\ latest' = [latest EXCEPT ![newId] = operation]

\* Mutant of Settle: finally deletes the id of the entry shifted next.
SettleDeletesNext(e) ==
  /\ e \in awaited
  /\ ProcessNext(queue, IF queue = << >> THEN activeOperations
                        ELSE activeOperations \ {Head(queue).id}, awaited \ {e})
  /\ UNCHANGED latest

\* The awaited operation of e settles, fulfilled or rejected alike (the error is
\* caught and logged); processQueue goes on with the next entry or returns.
Settle(e) ==
  /\ e \in awaited
  /\ ProcessNext(queue, activeOperations \ {e.id}, awaited \ {e})
  /\ UNCHANGED latest

Next ==
  \/ \E x \in Ids, o \in Operations : Replace(x, o)
  \/ \E x \in Ids, can \in BOOLEAN : Refuse(x, can)
  \/ \E x \in Ids, o \in Operations, can \in BOOLEAN : Push(x, o, can)
  \/ \E e \in awaited : Settle(e)

\* Callers may stop calling; an operation that was called settles.
Fairness == WF_vars(\E e \in awaited : Settle(e))

Spec == Init /\ [][Next]_vars /\ Fairness

-----------------------------------------------------------------------------
\* No wakeup is lost and no second loop is started: processQueue's flag is up
\* exactly while one operation is awaited, and that is so whenever an entry waits.
SingleFlight ==
  /\ isProcessing <=> awaited # {}
  /\ \A d, e \in awaited : d = e
  /\ activeOperations = {e.id : e \in awaited}
  /\ queue # << >> => isProcessing

\* No queued entry is covered by one behind it: enqueue would have replaced it,
\* and purge removes what a replacement covers.
NoCoveredEntry ==
  \A i, j \in DOMAIN queue :
    i < j => ~Conforms(queue[i].id, queue[j].id, FALSE)

\* A queued entry carries the operation of the last accepted call for its id:
\* no replacement is lost and no older closure comes back.
FreshOperation ==
  \A i \in DOMAIN queue : queue[i].operation = latest[queue[i].id]

\* id x is served by the queue no later than position i.
WaitsAtMost(q, x, i) == \E j \in DOMAIN q : j <= i /\ Conforms(x, q[j].id, FALSE)

\* A step never sends a waiting id back: after it an entry that covers the id
\* stands at the same place or nearer the head, or has just been called.
NeverOvertaken ==
  [][ \A i \in DOMAIN queue :
        \/ WaitsAtMost(queue', queue[i].id, i)
        \/ \E e \in awaited' : e = queue[i] ]_vars

\* Every id that waits is eventually run, by its own operation or by one that
\* covers it, however many calls keep coming.
EventuallyRun ==
  \A x \in Ids :
    (\E i \in DOMAIN queue : queue[i].id = x)
      ~> (\E a \in activeOperations : Conforms(x, a, FALSE))
=============================================================================
