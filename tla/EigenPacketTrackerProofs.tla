---------------------- MODULE EigenPacketTrackerProofs ----------------------
(***************************************************************************)
(* Theorems about the packet tracker, for every bus, every set of commands *)
(* and every bound.                                                        *)
(***************************************************************************)
EXTENDS EigenPacketTracker, SequenceTheorems, FiniteSetTheorems,
        WellFoundedInduction, TLAPS

-----------------------------------------------------------------------------
(***************************************************************************)
(* What the operations do to the queue.                                    *)
(***************************************************************************)

(* A filter made for a packet has the type of a filter. *)
LEMMA NewFilterType ==
  ASSUME TypeOK, NEW n \in Ids, NEW cmd \in Command, NEW b \in BOOLEAN
  PROVE  NewFilter(n, cmd, b) \in Filter
BY DEF TypeOK, NewFilter, Filter, Command

(* Popping the front of the queue. *)
LEMMA PopFacts ==
  ASSUME TypeOK, filters # <<>>
  PROVE  /\ Head(filters) \in Filter /\ Head(filters) = filters[1]
         /\ Tail(filters) \in Seq(Filter)
         /\ Len(filters) \in Nat \ {0} /\ Len(Tail(filters)) = Len(filters) - 1
         /\ \A k \in 1..Len(Tail(filters)) : Tail(filters)[k] = filters[k + 1]
BY HeadTailProperties, EmptySeq DEF TypeOK

(* A filter with a new time and one more retry is still a filter. *)
LEMMA RetryType ==
  ASSUME NEW f \in Filter, now \in Nat
  PROVE  LET g == ResetTimeout(IncrementRetryCount(f))
         IN  /\ g \in Filter
             /\ g.id = f.id /\ g.from = f.from /\ g.addr = f.addr
             /\ g.filter = f.filter /\ g.tsent = now
<1> DEFINE h == IncrementRetryCount(f)
<1>1. /\ h \in Filter
      /\ h.id = f.id /\ h.from = f.from /\ h.addr = f.addr /\ h.filter = f.filter
  BY DEF IncrementRetryCount, Filter
<1> HIDE DEF h
<1>2. ASSUME NEW d \in Filter
      PROVE  /\ ResetTimeout(d) \in Filter
             /\ ResetTimeout(d).id = d.id /\ ResetTimeout(d).from = d.from
             /\ ResetTimeout(d).addr = d.addr /\ ResetTimeout(d).filter = d.filter
             /\ ResetTimeout(d).tsent = now
  BY DEF ResetTimeout, Filter
<1>3. QED
  BY <1>1, <1>2 DEF h

(* The queue after a retry: the old front is at the back with a new time. *)
LEMMA RequeueFacts ==
  ASSUME TypeOK, filters # <<>>
  PROVE  /\ Requeued \in Seq(Filter)
         /\ Len(Requeued) = Len(filters)
         /\ \A k \in 1..Len(filters) - 1 : Requeued[k] = filters[k + 1]
         /\ Requeued[Len(filters)].id = filters[1].id
         /\ Requeued[Len(filters)].from = filters[1].from
         /\ Requeued[Len(filters)].addr = filters[1].addr
         /\ Requeued[Len(filters)].filter = filters[1].filter
         /\ Requeued[Len(filters)].tsent = now
<1> DEFINE g == ResetTimeout(IncrementRetryCount(filters[1]))
<1>1. now \in Nat /\ filters[1] \in Filter /\ Requeued = Append(Tail(filters), g)
  BY PopFacts DEF Requeued, TypeOK
<1>2. /\ g \in Filter
      /\ g.id = filters[1].id /\ g.from = filters[1].from
      /\ g.addr = filters[1].addr /\ g.filter = filters[1].filter /\ g.tsent = now
  BY <1>1, RetryType
<1> HIDE DEF g
<1>3. QED
  BY <1>1, <1>2, PopFacts, AppendProperties

(* Erasing one element keeps the others in their order. *)
LEMMA EraseFacts ==
  ASSUME NEW S, NEW q \in Seq(S), NEW k \in 1..Len(q)
  PROVE  /\ EraseAt(q, k) \in Seq(S)
         /\ Len(EraseAt(q, k)) = Len(q) - 1
         /\ \A j \in 1..Len(q) - 1 :
              EraseAt(q, k)[j] = IF j < k THEN q[j] ELSE q[j + 1]
<1> DEFINE e(j) == IF j < k THEN q[j] ELSE q[j + 1]
           n == Len(q) - 1
<1>1. n \in Nat /\ \A j \in 1..n : e(j) \in S
  BY ElementOfSeq, LenProperties
<1>2. EraseAt(q, k) = [j \in 1..n |-> e(j)]
  BY DEF EraseAt
<1> HIDE DEF e, n
<1>3. [j \in 1..n |-> e(j)] \in Seq(S)
  BY <1>1, IsASeq
<1>4. Len([j \in 1..n |-> e(j)]) = n
  BY <1>1
<1>5. QED
  BY <1>1, <1>2, <1>3, <1>4 DEF e, n

(* Crediting a response changes the set of matched addresses of at most one *)
(* filter and nothing else of the queue.                                    *)
LEMMA CreditFacts ==
  ASSUME TypeOK, NEW m \in Modules, NEW t \in Texts
  PROVE  /\ Credit(m, t) \in Seq(Filter)
         /\ Len(Credit(m, t)) = Len(filters)
         /\ \A k \in 1..Len(filters) :
              /\ Credit(m, t)[k].id = filters[k].id
              /\ Credit(m, t)[k].addr = filters[k].addr
              /\ Credit(m, t)[k].filter = filters[k].filter
              /\ Credit(m, t)[k].tsent = filters[k].tsent
              /\ Credit(m, t)[k].from =
                   IF FirstMatch(k, m, t) THEN filters[k].from \cup {m} ELSE filters[k].from
<1> DEFINE e(k) == IF FirstMatch(k, m, t) THEN AddResponse(filters[k], m) ELSE filters[k]
           n == Len(filters)
<1>1. n \in Nat /\ \A k \in 1..n : filters[k] \in Filter
  BY ElementOfSeq, LenProperties DEF TypeOK
<1>2. ASSUME NEW f \in Filter
      PROVE  /\ AddResponse(f, m) \in Filter
             /\ AddResponse(f, m).id = f.id /\ AddResponse(f, m).addr = f.addr
             /\ AddResponse(f, m).filter = f.filter /\ AddResponse(f, m).tsent = f.tsent
             /\ AddResponse(f, m).from = f.from \cup {m}
  BY DEF AddResponse, Filter
<1>3. Credit(m, t) = [k \in 1..n |-> e(k)]
  BY DEF Credit
<1>4. \A k \in 1..n : e(k) \in Filter
  BY <1>1, <1>2
<1>5. \A k \in 1..n :
        /\ e(k).id = filters[k].id /\ e(k).addr = filters[k].addr
        /\ e(k).filter = filters[k].filter /\ e(k).tsent = filters[k].tsent
        /\ e(k).from = IF FirstMatch(k, m, t) THEN filters[k].from \cup {m} ELSE filters[k].from
  BY <1>1, <1>2
<1> HIDE DEF e, n
<1>6. [k \in 1..n |-> e(k)] \in Seq(Filter)
  BY <1>1, <1>4, IsASeq
<1>7. Len([k \in 1..n |-> e(k)]) = n
  BY <1>1
<1>8. \A k \in 1..n : Credit(m, t)[k] = e(k)
  BY <1>3
<1>9. QED
  BY <1>3, <1>5, <1>6, <1>7, <1>8 DEF n

(* The expectations a list response announces are filters with fresh ids,   *)
(* made now, without a response.                                            *)
LEMMA ExpectationFacts ==
  ASSUME TypeOK, BusAssumption, BoundAssumption, NEW m \in Modules, NEW t \in Texts,
         counters.sent + Len(Additional[t]) <= MaxSent
  PROVE  /\ Len(Additional[t]) \in Nat /\ counters.sent \in Nat
         /\ Expectations(m, t) \in Seq(Filter)
         /\ Len(Expectations(m, t)) = Len(Additional[t])
         /\ \A k \in 1..Len(Additional[t]) :
              /\ counters.sent + k \in Ids
              /\ Additional[t][k] \in Texts
              /\ Expectations(m, t)[k].id = counters.sent + k
              /\ Expectations(m, t)[k].addr = m
              /\ Expectations(m, t)[k].filter = Additional[t][k]
              /\ Expectations(m, t)[k].tsent = now
              /\ Expectations(m, t)[k].from = {}
<1> DEFINE n == Len(Additional[t])
           c(k) == [addr |-> m, filter |-> Additional[t][k], reply |-> Additional[t][k]]
           e(k) == NewFilter(counters.sent + k, c(k), FALSE)
<1>1. n \in Nat /\ counters.sent \in Nat /\ \A k \in 1..n : Additional[t][k] \in Texts
  BY ElementOfSeq, LenProperties DEF TypeOK, BusAssumption, Counters
<1>2. MaxSent \in Nat /\ \A k \in 1..n : counters.sent + k \in Ids
  BY <1>1 DEF Ids, BoundAssumption
<1>3. \A k \in 1..n : c(k) \in Command
  BY <1>1 DEF Command, Addresses
<1>4. \A k \in 1..n : e(k) \in Filter
  BY <1>2, <1>3, NewFilterType
<1>5. \A k \in 1..n : /\ e(k).id = counters.sent + k /\ e(k).addr = m
                      /\ e(k).filter = Additional[t][k] /\ e(k).tsent = now
                      /\ e(k).from = {}
  BY DEF NewFilter
<1>6. Expectations(m, t) = [k \in 1..n |-> e(k)]
  BY DEF Expectations
<1> HIDE DEF e, n, c
<1>7. [k \in 1..n |-> e(k)] \in Seq(Filter)
  BY <1>1, <1>4, IsASeq
<1>8. Len([k \in 1..n |-> e(k)]) = n
  BY <1>1
<1>9. \A k \in 1..n : Expectations(m, t)[k] = e(k)
  BY <1>6
<1>10. QED
  BY <1>1, <1>2, <1>5, <1>6, <1>7, <1>8, <1>9 DEF n

(* A concatenation, element by element. *)
LEMMA ConcatFacts ==
  ASSUME NEW S, NEW a \in Seq(S), NEW b \in Seq(S)
  PROVE  /\ a \o b \in Seq(S)
         /\ Len(a) \in Nat /\ Len(b) \in Nat
         /\ Len(a \o b) = Len(a) + Len(b)
         /\ \A k \in 1..Len(a) : (a \o b)[k] = a[k]
         /\ \A k \in Len(a) + 1..Len(a) + Len(b) :
              (a \o b)[k] = b[k - Len(a)] /\ k - Len(a) \in 1..Len(b)
<1>1. /\ a \o b \in Seq(S)
      /\ Len(a \o b) = Len(a) + Len(b)
      /\ \A k \in 1..Len(a) + Len(b) :
           (a \o b)[k] = IF k <= Len(a) THEN a[k] ELSE b[k - Len(a)]
  BY ConcatProperties
<1>2. Len(a) \in Nat /\ Len(b) \in Nat
  BY LenProperties
<1>3. QED
  BY <1>1, <1>2

(* The counters keep their type when one of them grows. *)
LEMMA CounterType ==
  ASSUME NEW c \in Counters, NEW n \in Nat
  PROVE  /\ [c EXCEPT !.sent = @ + n] \in Counters
         /\ [c EXCEPT !.sent = @ + n].sent = c.sent + n
         /\ [c EXCEPT !.success = @ + 1] \in Counters
         /\ [c EXCEPT !.success = @ + 1].sent = c.sent
         /\ [c EXCEPT !.dropped = @ + 1] \in Counters
         /\ [c EXCEPT !.dropped = @ + 1].sent = c.sent
         /\ [c EXCEPT !.retried = @ + 1] \in Counters
         /\ [c EXCEPT !.retried = @ + 1].sent = c.sent
         /\ [c EXCEPT !.unrequested = @ + 1] \in Counters
         /\ [c EXCEPT !.unrequested = @ + 1].sent = c.sent
         /\ [c EXCEPT !.spontaneous = @ + 1] \in Counters
         /\ [c EXCEPT !.spontaneous = @ + 1].sent = c.sent
         /\ [c EXCEPT !.forgotten = @ + 1] \in Counters
         /\ [c EXCEPT !.forgotten = @ + 1].sent = c.sent
BY DEF Counters

(* The queue after a response: the old filters with one response credited, *)
(* then the announced ones.                                                *)
LEMMA ResponseFacts ==
  ASSUME TypeOK, BusAssumption, BoundAssumption, NEW m \in Modules, NEW t \in Texts,
         NEW o, ProcessResponse(m, t, o)
  PROVE  LET n == Len(filters)
             d == Len(Additional[t])
         IN  /\ n \in Nat /\ d \in Nat
             /\ filters' \in Seq(Filter)
             /\ Len(filters') = n + d
             /\ \A k \in 1..n :
                  /\ filters'[k].id = filters[k].id
                  /\ filters'[k].addr = filters[k].addr
                  /\ filters'[k].filter = filters[k].filter
                  /\ filters'[k].tsent = filters[k].tsent
                  /\ filters'[k].from = IF FirstMatch(k, m, t) THEN filters[k].from \cup {m}
                                        ELSE filters[k].from
             /\ \A k \in n + 1..n + d :
                  /\ filters'[k].id = counters.sent + (k - n)
                  /\ filters'[k].addr = m
                  /\ filters'[k].filter = Additional[t][k - n]
                  /\ filters'[k].tsent = now
                  /\ filters'[k].from = {}
<1>1. counters.sent + Len(Additional[t]) <= MaxSent
      /\ filters' = Credit(m, t) \o Expectations(m, t)
  BY DEF ProcessResponse
<1>2. Len(filters) \in Nat
  BY LenProperties DEF TypeOK
<1>3. /\ Credit(m, t) \in Seq(Filter)
      /\ Len(Credit(m, t)) = Len(filters)
      /\ \A k \in 1..Len(filters) :
           /\ Credit(m, t)[k].id = filters[k].id
           /\ Credit(m, t)[k].addr = filters[k].addr
           /\ Credit(m, t)[k].filter = filters[k].filter
           /\ Credit(m, t)[k].tsent = filters[k].tsent
           /\ Credit(m, t)[k].from =
                IF FirstMatch(k, m, t) THEN filters[k].from \cup {m} ELSE filters[k].from
  BY CreditFacts
<1>4. /\ Len(Additional[t]) \in Nat /\ counters.sent \in Nat
      /\ Expectations(m, t) \in Seq(Filter)
      /\ Len(Expectations(m, t)) = Len(Additional[t])
      /\ \A k \in 1..Len(Additional[t]) :
           /\ counters.sent + k \in Ids
           /\ Additional[t][k] \in Texts
           /\ Expectations(m, t)[k].id = counters.sent + k
           /\ Expectations(m, t)[k].addr = m
           /\ Expectations(m, t)[k].filter = Additional[t][k]
           /\ Expectations(m, t)[k].tsent = now
           /\ Expectations(m, t)[k].from = {}
  BY <1>1, ExpectationFacts, Zenon
<1> DEFINE a == Credit(m, t)
           b == Expectations(m, t)
<1>5. a \in Seq(Filter) /\ b \in Seq(Filter)
      /\ Len(a) = Len(filters) /\ Len(b) = Len(Additional[t])
      /\ filters' = a \o b
  BY <1>1, <1>3, <1>4
<1> HIDE DEF a, b
<1>6. /\ filters' \in Seq(Filter)
      /\ Len(filters') = Len(filters) + Len(Additional[t])
      /\ \A k \in 1..Len(filters) : filters'[k] = a[k]
      /\ \A k \in Len(filters) + 1..Len(filters) + Len(Additional[t]) :
           filters'[k] = b[k - Len(filters)] /\ k - Len(filters) \in 1..Len(Additional[t])
  <2>1. /\ a \o b \in Seq(Filter)
        /\ Len(a) \in Nat /\ Len(b) \in Nat
        /\ Len(a \o b) = Len(a) + Len(b)
        /\ \A k \in 1..Len(a) : (a \o b)[k] = a[k]
        /\ \A k \in Len(a) + 1..Len(a) + Len(b) :
             (a \o b)[k] = b[k - Len(a)] /\ k - Len(a) \in 1..Len(b)
    BY <1>5, ConcatFacts, Zenon
  <2>2. QED
    BY <1>5, <2>1
<1>7. \A k \in 1..Len(filters) :
        /\ filters'[k].id = filters[k].id
        /\ filters'[k].addr = filters[k].addr
        /\ filters'[k].filter = filters[k].filter
        /\ filters'[k].tsent = filters[k].tsent
        /\ filters'[k].from = IF FirstMatch(k, m, t) THEN filters[k].from \cup {m}
                              ELSE filters[k].from
  BY <1>3, <1>6 DEF a
<1>8. \A k \in Len(filters) + 1..Len(filters) + Len(Additional[t]) :
        /\ filters'[k].id = counters.sent + (k - Len(filters))
        /\ filters'[k].addr = m
        /\ filters'[k].filter = Additional[t][k - Len(filters)]
        /\ filters'[k].tsent = now
        /\ filters'[k].from = {}
  <2>1. \A j \in 1..Len(Additional[t]) :
          /\ b[j].id = counters.sent + j /\ b[j].addr = m
          /\ b[j].filter = Additional[t][j] /\ b[j].tsent = now /\ b[j].from = {}
    BY <1>4 DEF b
  <2> TAKE k \in Len(filters) + 1..Len(filters) + Len(Additional[t])
  <2>2. PICK j \in 1..Len(Additional[t]) : j = k - Len(filters) /\ filters'[k] = b[j]
    BY <1>6, Zenon
  <2>3. QED
    BY <2>1, <2>2, Zenon
<1>9. QED
  BY <1>2, <1>4, <1>6, <1>7, <1>8, Zenon

-----------------------------------------------------------------------------
(***************************************************************************)
(* Type correctness.                                                       *)
(***************************************************************************)

(* Tracking a command keeps the types. *)
LEMMA TrackType ==
  ASSUME TypeOK, BusAssumption, BoundAssumption, NEW cmd \in Command, Track(cmd),
         uidPolls' \in Nat
  PROVE  TypeOK'
<1>0. counters \in Counters /\ MaxSent \in Nat
  BY DEF TypeOK, BoundAssumption
<1>1. counters.sent \in Nat /\ counters.sent + 1 \in Ids
  BY <1>0 DEF Counters, Track, Ids
<1>2. filters' \in Seq(Filter)
  BY <1>1, NewFilterType, AppendProperties DEF TypeOK, Track
<1>3. counters' \in Counters /\ counters'.sent <= MaxSent
  BY <1>0, <1>1, CounterType DEF Track, Ids
<1>4. owed' \in [Ids -> [Modules -> Nat]]
  BY <1>1 DEF TypeOK, Track, Owes, NoAnswers
<1>5. asked' \in [Ids -> Command] /\ writes' \in [Ids -> Nat] /\ fate' \in [Ids -> Fates]
  BY <1>1 DEF TypeOK, Track, Fates
<1>6. QED
  BY <1>2, <1>3, <1>4, <1>5 DEF TypeOK, Track, appVars

(* Processing a response keeps the types. *)
LEMMA ResponseType ==
  ASSUME TypeOK, BusAssumption, BoundAssumption, NEW m \in Modules, NEW t \in Texts,
         NEW o \in [Ids -> [Modules -> Nat]], ProcessResponse(m, t, o), stray' \in Nat
  PROVE  TypeOK'
<1> DEFINE d == Len(Additional[t])
<1>1. d \in Nat /\ counters.sent \in Nat /\ counters.sent + d <= MaxSent /\ MaxSent \in Nat
  BY ExpectationFacts DEF ProcessResponse, BoundAssumption
<1>2. filters' \in Seq(Filter)
  BY ResponseFacts
<1> DEFINE c == [counters EXCEPT !.sent = @ + d]
<1>3. c \in Counters /\ c.sent <= MaxSent
  BY <1>1, CounterType DEF TypeOK
<1> HIDE DEF c
<1>4. Classify(m, t, c) \in Counters /\ Classify(m, t, c).sent <= MaxSent
  BY <1>3, CounterType DEF Classify
<1>5. counters' \in Counters /\ counters'.sent <= MaxSent
  BY <1>4 DEF c, ProcessResponse
<1>6. credited' \in [Ids -> SUBSET Modules]
  BY DEF TypeOK, ProcessResponse
<1>7. \A i \in Announced(t) : i - counters.sent \in 1..d
  BY <1>1 DEF Announced
<1>8. \A k \in 1..d : Additional[t][k] \in Texts
  BY ElementOfSeq, LenProperties DEF BusAssumption
<1>9. asked' \in [Ids -> Command]
  <2>1. ASSUME NEW i \in Ids, i \in Announced(t)
        PROVE  LET e == Additional[t][i - counters.sent]
               IN [addr |-> m, filter |-> e, reply |-> e] \in Command
    BY <2>1, <1>7, <1>8 DEF Command, Addresses
  <2>2. QED
    BY <2>1 DEF TypeOK, ProcessResponse
<1>10. owed' \in [Ids -> [Modules -> Nat]]
  <2>1. [NoAnswers EXCEPT ![m] = 1] \in [Modules -> Nat]
    BY DEF NoAnswers
  <2>2. QED
    BY <2>1 DEF ProcessResponse
<1>11. fate' \in [Ids -> Fates]
  BY DEF TypeOK, ProcessResponse, Fates
<1>12. uidPolls' \in Nat
  BY DEF TypeOK, ProcessResponse
<1>13. QED
  BY <1>2, <1>5, <1>6, <1>9, <1>10, <1>11, <1>12 DEF TypeOK, ProcessResponse, appVars

(* The initial state has the right types. *)
LEMMA TypeInit == Init => TypeOK /\ SilentCommands
<1> SUFFICES ASSUME Init PROVE TypeOK /\ SilentCommands
  OBVIOUS
<1>1. UIDPoll \in Command /\ MaxSent \in Nat /\ RetrySettings \subseteq Nat
  BY BusAssumption, BoundAssumption
<1>2. filters \in Seq(Filter) /\ packetsOut \in Seq(Ids)
  BY EmptySeq DEF Init
<1>3. counters \in Counters /\ counters.sent <= MaxSent
  BY <1>1 DEF Init, Counters
<1>4. asked \in [Ids -> Command] /\ owed \in [Ids -> [Modules -> Nat]]
  BY <1>1 DEF Init, NoAnswers
<1>5. fate \in [Ids -> Fates] /\ credited \in [Ids -> SUBSET Modules]
      /\ writes \in [Ids -> Nat]
  BY DEF Init, Fates
<1>6. /\ phase \in Phases /\ limit \in RetrySettings \cup {0} /\ cursor \in Nat \ {0}
      /\ uidPolls \in Nat /\ maxRetries \in RetrySettings /\ enabled \in BOOLEAN
      /\ now \in Nat /\ stray \in Nat
  <2>1. phase \in Phases
    BY DEF Init, Phases
  <2>2. limit \in RetrySettings \cup {0} /\ enabled \in BOOLEAN
    BY Zenon DEF Init
  <2>3. cursor \in Nat \ {0} /\ uidPolls \in Nat /\ now \in Nat /\ stray \in Nat
        /\ maxRetries \in RetrySettings
    BY DEF Init
  <2>4. QED
    BY <2>1, <2>2, <2>3
<1>7. TypeOK
  BY <1>2, <1>3, <1>4, <1>5, <1>6 DEF TypeOK
<1>8. SilentCommands
  BY DEF Init, SilentCommands, NoAnswers
<1>9. QED
  BY <1>7, <1>8

(* Every step keeps the types. *)
LEMMA TypeStep ==
  ASSUME TypeOK, SilentCommands, [Next]_vars
  PROVE  TypeOK'
<1>0. counters \in Counters
  BY DEF TypeOK
<1>1. CASE BeginService
  BY <1>1 DEF TypeOK, BeginService, Phases, trackerVars, appVars, busVars, historyVars
<1>2. ASSUME filters # <<>>, NEW out \in Fates, PopFront(out),
             counters' \in Counters, counters'.sent = counters.sent
      PROVE  TypeOK'
  <2>1. filters' \in Seq(Filter)
    BY <1>2, PopFacts DEF PopFront
  <2>2. fate' \in [Ids -> Fates]
    BY <1>2 DEF PopFront, TypeOK
  <2>3. QED
    BY <1>2, <2>1, <2>2 DEF TypeOK, PopFront, loopVars, appVars, busVars
<1>3. CASE TimeoutSuccess
  BY <1>0, <1>2, <1>3, CounterType DEF TimeoutSuccess, FrontTimedOut, Fates
<1>4. CASE TimeoutDrop
  BY <1>0, <1>2, <1>4, CounterType DEF TimeoutDrop, FrontTimedOut, Fates
<1>5. CASE TimeoutForget
  BY <1>0, <1>2, <1>5, CounterType DEF TimeoutForget, FrontTimedOut, Fates
<1>6. CASE TimeoutResend
  <2>1. filters # <<>>
    BY <1>6 DEF TimeoutResend, FrontTimedOut
  <2>2. filters' \in Seq(Filter)
    BY <1>6, <2>1, RequeueFacts DEF TimeoutResend
  <2>3. packetsOut' \in Seq(Ids)
    <3>1. Head(filters).id \in Ids
      BY <2>1, PopFacts DEF Filter
    <3>2. QED
      BY <1>6, <3>1, AppendProperties DEF TimeoutResend, TypeOK
  <2>4. counters' \in Counters /\ counters'.sent <= MaxSent
    BY <1>0, <1>6, CounterType DEF TimeoutResend, TypeOK
  <2>5. QED
    BY <1>6, <2>2, <2>3, <2>4
    DEF TimeoutResend, TypeOK, loopVars, appVars, busVars, historyVars
<1>7. CASE TimeoutDone
  BY <1>7 DEF TypeOK, TimeoutDone, Phases, trackerVars, appVars, busVars, historyVars
<1>8. CASE WriteRetry
  <2>1. packetsOut' \in Seq(Ids) /\ Head(packetsOut) \in Ids
    BY <1>8, HeadTailProperties, EmptySeq DEF WriteRetry, TypeOK
  <2>2. writes' \in [Ids -> Nat]
    BY <1>8, <2>1 DEF WriteRetry, TypeOK
  <2>3. owed' \in [Ids -> [Modules -> Nat]]
    BY <1>8, <2>1 DEF WriteRetry, TypeOK, Owes
  <2>4. QED
    BY <1>8, <2>1, <2>2, <2>3 DEF WriteRetry, TypeOK, loopVars, appVars, historyVars
<1>9. CASE RetriesWritten
  BY <1>9 DEF TypeOK, RetriesWritten, Phases, trackerVars, appVars, busVars, historyVars
<1>10. ASSUME NEW cmd \in Commands, SendCommand(cmd)
       PROVE  TypeOK'
  BY <1>10, TrackType, BusAssumption, BoundAssumption DEF SendCommand, TypeOK
<1>11. CASE SendUIDPoll
  <2>1. uidPolls' \in Nat
    BY <1>11 DEF SendUIDPoll, TypeOK
  <2>2. QED
    BY <1>11, <2>1, TrackType, BusAssumption, BoundAssumption DEF SendUIDPoll
<1>12. CASE CommandsDone
  BY <1>12 DEF TypeOK, CommandsDone, Phases, trackerVars, appVars, busVars, historyVars
<1>13. CASE SkipCommands
  BY <1>13 DEF TypeOK, SkipCommands, Phases, trackerVars, appVars, busVars, historyVars
<1>14. ASSUME NEW m \in Modules, NEW i \in Ids, Receive(m, i)
       PROVE  TypeOK'
  <2>1. asked[i].reply \in Texts
    BY <1>14 DEF Receive, TypeOK, SilentCommands, Command
  <2>2. [owed EXCEPT ![i][m] = @ - 1] \in [Ids -> [Modules -> Nat]]
    BY <1>14 DEF Receive, TypeOK
  <2>3. stray' \in Nat
    BY <1>14 DEF Receive, TypeOK
  <2>4. QED
    BY <1>14, <2>1, <2>2, <2>3, ResponseType, BusAssumption, BoundAssumption DEF Receive
<1>15. ASSUME NEW m \in Modules, NEW t \in Texts, ReceiveStray(m, t)
       PROVE  TypeOK'
  <2>1. owed \in [Ids -> [Modules -> Nat]] /\ stray' \in Nat
    BY <1>15 DEF ReceiveStray, TypeOK
  <2>2. QED
    BY <1>15, <2>1, ResponseType, BusAssumption, BoundAssumption DEF ReceiveStray
<1>16. CASE ReceiveUnparsed
  <2>1. counters' \in Counters /\ counters'.sent <= MaxSent
    BY <1>0, <1>16, CounterType DEF ReceiveUnparsed, TypeOK
  <2>2. QED
    BY <1>16, <2>1 DEF TypeOK, ReceiveUnparsed, appVars, historyVars
<1>17. CASE ReceiveDone
  BY <1>17 DEF TypeOK, ReceiveDone, Phases, trackerVars, appVars, busVars, historyVars
<1>18. CASE SweepErase
  <2>1. cursor \in 1..Len(filters)
    BY <1>18, LenProperties DEF SweepErase, TypeOK
  <2>2. filters' \in Seq(Filter)
    BY <1>18, <2>1, EraseFacts DEF SweepErase, TypeOK
  <2>3. counters' \in Counters /\ counters'.sent <= MaxSent
    BY <1>0, <1>18, CounterType DEF SweepErase, TypeOK
  <2>4. fate' \in [Ids -> Fates]
    BY <1>18 DEF SweepErase, TypeOK, Fates
  <2>5. QED
    BY <1>18, <2>2, <2>3, <2>4 DEF TypeOK, SweepErase, AfterErase, appVars, busVars
<1>19. CASE SweepKeep
  BY <1>19 DEF TypeOK, SweepKeep, AfterKeep, trackerVars, appVars, busVars, historyVars
<1>20. CASE SweepDone
  BY <1>20 DEF TypeOK, SweepDone, Phases, trackerVars, appVars, busVars, historyVars
<1>21. ASSUME NEW r \in RetrySettings, SetEigenConfig(r)
       PROVE  TypeOK'
  BY <1>21 DEF TypeOK, SetEigenConfig, trackerVars, loopVars, busVars, historyVars
<1>22. ASSUME NEW state \in BOOLEAN, SetPollEnabled(state)
       PROVE  TypeOK'
  BY <1>22 DEF TypeOK, SetPollEnabled, trackerVars, loopVars, busVars, historyVars
<1>23. CASE Tick
  BY <1>23 DEF TypeOK, Tick, trackerVars, loopVars, appVars, busVars, historyVars
<1>24. CASE StepBack
  BY <1>24 DEF TypeOK, StepBack, trackerVars, loopVars, appVars, busVars, historyVars
<1>25. CASE UNCHANGED vars
  BY <1>25 DEF TypeOK, vars
<1>26. QED
  BY <1>1, <1>3, <1>4, <1>5, <1>6, <1>7, <1>8, <1>9, <1>10, <1>11, <1>12, <1>13,
     <1>14, <1>15, <1>16, <1>17, <1>18, <1>19, <1>20, <1>21, <1>22, <1>23, <1>24,
     <1>25 DEF Next, Service, Application

(* Every step keeps the silent commands silent. *)
LEMMA SilentStep ==
  ASSUME TypeOK, SilentCommands, [Next]_vars
  PROVE  SilentCommands'
<1>1. CASE UNCHANGED <<asked, owed>>
  BY <1>1 DEF SilentCommands
<1>2. ASSUME NEW cmd \in Command, Track(cmd)
      PROVE  SilentCommands'
  <2>0. counters \in Counters /\ MaxSent \in Nat
    BY BoundAssumption DEF TypeOK
  <2>1. counters.sent + 1 \in Ids
    BY <1>2, <2>0 DEF Track, Counters, Ids
  <2>2. QED
    BY <1>2, <2>1 DEF Track, TypeOK, SilentCommands, Owes, NoAnswers
<1>3. ASSUME WriteRetry
      PROVE  SilentCommands'
  BY <1>3 DEF WriteRetry, TypeOK, SilentCommands, Owes
<1>4. ASSUME NEW m \in Modules, NEW t \in Texts, NEW o \in [Ids -> [Modules -> Nat]],
             \A i \in Ids : \A n \in Modules : o[i][n] > 0 => asked[i].reply # NoText,
             ProcessResponse(m, t, o)
      PROVE  SilentCommands'
  <2>1. ASSUME NEW i \in Ids, i \in Announced(t)
        PROVE  asked'[i].reply # NoText
    <3>1. \A k \in 1..Len(Additional[t]) : Additional[t][k] \in Texts
      BY BusAssumption, ElementOfSeq, LenProperties
    <3>2. i - counters.sent \in 1..Len(Additional[t])
      <4>1. counters.sent + Len(Additional[t]) <= MaxSent
        BY <1>4 DEF ProcessResponse
      <4>2. counters.sent \in Nat /\ Len(Additional[t]) \in Nat
        BY <4>1, ExpectationFacts, BusAssumption, BoundAssumption
      <4>3. QED
        BY <2>1, <4>2 DEF Announced
    <3>3. QED
      BY <1>4, <2>1, <3>1, <3>2, BusAssumption DEF ProcessResponse
  <2>2. ASSUME NEW i \in Ids, i \notin Announced(t)
        PROVE  asked'[i] = asked[i] /\ owed'[i] = o[i]
    BY <1>4, <2>2 DEF ProcessResponse
  <2>3. QED
    BY <1>4, <2>1, <2>2 DEF SilentCommands
<1>5. ASSUME NEW m \in Modules, NEW i \in Ids, Receive(m, i)
      PROVE  SilentCommands'
  <2> DEFINE o == [owed EXCEPT ![i][m] = @ - 1]
  <2>1. asked[i].reply \in Texts
    BY <1>5 DEF Receive, TypeOK, SilentCommands, Command
  <2>2. o \in [Ids -> [Modules -> Nat]]
    BY <1>5 DEF Receive, TypeOK
  <2>3. \A j \in Ids : \A n \in Modules : o[j][n] > 0 => asked[j].reply # NoText
    BY <1>5 DEF Receive, TypeOK, SilentCommands
  <2>4. ProcessResponse(m, asked[i].reply, o)
    BY <1>5 DEF Receive
  <2> HIDE DEF o
  <2>5. QED
    BY <1>4, <2>1, <2>2, <2>3, <2>4
<1>6. ASSUME NEW m \in Modules, NEW t \in Texts, ReceiveStray(m, t)
      PROVE  SilentCommands'
  <2>1. owed \in [Ids -> [Modules -> Nat]]
    BY DEF TypeOK
  <2>2. QED
    BY <1>4, <1>6, <2>1 DEF ReceiveStray, SilentCommands
<1>7. QED
  BY <1>1, <1>2, <1>3, <1>5, <1>6, BusAssumption
  DEF Next, Service, Application, BeginService, TimeoutSuccess, TimeoutDrop, TimeoutForget,
      PopFront, TimeoutResend, TimeoutDone, RetriesWritten, SendCommand, SendUIDPoll,
      CommandsDone, SkipCommands, ReceiveUnparsed, ReceiveDone, SweepErase, SweepKeep,
      SweepDone, SetEigenConfig, SetPollEnabled, Tick, StepBack, busVars, vars

(* Every variable keeps its type: in particular the list of UID polls never *)
(* goes below zero and no more than MaxSent packets are tracked.            *)
THEOREM TypeCorrect == Spec => []TypeOK
<1>1. Init => TypeOK /\ SilentCommands
  BY TypeInit
<1>2. TypeOK /\ SilentCommands /\ [Next]_vars => (TypeOK /\ SilentCommands)'
  BY TypeStep, SilentStep
<1>3. QED
  BY <1>1, <1>2, PTL DEF Spec

-----------------------------------------------------------------------------
(***************************************************************************)
(* The queue, the history and the phases: one lemma per operation on the   *)
(* queue, then the steps that leave it alone.                              *)
(***************************************************************************)
QueueInv == TrackedOnce /\ FatesAgreeWithAnswers /\ Numbering
            /\ QueueMirrorsHistory /\ PhaseDiscipline

(* The loop over timed-out packets erases the front with a verdict that    *)
(* agrees with the responses it got.                                       *)
LEMMA PopQueue ==
  ASSUME TypeOK, QueueInv, FrontTimedOut, NEW out \in {"success", "dropped", "forgotten"},
         PopFront(out), counters'.sent = counters.sent,
         out = "success" <=> FrontSucceeds
  PROVE  QueueInv'
<1> DEFINE n == Len(filters)
           x == filters[1].id
<1>1. /\ filters # <<>> /\ phase = "timeout" /\ phase' = phase /\ cursor' = cursor
      /\ packetsOut' = packetsOut
      /\ credited' = credited /\ asked' = asked
      /\ filters' = Tail(filters)
      /\ fate' = [fate EXCEPT ![Head(filters).id] = out]
  BY DEF FrontTimedOut, PopFront, loopVars, busVars
<1>2. /\ n \in Nat \ {0} /\ Len(filters') = n - 1 /\ Head(filters) = filters[1]
      /\ \A k \in 1..n - 1 : filters'[k] = filters[k + 1]
      /\ x \in Ids
  BY <1>1, PopFacts DEF Filter
<1>3. \A i \in Ids : fate'[i] = IF i = x THEN out ELSE fate[i]
  BY <1>1, <1>2 DEF TypeOK
<1>4. /\ \A j, k \in 1..n : filters[j].id = filters[k].id => j = k
      /\ \A i \in Ids : fate[i] = "live" <=> \E k \in 1..n : filters[k].id = i
  BY DEF QueueInv, TrackedOnce
<1>5. fate[x] = "live"
  BY <1>2, <1>4
<1> HIDE DEF n, x
<1>6. TrackedOnce'
  <2>1. \A j, k \in 1..n - 1 : filters'[j].id = filters'[k].id => j = k
    BY <1>2, <1>4
  <2>2. ASSUME NEW i \in Ids, fate'[i] = "live"
        PROVE  \E k \in 1..n - 1 : filters'[k].id = i
    <3>1. i # x /\ fate[i] = "live"
      BY <1>3, <2>2
    <3>2. PICK k \in 1..n : filters[k].id = i
      BY <1>4, <3>1
    <3>3. k - 1 \in 1..n - 1 /\ filters'[k - 1].id = i
      BY <1>2, <3>1, <3>2 DEF x
    <3>4. QED
      BY <3>3
  <2>3. ASSUME NEW i \in Ids, NEW k \in 1..n - 1, filters'[k].id = i
        PROVE  fate'[i] = "live"
    <3>1. k + 1 \in 1..n /\ 1 \in 1..n /\ k + 1 # 1 /\ filters[k + 1].id = i
      BY <1>2, <2>3
    <3>2. i # x
      BY <1>4, <3>1 DEF x
    <3>3. QED
      BY <1>3, <1>4, <3>1, <3>2
  <2>4. QED
    BY <1>2, <2>1, <2>2, <2>3 DEF TrackedOnce
<1>7. FatesAgreeWithAnswers'
  <2>1. filters[1].from = credited[x]
    BY <1>2 DEF QueueInv, QueueMirrorsHistory, n, x
  <2>2. out = "success" => credited[x] # {}
    BY <1>2, <2>1 DEF FrontSucceeds, Answered
  <2>3. out # "success" => credited[x] = {}
    <3>1. Answered(filters[1]) => IsBroadcast(filters[1])
      BY <1>1, <1>2 DEF QueueInv, PhaseDiscipline, n
    <3>2. QED
      BY <1>2, <2>1, <3>1 DEF FrontSucceeds, Answered
  <2>4. QED
    BY <1>1, <1>3, <2>2, <2>3 DEF QueueInv, FatesAgreeWithAnswers
<1>8. Numbering'
  BY <1>1, <1>3, <1>5 DEF QueueInv, Numbering
<1>9. QueueMirrorsHistory'
  BY <1>1, <1>2 DEF QueueInv, QueueMirrorsHistory, n
<1>10. PhaseDiscipline'
  <2>1. cursor' = 1 /\ cursor' <= Len(filters') + 1
    BY <1>1, <1>2 DEF QueueInv, PhaseDiscipline
  <2>2. ASSUME NEW k \in 1..n - 1
        PROVE  /\ ExpectsResponse(filters'[k])
               /\ Answered(filters'[k]) => IsBroadcast(filters'[k])
    BY <1>1, <1>2 DEF QueueInv, PhaseDiscipline, n
  <2>3. QED
    BY <1>1, <1>2, <2>1, <2>2 DEF PhaseDiscipline
<1>11. QED
  BY <1>6, <1>7, <1>8, <1>9, <1>10 DEF QueueInv

(* A retry moves the front to the back; the ids in the queue stay the same. *)
LEMMA RequeueQueue ==
  ASSUME TypeOK, QueueInv, TimeoutResend
  PROVE  QueueInv'
<1> DEFINE n == Len(filters)
<1>1. /\ filters # <<>> /\ phase = "timeout" /\ phase' = phase /\ cursor' = cursor
      /\ credited' = credited /\ asked' = asked /\ fate' = fate
      /\ filters' = Requeued /\ counters'.sent = counters.sent
  BY DEF TimeoutResend, FrontTimedOut, loopVars, busVars, historyVars, TypeOK, Counters
<1>2. /\ n \in Nat \ {0} /\ Len(filters') = n
      /\ \A k \in 1..n - 1 : filters'[k] = filters[k + 1]
      /\ filters'[n].id = filters[1].id /\ filters'[n].from = filters[1].from
      /\ filters'[n].addr = filters[1].addr /\ filters'[n].filter = filters[1].filter
  BY <1>1, PopFacts, RequeueFacts
<1>3. /\ \A j, k \in 1..n : filters[j].id = filters[k].id => j = k
      /\ \A i \in Ids : fate[i] = "live" <=> \E k \in 1..n : filters[k].id = i
  BY DEF QueueInv, TrackedOnce
<1> DEFINE was(k) == IF k = n THEN 1 ELSE k + 1
<1>4. \A k \in 1..n : /\ was(k) \in 1..n
                     /\ filters'[k].id = filters[was(k)].id
                     /\ filters'[k].from = filters[was(k)].from
                     /\ filters'[k].addr = filters[was(k)].addr
                     /\ filters'[k].filter = filters[was(k)].filter
  BY <1>2
<1>5. \A j, k \in 1..n : was(j) = was(k) => j = k
  BY <1>2
<1>6. \A j \in 1..n : \E k \in 1..n : was(k) = j
  <2> TAKE j \in 1..n
  <2>1. CASE j = 1
    BY <1>2, <2>1
  <2>2. CASE j # 1
    <3>1. j - 1 \in 1..n /\ was(j - 1) = j
      BY <1>2, <2>2
    <3>2. QED
      BY <3>1
  <2>3. QED
    BY <2>1, <2>2
<1> HIDE DEF n, was
<1>7. TrackedOnce'
  <2>1. \A j, k \in 1..n : filters'[j].id = filters'[k].id => j = k
    BY <1>3, <1>4, <1>5
  <2>2. \A i \in Ids : fate'[i] = "live" <=> \E k \in 1..n : filters'[k].id = i
    <3> TAKE i \in Ids
    <3>1. ASSUME fate'[i] = "live"
          PROVE  \E k \in 1..n : filters'[k].id = i
      <4>1. PICK j \in 1..n : filters[j].id = i
        BY <1>1, <1>3, <3>1
      <4>2. PICK k \in 1..n : was(k) = j
        BY <1>6
      <4>3. QED
        BY <1>4, <4>1, <4>2
    <3>2. ASSUME NEW k \in 1..n, filters'[k].id = i
          PROVE  fate'[i] = "live"
      BY <1>1, <1>3, <1>4, <3>2
    <3>3. QED
      BY <3>1, <3>2
  <2>3. QED
    BY <1>2, <2>1, <2>2 DEF TrackedOnce
<1>8. FatesAgreeWithAnswers' /\ Numbering'
  BY <1>1 DEF QueueInv, FatesAgreeWithAnswers, Numbering
<1>9. QueueMirrorsHistory'
  <2>1. ASSUME NEW j \in 1..n
        PROVE  /\ filters[j].from = credited[filters[j].id]
               /\ filters[j].addr = asked[filters[j].id].addr
               /\ filters[j].filter = asked[filters[j].id].filter
    BY DEF QueueInv, QueueMirrorsHistory, n
  <2>2. ASSUME NEW k \in 1..n
        PROVE  /\ filters'[k].from = credited'[filters'[k].id]
               /\ filters'[k].addr = asked'[filters'[k].id].addr
               /\ filters'[k].filter = asked'[filters'[k].id].filter
    BY <1>1, <1>4, <2>1
  <2>3. QED
    BY <1>2, <2>2 DEF QueueMirrorsHistory
<1>10. PhaseDiscipline'
  <2>1. cursor' = 1 /\ cursor' <= Len(filters') + 1
    BY <1>1, <1>2 DEF QueueInv, PhaseDiscipline
  <2>2. ASSUME NEW k \in 1..n
        PROVE  /\ ExpectsResponse(filters'[k])
               /\ Answered(filters'[k]) => IsBroadcast(filters'[k])
    BY <1>1, <1>4 DEF QueueInv, PhaseDiscipline, ExpectsResponse, Answered, IsBroadcast, n
  <2>3. QED
    BY <1>1, <1>2, <2>1, <2>2 DEF PhaseDiscipline
<1>11. QED
  BY <1>7, <1>8, <1>9, <1>10 DEF QueueInv

(* A tracked command takes the next id and a filter at the back.           *)
LEMMA TrackQueue ==
  ASSUME TypeOK, QueueInv, BoundAssumption, NEW cmd \in Command, Track(cmd), phase = "send"
  PROVE  QueueInv'
<1> DEFINE n == Len(filters)
           x == counters.sent + 1
           f == NewFilter(x, cmd, TRUE)
<1>0. counters \in Counters /\ MaxSent \in Nat
  BY BoundAssumption DEF TypeOK
<1>1. counters.sent \in Nat /\ x \in Ids /\ n \in Nat
  <2>1. x <= MaxSent
    BY DEF Track
  <2>2. n \in Nat
    BY LenProperties DEF TypeOK
  <2>3. QED
    BY <1>0, <2>1, <2>2 DEF Counters, Ids
<1>2. f \in Filter /\ f.id = x /\ f.from = {} /\ f.addr = cmd.addr /\ f.filter = cmd.filter
  <2>1. f \in Filter
    BY <1>1, NewFilterType
  <2>2. QED
    BY <2>1 DEF NewFilter
<1>3. /\ phase' = "send" /\ cursor' = cursor /\ packetsOut' = packetsOut
      /\ credited' = credited
      /\ asked' = [asked EXCEPT ![x] = cmd]
      /\ fate' = [fate EXCEPT ![x] = "live"]
      /\ counters'.sent = x
      /\ filters' = Append(filters, f)
  BY <1>0 DEF Track, Counters
<1> HIDE DEF f
<1>4. /\ Len(filters') = n + 1
      /\ \A k \in 1..n : filters'[k] = filters[k]
      /\ filters'[n + 1] = f
  BY <1>2, <1>3, AppendProperties DEF TypeOK
<1>5. /\ \A i \in Ids : asked'[i] = IF i = x THEN cmd ELSE asked[i]
      /\ \A i \in Ids : fate'[i] = IF i = x THEN "live" ELSE fate[i]
  BY <1>1, <1>3 DEF TypeOK
<1>6. /\ \A j, k \in 1..n : filters[j].id = filters[k].id => j = k
      /\ \A i \in Ids : fate[i] = "live" <=> \E k \in 1..n : filters[k].id = i
      /\ fate[x] = "unsent" /\ credited[x] = {}
      /\ \A k \in 1..n : filters[k].id \in Ids
  <2>1. \A k \in 1..n : filters[k] \in Filter
    BY <1>1, ElementOfSeq DEF TypeOK
  <2>2. \A k \in 1..n : filters[k].id \in Ids
    BY <2>1 DEF Filter
  <2>3. fate[x] = "unsent" /\ credited[x] = {}
    BY <1>1 DEF QueueInv, Numbering
  <2>4. QED
    BY <2>2, <2>3 DEF QueueInv, TrackedOnce
<1>7. \A k \in 1..n : filters[k].id # x
  BY <1>1, <1>6
<1> HIDE DEF n, x
<1>8. TrackedOnce'
  <2>1. \A j, k \in 1..n + 1 : filters'[j].id = filters'[k].id => j = k
    BY <1>1, <1>2, <1>4, <1>6, <1>7
  <2>2. ASSUME NEW i \in Ids
        PROVE  fate'[i] = "live" <=> \E k \in 1..n + 1 : filters'[k].id = i
    <3>1. CASE i = x
      <4>1. n + 1 \in 1..n + 1 /\ filters'[n + 1].id = i
        BY <1>1, <1>2, <1>4, <3>1
      <4>2. QED
        BY <1>5, <3>1, <4>1
    <3>2. CASE i # x
      <4>1. (\E k \in 1..n + 1 : filters'[k].id = i) <=> \E k \in 1..n : filters[k].id = i
        BY <1>1, <1>2, <1>4, <3>2
      <4>2. QED
        BY <1>5, <1>6, <3>2, <4>1
    <3>3. QED
      BY <3>1, <3>2
  <2>3. QED
    BY <1>4, <2>1, <2>2 DEF TrackedOnce
<1>9. FatesAgreeWithAnswers'
  BY <1>3, <1>5 DEF QueueInv, FatesAgreeWithAnswers
<1>10. Numbering'
  <2>1. x = counters.sent + 1
    BY DEF x
  <2>2. ASSUME NEW i \in Ids
        PROVE  /\ fate'[i] = "unsent" <=> i > x
               /\ fate'[i] = "unsent" => credited'[i] = {}
    BY <1>1, <1>3, <1>5, <2>1 DEF QueueInv, Numbering, Ids
  <2>3. QED
    BY <1>3, <2>2 DEF Numbering
<1>11. QueueMirrorsHistory'
  <2>1. ASSUME NEW k \in 1..n
        PROVE  /\ filters'[k].from = credited'[filters'[k].id]
               /\ filters'[k].addr = asked'[filters'[k].id].addr
               /\ filters'[k].filter = asked'[filters'[k].id].filter
    BY <1>3, <1>4, <1>5, <1>6, <1>7 DEF QueueInv, QueueMirrorsHistory, n
  <2>2. /\ f.from = credited'[f.id] /\ f.addr = asked'[f.id].addr
        /\ f.filter = asked'[f.id].filter
    BY <1>1, <1>2, <1>3, <1>5, <1>6
  <2>3. QED
    BY <1>1, <1>4, <2>1, <2>2 DEF QueueMirrorsHistory
<1>12. PhaseDiscipline'
  <2>1. cursor' = 1 /\ cursor' <= Len(filters') + 1 /\ packetsOut' = <<>>
    BY <1>1, <1>3, <1>4 DEF QueueInv, PhaseDiscipline
  <2>2. ASSUME NEW k \in 1..n + 1
        PROVE  Answered(filters'[k]) => IsBroadcast(filters'[k])
    BY <1>1, <1>2, <1>4 DEF QueueInv, PhaseDiscipline, Answered, n
  <2>3. QED
    BY <1>3, <1>4, <2>1, <2>2 DEF PhaseDiscipline
<1>13. QED
  BY <1>8, <1>9, <1>10, <1>11, <1>12 DEF QueueInv

(* A response is credited to one filter at most, and the filters it announces *)
(* get the next ids, in order.                                               *)
LEMMA ResponseQueue ==
  ASSUME TypeOK, QueueInv, BusAssumption, BoundAssumption, NEW m \in Modules,
         NEW t \in Texts, NEW o, ProcessResponse(m, t, o), phase = "receive"
  PROVE  QueueInv'
<1>0. /\ counters.sent + Len(Additional[t]) <= MaxSent
      /\ counters.sent \in Nat /\ Len(Additional[t]) \in Nat /\ Len(filters) \in Nat
  <2>1. counters.sent + Len(Additional[t]) <= MaxSent
    BY DEF ProcessResponse
  <2>2. counters.sent \in Nat /\ Len(Additional[t]) \in Nat
    BY <2>1, ExpectationFacts, Zenon
  <2>3. QED
    BY <2>1, <2>2, LenProperties DEF TypeOK
<1>a. PICK n \in Nat, d \in Nat, c \in Nat :
        n = Len(filters) /\ d = Len(Additional[t]) /\ c = counters.sent
  BY <1>0
<1> DEFINE hit(i) == \E k \in 1..n : FirstMatch(k, m, t) /\ filters[k].id = i
<1>1. n \in Nat /\ d \in Nat /\ c \in Nat /\ \A j \in 1..d : c + j \in Ids
  <2>1. MaxSent \in Nat /\ c + d <= MaxSent
    BY <1>0, <1>a DEF BoundAssumption
  <2>2. QED
    BY <2>1 DEF Ids
<1>2. /\ Len(filters') = n + d
      /\ \A k \in 1..n : /\ filters'[k].id = filters[k].id
                        /\ filters'[k].addr = filters[k].addr
                        /\ filters'[k].filter = filters[k].filter
                        /\ filters'[k].from = IF FirstMatch(k, m, t)
                                             THEN filters[k].from \cup {m}
                                             ELSE filters[k].from
      /\ \A k \in n + 1..n + d : /\ filters'[k].id = c + (k - n)
                               /\ filters'[k].addr = m
                               /\ filters'[k].filter = Additional[t][k - n]
                               /\ filters'[k].from = {}
  <2>1. /\ Len(filters') = Len(filters) + Len(Additional[t])
        /\ \A k \in 1..Len(filters) :
             /\ filters'[k].id = filters[k].id
             /\ filters'[k].addr = filters[k].addr
             /\ filters'[k].filter = filters[k].filter
             /\ filters'[k].tsent = filters[k].tsent
             /\ filters'[k].from = IF FirstMatch(k, m, t) THEN filters[k].from \cup {m}
                                   ELSE filters[k].from
        /\ \A k \in Len(filters) + 1..Len(filters) + Len(Additional[t]) :
             /\ filters'[k].id = counters.sent + (k - Len(filters))
             /\ filters'[k].addr = m
             /\ filters'[k].filter = Additional[t][k - Len(filters)]
             /\ filters'[k].tsent = now
             /\ filters'[k].from = {}
    BY ResponseFacts, Zenon
  <2>2. QED
    BY <1>a, <2>1
<1>3. /\ phase' = "receive" /\ cursor' = cursor /\ packetsOut' = packetsOut
      /\ \A i \in Ids : credited'[i] = IF hit(i) THEN credited[i] \cup {m} ELSE credited[i]
      /\ \A i \in Ids : fate'[i] = IF i \in c + 1..c + d THEN "live" ELSE fate[i]
      /\ \A i \in Ids : i \in c + 1..c + d =>
           asked'[i].addr = m /\ asked'[i].filter = Additional[t][i - c]
      /\ \A i \in Ids : i \notin c + 1..c + d => asked'[i] = asked[i]
  BY <1>a DEF ProcessResponse, Announced
<1>4. counters'.sent = c + d
  <2> DEFINE cc == [counters EXCEPT !.sent = @ + d]
  <2>1. cc \in Counters /\ cc.sent = c + d
    <3>1. counters \in Counters
      BY DEF TypeOK
    <3>2. cc \in Counters /\ cc.sent = counters.sent + d
      BY <1>1, <3>1, CounterType
    <3>3. QED
      BY <1>a, <3>2
  <2> HIDE DEF cc
  <2>2. Classify(m, t, cc).sent = cc.sent
    BY <2>1, CounterType DEF Classify
  <2>3. counters' = Classify(m, t, cc)
    BY <1>a DEF ProcessResponse, cc
  <2>4. QED
    BY <2>1, <2>2, <2>3
<1>5. /\ \A j, k \in 1..n : filters[j].id = filters[k].id => j = k
      /\ \A i \in Ids : fate[i] = "live" <=> \E k \in 1..n : filters[k].id = i
      /\ \A k \in 1..n : filters[k].id \in Ids
      /\ \A i \in Ids : (fate[i] = "unsent" <=> i > c) /\ (fate[i] = "unsent" => credited[i] = {})
  <2>1. \A k \in 1..n : filters[k] \in Filter
    BY <1>a, ElementOfSeq DEF TypeOK
  <2>2. \A k \in 1..n : filters[k].id \in Ids
    BY <2>1 DEF Filter
  <2>3. QED
    BY <1>a, <2>2 DEF QueueInv, TrackedOnce, Numbering
<1>6. Ids \subseteq Nat
  BY BoundAssumption DEF Ids
<1>7. \A k \in 1..n : filters[k].id <= c /\ filters[k].id \notin c + 1..c + d
  <2> TAKE k \in 1..n
  <2>1. fate[filters[k].id] = "live"
    BY <1>5
  <2>2. ~(filters[k].id > c)
    BY <1>5, <2>1
  <2>3. \A x \in Nat : ~(x > c) => x <= c /\ x \notin c + 1..c + d
    BY <1>1
  <2>4. QED
    BY <1>5, <1>6, <2>2, <2>3
<1>b. \A k \in n + 1..n + d : c + (k - n) > c /\ c + (k - n) \in Nat
  BY <1>1
<1> HIDE DEF hit
<1>8. TrackedOnce'
  <2>1. ASSUME NEW j \in 1..n + d, NEW k \in 1..n + d, filters'[j].id = filters'[k].id
        PROVE  j = k
    <3>1. CASE j \in 1..n /\ k \in 1..n
      BY <1>2, <1>5, <2>1, <3>1
    <3>2. CASE j \in n + 1..n + d /\ k \in n + 1..n + d
      BY <1>1, <1>2, <2>1, <3>2
    <3>3. CASE j \in 1..n /\ k \in n + 1..n + d
      <4>1. filters'[j].id <= c /\ filters'[k].id > c /\ filters'[k].id \in Nat
        BY <1>2, <1>7, <1>b, <3>3
      <4>2. QED
        BY <1>1, <2>1, <4>1
    <3>4. CASE j \in n + 1..n + d /\ k \in 1..n
      <4>1. filters'[k].id <= c /\ filters'[j].id > c /\ filters'[j].id \in Nat
        BY <1>2, <1>7, <1>b, <3>4
      <4>2. QED
        BY <1>1, <2>1, <4>1
    <3>5. QED
      BY <1>1, <3>1, <3>2, <3>3, <3>4
  <2>2. ASSUME NEW i \in Ids
        PROVE  fate'[i] = "live" <=> \E k \in 1..n + d : filters'[k].id = i
    <3>1. CASE i \in c + 1..c + d
      <4>1. n + (i - c) \in n + 1..n + d /\ n + (i - c) \in 1..n + d
            /\ c + ((n + (i - c)) - n) = i
        BY <1>1, <1>6, <3>1
      <4>2. filters'[n + (i - c)].id = i
        BY <1>2, <4>1
      <4>3. QED
        BY <1>3, <3>1, <4>1, <4>2
    <3>2. CASE i \notin c + 1..c + d
      <4>1. ASSUME NEW k \in 1..n + d, filters'[k].id = i
            PROVE  k \in 1..n
        <5>1. k \in n + 1..n + d => filters'[k].id \in c + 1..c + d
          BY <1>1, <1>2
        <5>2. QED
          BY <1>1, <3>2, <4>1, <5>1
      <4>2. \A k \in 1..n : k \in 1..n + d
        BY <1>1
      <4>3. (\E k \in 1..n + d : filters'[k].id = i) <=> \E k \in 1..n : filters[k].id = i
        BY <1>2, <4>1, <4>2
      <4>4. QED
        BY <1>3, <1>5, <3>2, <4>3
    <3>3. QED
      BY <3>1, <3>2
  <2>3. QED
    BY <1>2, <2>1, <2>2 DEF TrackedOnce
<1>9. FatesAgreeWithAnswers'
  <2>1. ASSUME NEW i \in Ids
        PROVE  /\ fate'[i] \in {"dropped", "forgotten"} => credited'[i] = {}
               /\ fate'[i] = "success" /\ asked'[i].filter # NoText => credited'[i] # {}
    <3>1. CASE i \in c + 1..c + d
      BY <1>3, <3>1
    <3>2. CASE i \notin c + 1..c + d
      <4>1. hit(i) => fate[i] = "live"
        BY <1>5 DEF hit
      <4>2. fate'[i] = fate[i] /\ asked'[i] = asked[i]
        BY <1>3, <3>2
      <4>3. QED
        BY <1>3, <4>1, <4>2 DEF QueueInv, FatesAgreeWithAnswers
    <3>3. QED
      BY <3>1, <3>2
  <2>2. QED
    BY <2>1 DEF FatesAgreeWithAnswers
<1>10. Numbering'
  <2>1. ASSUME NEW i \in Ids
        PROVE  /\ fate'[i] = "unsent" <=> i > c + d
               /\ fate'[i] = "unsent" => credited'[i] = {}
    <3>1. fate'[i] = "unsent" <=> i > c + d
      <4>1. i \in Nat
        BY <1>6
      <4>2. i > c + d <=> i > c /\ i \notin c + 1..c + d
        BY <1>1, <4>1
      <4>3. fate[i] = "unsent" <=> i > c
        BY <1>5
      <4>4. fate'[i] = IF i \in c + 1..c + d THEN "live" ELSE fate[i]
        BY <1>3
      <4>5. QED
        BY <4>2, <4>3, <4>4
    <3>2. hit(i) => fate[i] = "live"
      BY <1>5 DEF hit
    <3>3. fate'[i] = "unsent" => fate[i] = "unsent"
      BY <1>3
    <3>4. QED
      BY <1>3, <1>5, <3>1, <3>2, <3>3
  <2>2. QED
    BY <1>4, <2>1 DEF Numbering
<1>11. QueueMirrorsHistory'
  <2>1. ASSUME NEW k \in 1..n
        PROVE  /\ filters'[k].from = credited'[filters'[k].id]
               /\ filters'[k].addr = asked'[filters'[k].id].addr
               /\ filters'[k].filter = asked'[filters'[k].id].filter
    <3>1. filters[k].from = credited[filters[k].id]
          /\ filters[k].addr = asked[filters[k].id].addr
          /\ filters[k].filter = asked[filters[k].id].filter
      BY <1>a DEF QueueInv, QueueMirrorsHistory
    <3>2. hit(filters[k].id) <=> FirstMatch(k, m, t)
      BY <1>5 DEF hit
    <3>3. credited'[filters[k].id] = IF FirstMatch(k, m, t) THEN filters[k].from \cup {m}
                                    ELSE filters[k].from
      <4>1. credited'[filters[k].id] = IF hit(filters[k].id) THEN credited[filters[k].id] \cup {m}
                                      ELSE credited[filters[k].id]
        BY <1>3, <1>5, Zenon
      <4>2. QED
        BY <3>1, <3>2, <4>1
    <3>4. asked'[filters[k].id] = asked[filters[k].id]
      BY <1>3, <1>5, <1>7
    <3>5. QED
      BY <1>2, <3>1, <3>3, <3>4
  <2>2. ASSUME NEW k \in n + 1..n + d
        PROVE  /\ filters'[k].from = credited'[filters'[k].id]
               /\ filters'[k].addr = asked'[filters'[k].id].addr
               /\ filters'[k].filter = asked'[filters'[k].id].filter
    <3>1. PICK j \in 1..d : j = k - n
      BY <1>1
    <3>2. c + j \in Ids /\ c + j \in c + 1..c + d /\ (c + j) - c = j /\ c + j > c
      <4>1. c + j \in Ids
        BY <1>1, Zenon
      <4>2. \A y \in 1..d : c + y \in c + 1..c + d /\ (c + y) - c = y /\ c + y > c
        <5>1. d \in Nat /\ c \in Nat
          BY <1>1
        <5>2. QED
          BY <5>1
      <4>3. QED
        BY <4>1, <4>2, Zenon
    <3>3. filters'[k].id = c + j /\ filters'[k].addr = m
          /\ filters'[k].filter = Additional[t][j] /\ filters'[k].from = {}
      BY <1>2, <3>1
    <3>4. asked'[c + j].addr = m /\ asked'[c + j].filter = Additional[t][j]
      BY <1>3, <3>2
    <3>5. credited'[c + j] = {}
      <4>1. ~hit(c + j)
        BY <1>7, <3>2 DEF hit
      <4>2. QED
        BY <1>3, <1>5, <3>2, <4>1
    <3>6. QED
      BY <3>3, <3>4, <3>5
  <2>3. QED
    BY <1>1, <1>2, <2>1, <2>2 DEF QueueMirrorsHistory
<1>12. PhaseDiscipline'
  <2>1. cursor = 1 /\ packetsOut = <<>>
    BY DEF QueueInv, PhaseDiscipline
  <2>2. \A k \in 1..n + d : ~(k < 1)
    BY <1>1
  <2>3. QED
    BY <1>1, <1>2, <1>3, <2>1, <2>2 DEF PhaseDiscipline
<1>13. QED
  BY <1>8, <1>9, <1>10, <1>11, <1>12 DEF QueueInv

(* The sweep erases a satisfied filter and stays where it is.               *)
LEMMA EraseQueue ==
  ASSUME TypeOK, QueueInv, SweepErase
  PROVE  QueueInv'
<1>a. PICK n \in Nat : n = Len(filters)
  BY LenProperties DEF TypeOK
<1> DEFINE x == filters[cursor].id
<1>1. /\ cursor \in 1..n /\ n - 1 \in Nat /\ n \in Nat
      /\ Satisfied(filters[cursor])
      /\ phase = "success" /\ phase' = "success" /\ cursor' = cursor
      /\ packetsOut' = packetsOut /\ credited' = credited /\ asked' = asked
      /\ counters'.sent = counters.sent
      /\ filters' = EraseAt(filters, cursor)
      /\ fate' = [fate EXCEPT ![x] = "success"]
  <2>1. counters'.sent = counters.sent
    BY DEF SweepErase, TypeOK, Counters
  <2>2. cursor \in 1..n /\ n - 1 \in Nat
    BY <1>a DEF SweepErase, TypeOK
  <2>3. QED
    BY <1>a, <2>1, <2>2 DEF SweepErase, AfterErase, busVars
<1>2. /\ Len(filters') = n - 1
      /\ \A j \in 1..n - 1 : filters'[j] = IF j < cursor THEN filters[j] ELSE filters[j + 1]
  BY <1>a, <1>1, EraseFacts DEF TypeOK
<1>3. /\ \A j, k \in 1..n : filters[j].id = filters[k].id => j = k
      /\ \A i \in Ids : fate[i] = "live" <=> \E k \in 1..n : filters[k].id = i
      /\ x \in Ids
  <2>1. filters[cursor] \in Filter
    BY <1>a, <1>1, ElementOfSeq DEF TypeOK
  <2>2. x \in Ids
    BY <2>1 DEF Filter
  <2>3. QED
    BY <1>a, <2>2 DEF QueueInv, TrackedOnce
<1>4. \A i \in Ids : fate'[i] = IF i = x THEN "success" ELSE fate[i]
  BY <1>1, <1>3 DEF TypeOK
<1>5. fate[x] = "live"
  BY <1>1, <1>3
<1> DEFINE was(j) == IF j < cursor THEN j ELSE j + 1
<1>6. /\ \A j \in 1..n - 1 : was(j) \in 1..n /\ was(j) # cursor /\ filters'[j] = filters[was(j)]
      /\ \A j, k \in 1..n - 1 : was(j) = was(k) => j = k
  BY <1>1, <1>2
<1>7. \A k \in 1..n : k # cursor => \E j \in 1..n - 1 : was(j) = k
  <2> SUFFICES ASSUME NEW k \in 1..n, k # cursor
               PROVE  \E j \in 1..n - 1 : was(j) = k
    OBVIOUS
  <2>1. CASE k < cursor
    <3>1. k \in 1..n - 1 /\ was(k) = k
      BY <1>1, <2>1
    <3>2. QED
      BY <3>1
  <2>2. CASE ~(k < cursor)
    <3>1. k - 1 \in 1..n - 1 /\ was(k - 1) = k
      BY <1>1, <2>2
    <3>2. QED
      BY <3>1
  <2>3. QED
    BY <2>1, <2>2
<1>8. PhaseDiscipline'
  <2>1. /\ cursor' <= n /\ packetsOut = <<>>
    BY <1>1 DEF QueueInv, PhaseDiscipline
  <2>2. ASSUME NEW k \in 1..n - 1, k < cursor
        PROVE  ~Satisfied(filters'[k])
    BY <1>a, <1>1, <1>2, <2>2 DEF QueueInv, PhaseDiscipline
  <2>3. cursor' <= (n - 1) + 1
    BY <1>1
  <2>4. QED
    BY <1>1, <1>2, <2>1, <2>2, <2>3 DEF PhaseDiscipline
<1>9. filters[cursor].from = credited[x] /\ filters[cursor].filter = asked[x].filter
  BY <1>a, <1>1 DEF QueueInv, QueueMirrorsHistory
<1>10. asked[x].filter # NoText => credited[x] # {}
  BY <1>1, <1>9 DEF Satisfied, ExpectsResponse, Answered
<1>11. FatesAgreeWithAnswers'
  BY <1>1, <1>4, <1>10 DEF QueueInv, FatesAgreeWithAnswers
<1>12. Numbering'
  BY <1>1, <1>4, <1>5 DEF QueueInv, Numbering
<1> HIDE DEF was, x
<1>13. QueueMirrorsHistory'
  BY <1>a, <1>1, <1>2, <1>6 DEF QueueInv, QueueMirrorsHistory
<1>14. TrackedOnce'
  <2>1. \A j, k \in 1..n - 1 : filters'[j].id = filters'[k].id => j = k
    BY <1>3, <1>6
  <2>2. ASSUME NEW i \in Ids
        PROVE  fate'[i] = "live" <=> \E k \in 1..n - 1 : filters'[k].id = i
    <3>1. ASSUME fate'[i] = "live"
          PROVE  \E k \in 1..n - 1 : filters'[k].id = i
      <4>1. i # x /\ fate[i] = "live"
        BY <1>4, <3>1
      <4>2. PICK k \in 1..n : filters[k].id = i
        BY <1>3, <4>1
      <4>3. k # cursor
        BY <4>1, <4>2 DEF x
      <4>4. PICK j \in 1..n - 1 : was(j) = k
        BY <1>7, <4>2, <4>3
      <4>5. QED
        BY <1>6, <4>2, <4>4
    <3>2. ASSUME NEW k \in 1..n - 1, filters'[k].id = i
          PROVE  fate'[i] = "live"
      <4>1. was(k) \in 1..n /\ was(k) # cursor /\ filters[was(k)].id = i
        BY <1>6, <3>2
      <4>2. i # x
        BY <1>1, <1>3, <4>1 DEF x
      <4>3. QED
        BY <1>3, <1>4, <4>1, <4>2
    <3>3. QED
      BY <3>1, <3>2
  <2>3. QED
    BY <1>2, <2>1, <2>2 DEF TrackedOnce
<1>15. QED
  BY <1>8, <1>11, <1>12, <1>13, <1>14 DEF QueueInv

(* A step that leaves the queue and its history alone keeps everything but  *)
(* what the phases say.                                                     *)
LEMMA SameQueue ==
  ASSUME QueueInv, UNCHANGED <<filters, fate, credited, asked, counters.sent>>
  PROVE  TrackedOnce' /\ FatesAgreeWithAnswers' /\ Numbering' /\ QueueMirrorsHistory'
BY DEF QueueInv, TrackedOnce, FatesAgreeWithAnswers, Numbering, QueueMirrorsHistory

(* The steps between the phases, and those of the application and the clock. *)
LEMMA PhaseSteps ==
  ASSUME TypeOK, QueueInv,
         \/ BeginService \/ TimeoutDone \/ WriteRetry \/ RetriesWritten
         \/ CommandsDone \/ SkipCommands \/ ReceiveUnparsed \/ ReceiveDone
         \/ SweepKeep \/ SweepDone \/ Tick \/ StepBack
         \/ \E r \in RetrySettings : SetEigenConfig(r)
         \/ \E state \in BOOLEAN : SetPollEnabled(state)
         \/ UNCHANGED vars
  PROVE  QueueInv'
<1>a. PICK n \in Nat : n = Len(filters)
  BY LenProperties DEF TypeOK
<1>1. UNCHANGED <<filters, fate, credited, asked>> /\ counters'.sent = counters.sent
  <2>1. CASE ReceiveUnparsed
    BY <2>1 DEF ReceiveUnparsed, historyVars, TypeOK, Counters
  <2>2. CASE ~ReceiveUnparsed
    BY <2>2 DEF BeginService, TimeoutDone, WriteRetry, RetriesWritten, CommandsDone,
       SkipCommands, ReceiveDone, SweepKeep, SweepDone, Tick, StepBack, SetEigenConfig,
       SetPollEnabled, vars, trackerVars, busVars, historyVars
  <2>3. QED
    BY <2>1, <2>2
<1>2. TrackedOnce' /\ FatesAgreeWithAnswers' /\ Numbering' /\ QueueMirrorsHistory'
  BY <1>1, SameQueue
<1>3. PhaseDiscipline'
  <2> USE DEF QueueInv, PhaseDiscipline
  <2>1. CASE BeginService
    BY <1>1, <2>1 DEF BeginService, trackerVars
  <2>2. CASE TimeoutDone
    BY <1>1, <2>2 DEF TimeoutDone, trackerVars
  <2>3. CASE WriteRetry
    BY <1>1, <2>3 DEF WriteRetry, loopVars
  <2>4. CASE RetriesWritten
    BY <1>1, <2>4 DEF RetriesWritten, trackerVars
  <2>5. CASE CommandsDone \/ SkipCommands
    BY <1>1, <2>5 DEF CommandsDone, SkipCommands, trackerVars
  <2>6. CASE ReceiveUnparsed
    BY <1>1, <2>6 DEF ReceiveUnparsed
  <2>7. CASE ReceiveDone
    BY <1>1, <2>7 DEF ReceiveDone, trackerVars
  <2>8. CASE SweepKeep
    <3>1. ASSUME NEW k \in 1..n, k < cursor + 1
          PROVE  ~Satisfied(filters[k])
      <4>1. k = cursor \/ k < cursor
        BY <3>1 DEF TypeOK
      <4>2. QED
        BY <1>a, <2>8, <4>1 DEF SweepKeep
    <3>2. cursor + 1 <= n + 1
      BY <1>a, <2>8 DEF SweepKeep, TypeOK
    <3>3. QED
      BY <1>a, <1>1, <2>8, <3>1, <3>2 DEF SweepKeep, AfterKeep, trackerVars
  <2>9. CASE SweepDone
    <3>1. ASSUME NEW k \in 1..n
          PROVE  /\ ExpectsResponse(filters[k])
                 /\ Answered(filters[k]) => IsBroadcast(filters[k])
      <4>1. k < cursor
        BY <1>a, <2>9 DEF SweepDone, TypeOK
      <4>2. QED
        BY <1>a, <4>1 DEF Satisfied
    <3>2. 1 <= n + 1 /\ \A k \in 1..n : ~(k < 1)
      BY <1>a
    <3>3. QED
      BY <1>a, <1>1, <2>9, <3>1, <3>2 DEF SweepDone, trackerVars
  <2>10. CASE Tick \/ StepBack \/ (\E r \in RetrySettings : SetEigenConfig(r))
              \/ (\E state \in BOOLEAN : SetPollEnabled(state)) \/ UNCHANGED vars
    BY <1>1, <2>10
    DEF Tick, StepBack, SetEigenConfig, SetPollEnabled, vars, trackerVars, loopVars
  <2>11. QED
    BY <2>1, <2>2, <2>3, <2>4, <2>5, <2>6, <2>7, <2>8, <2>9, <2>10
<1>4. QED
  BY <1>2, <1>3 DEF QueueInv

(* What the counters add up to: each verdict counts once.                   *)
Decided(c) == c.success + c.dropped + c.forgotten

LEMMA DecidedFacts ==
  ASSUME NEW c \in Counters, NEW n \in Nat
  PROVE  /\ Decided(c) \in Nat
         /\ Decided([c EXCEPT !.sent = @ + n]) = Decided(c)
         /\ Decided([c EXCEPT !.retried = @ + 1]) = Decided(c)
         /\ Decided([c EXCEPT !.unrequested = @ + 1]) = Decided(c)
         /\ Decided([c EXCEPT !.spontaneous = @ + 1]) = Decided(c)
         /\ Decided([c EXCEPT !.success = @ + 1]) = Decided(c) + 1
         /\ Decided([c EXCEPT !.dropped = @ + 1]) = Decided(c) + 1
         /\ Decided([c EXCEPT !.forgotten = @ + 1]) = Decided(c) + 1
<1>1. c.success \in Nat /\ c.dropped \in Nat /\ c.forgotten \in Nat
  BY DEF Counters
<1>2. /\ [c EXCEPT !.sent = @ + n].success = c.success
      /\ [c EXCEPT !.sent = @ + n].dropped = c.dropped
      /\ [c EXCEPT !.sent = @ + n].forgotten = c.forgotten
  BY DEF Counters
<1>3. /\ [c EXCEPT !.success = @ + 1].success = c.success + 1
      /\ [c EXCEPT !.success = @ + 1].dropped = c.dropped
      /\ [c EXCEPT !.success = @ + 1].forgotten = c.forgotten
  BY DEF Counters
<1>4. /\ [c EXCEPT !.dropped = @ + 1].success = c.success
      /\ [c EXCEPT !.dropped = @ + 1].dropped = c.dropped + 1
      /\ [c EXCEPT !.dropped = @ + 1].forgotten = c.forgotten
  BY DEF Counters
<1>5. /\ [c EXCEPT !.forgotten = @ + 1].success = c.success
      /\ [c EXCEPT !.forgotten = @ + 1].dropped = c.dropped
      /\ [c EXCEPT !.forgotten = @ + 1].forgotten = c.forgotten + 1
  BY DEF Counters
<1>6. /\ Decided([c EXCEPT !.retried = @ + 1]) = Decided(c)
      /\ Decided([c EXCEPT !.unrequested = @ + 1]) = Decided(c)
      /\ Decided([c EXCEPT !.spontaneous = @ + 1]) = Decided(c)
  BY DEF Counters, Decided
<1>7. QED
  BY <1>1, <1>2, <1>3, <1>4, <1>5, <1>6 DEF Decided

(* Each step takes as many filters out of the queue as it decides packets.   *)
LEMMA ConservationStep ==
  ASSUME TypeOK, SilentCommands, Conservation, [Next]_vars
  PROVE  Conservation'
<1>a. PICK n \in Nat : n = Len(filters)
  BY LenProperties DEF TypeOK
<1>0. counters \in Counters
  BY DEF TypeOK
<1>1. n \in Nat /\ counters.sent \in Nat /\ counters.sent = Decided(counters) + n
      /\ Decided(counters) \in Nat
  <2>1. counters.sent \in Nat /\ Decided(counters) \in Nat
    BY <1>0, DecidedFacts DEF Counters
  <2>2. QED
    BY <1>a, <2>1 DEF Conservation, Decided
<1>2. ASSUME NEW e \in Nat, NEW d \in Nat, NEW l \in Nat,
             counters'.sent = counters.sent + d,
             Decided(counters') = Decided(counters) + e,
             Len(filters') = l, l + e = n + d
      PROVE  Conservation'
  <2>1. counters'.sent = Decided(counters') + Len(filters')
    BY <1>1, <1>2
  <2>2. QED
    BY <2>1 DEF Conservation, Decided
<1>3. CASE UNCHANGED <<filters, counters>>
  BY <1>3 DEF Conservation
<1>4. CASE TimeoutSuccess \/ TimeoutDrop \/ TimeoutForget
  <2>1. counters'.sent = counters.sent + 0 /\ Decided(counters') = Decided(counters) + 1
    <3>1. counters'.sent = counters.sent
      BY <1>0, <1>4, CounterType DEF TimeoutSuccess, TimeoutDrop, TimeoutForget
    <3>2. Decided(counters') = Decided(counters) + 1
      BY <1>0, <1>4, DecidedFacts DEF TimeoutSuccess, TimeoutDrop, TimeoutForget
    <3>3. QED
      BY <1>1, <3>1, <3>2
  <2>2. Len(filters') = n - 1 /\ n - 1 \in Nat
    <3>1. filters # <<>> /\ filters' = Tail(filters)
      BY <1>4 DEF TimeoutSuccess, TimeoutDrop, TimeoutForget, FrontTimedOut, PopFront
    <3>2. QED
      BY <1>a, <3>1, PopFacts
  <2>3. (n - 1) + 1 = n + 0
    BY <1>1
  <2>4. QED
    BY <1>2, <2>1, <2>2, <2>3
<1>5. CASE TimeoutResend
  <2>1. counters'.sent = counters.sent /\ Decided(counters') = Decided(counters)
    BY <1>0, <1>5, CounterType, DecidedFacts DEF TimeoutResend
  <2>2. Len(filters') = n
    BY <1>a, <1>5, RequeueFacts DEF TimeoutResend, FrontTimedOut
  <2>3. QED
    BY <1>1, <1>2, <2>1, <2>2
<1>6. ASSUME NEW cmd, Track(cmd)
      PROVE  Conservation'
  <2>1. counters'.sent = counters.sent + 1 /\ Decided(counters') = Decided(counters)
    BY <1>0, <1>6, CounterType, DecidedFacts DEF Track
  <2>2. Len(filters') = n + 1
    BY <1>a, <1>6 DEF Track, TypeOK
  <2>3. QED
    BY <1>1, <1>2, <2>1, <2>2
<1>7. ASSUME NEW m \in Modules, NEW t \in Texts, NEW o, ProcessResponse(m, t, o)
      PROVE  Conservation'
  <2>1. Len(Additional[t]) \in Nat /\ Len(filters') = Len(filters) + Len(Additional[t])
    BY <1>7, ResponseFacts, BusAssumption, BoundAssumption
  <2>a. PICK d \in Nat : d = Len(Additional[t])
    BY <2>1
  <2> DEFINE c == [counters EXCEPT !.sent = @ + d]
  <2>2. c \in Counters /\ c.sent = counters.sent + d /\ Decided(c) = Decided(counters)
    BY <1>0, <2>a, CounterType, DecidedFacts
  <2> HIDE DEF c
  <2>3. counters' = Classify(m, t, c)
    BY <1>7, <2>a DEF ProcessResponse, c
  <2>4. Classify(m, t, c).sent = c.sent /\ Decided(Classify(m, t, c)) = Decided(c)
    BY <2>2, CounterType, DecidedFacts DEF Classify
  <2>5. /\ counters'.sent = counters.sent + d
        /\ Decided(counters') = Decided(counters) + 0
        /\ Len(filters') = n + d /\ n + d \in Nat /\ (n + d) + 0 = n + d
    BY <1>a, <1>1, <2>a, <2>1, <2>2, <2>3, <2>4
  <2>6. QED
    BY <1>2, <2>a, <2>5
<1>8. CASE ReceiveUnparsed
  <2>1. counters'.sent = counters.sent /\ Decided(counters') = Decided(counters)
        /\ filters' = filters
    BY <1>0, <1>8, CounterType, DecidedFacts DEF ReceiveUnparsed
  <2>2. QED
    BY <2>1 DEF Conservation, Decided
<1>9. CASE SweepErase
  <2>1. cursor \in 1..Len(filters)
    BY <1>a, <1>9 DEF SweepErase, TypeOK
  <2>2. Len(filters') = n - 1 /\ n - 1 \in Nat
    BY <1>a, <1>9, <2>1, EraseFacts DEF SweepErase, TypeOK
  <2>3. counters'.sent = counters.sent /\ Decided(counters') = Decided(counters) + 1
    BY <1>0, <1>9, CounterType, DecidedFacts DEF SweepErase
  <2>4. (n - 1) + 1 = n + 0 /\ counters'.sent = counters.sent + 0
    BY <1>1, <2>3
  <2>5. QED
    BY <1>2, <2>2, <2>3, <2>4
<1>10. ASSUME NEW m \in Modules, NEW i \in Ids, Receive(m, i)
       PROVE  Conservation'
  <2>1. asked[i].reply \in Texts
    BY <1>10 DEF Receive, TypeOK, SilentCommands, Command
  <2>2. QED
    BY <1>7, <1>10, <2>1 DEF Receive
<1>11. QED
  BY <1>3, <1>4, <1>5, <1>6, <1>7, <1>8, <1>9, <1>10
  DEF Next, Service, Application, BeginService, TimeoutDone, WriteRetry, RetriesWritten,
      SendCommand, SendUIDPoll, CommandsDone, SkipCommands, ReceiveStray, ReceiveDone,
      SweepKeep, SweepDone, SetEigenConfig, SetPollEnabled, Tick, StepBack, trackerVars, vars

(* Every step keeps the queue in agreement with the history and the phase.   *)
LEMMA QueueStep ==
  ASSUME TypeOK, SilentCommands, QueueInv, [Next]_vars
  PROVE  QueueInv'
<1>0. counters \in Counters
  BY DEF TypeOK
<1>1. CASE TimeoutSuccess \/ TimeoutDrop \/ TimeoutForget
  <2>1. counters'.sent = counters.sent
    BY <1>0, <1>1, CounterType DEF TimeoutSuccess, TimeoutDrop, TimeoutForget
  <2>2. QED
    BY <1>1, <2>1, PopQueue DEF TimeoutSuccess, TimeoutDrop, TimeoutForget
<1>2. CASE TimeoutResend
  BY <1>2, RequeueQueue
<1>3. ASSUME NEW cmd \in Commands, SendCommand(cmd)
      PROVE  QueueInv'
  BY <1>3, TrackQueue, BusAssumption, BoundAssumption DEF SendCommand
<1>4. CASE SendUIDPoll
  BY <1>4, TrackQueue, BusAssumption, BoundAssumption DEF SendUIDPoll
<1>5. ASSUME NEW m \in Modules, NEW i \in Ids, Receive(m, i)
      PROVE  QueueInv'
  <2>1. asked[i].reply \in Texts
    BY <1>5 DEF Receive, TypeOK, SilentCommands, Command
  <2>2. QED
    BY <1>5, <2>1, ResponseQueue, BusAssumption, BoundAssumption DEF Receive
<1>6. ASSUME NEW m \in Modules, NEW t \in Texts, ReceiveStray(m, t)
      PROVE  QueueInv'
  BY <1>6, ResponseQueue, BusAssumption, BoundAssumption DEF ReceiveStray
<1>7. CASE SweepErase
  BY <1>7, EraseQueue
<1>8. QED
  BY <1>1, <1>2, <1>3, <1>4, <1>5, <1>6, <1>7, PhaseSteps DEF Next, Service, Application

(* The inductive invariant: the verdicts counted, the filters queued and the *)
(* responses credited agree at every step of every service cycle.            *)
THEOREM Invariance == Spec => []IInv
<1>1. Init => IInv
  <2>1. Init => Conservation /\ QueueInv
    <3> SUFFICES ASSUME Init PROVE Conservation /\ QueueInv
      OBVIOUS
    <3>1. Len(filters) = 0 /\ \A k \in 1..Len(filters) : FALSE
      BY DEF Init
    <3>2. Conservation
      BY <3>1 DEF Init, Conservation
    <3>3. TrackedOnce /\ FatesAgreeWithAnswers /\ QueueMirrorsHistory /\ PhaseDiscipline
      BY <3>1 DEF Init, TrackedOnce, FatesAgreeWithAnswers, QueueMirrorsHistory,
                  PhaseDiscipline
    <3>4. Numbering
      BY BoundAssumption DEF Init, Numbering, Ids
    <3>5. QED
      BY <3>2, <3>3, <3>4 DEF QueueInv
  <2>2. QED
    BY <2>1, TypeInit DEF IInv, QueueInv
<1>2. IInv /\ [Next]_vars => IInv'
  <2> SUFFICES ASSUME IInv, [Next]_vars PROVE IInv'
    OBVIOUS
  <2>1. TypeOK /\ SilentCommands /\ Conservation /\ QueueInv
    BY DEF IInv, QueueInv
  <2>2. TypeOK' /\ SilentCommands' /\ Conservation' /\ QueueInv'
    BY <2>1, TypeStep, SilentStep, ConservationStep, QueueStep
  <2>3. QED
    BY <2>2 DEF IInv, QueueInv
<1>3. QED
  BY <1>1, <1>2, PTL DEF Spec

(* Every packet tracked is counted exactly once or still waits.              *)
THEOREM ConservationHolds == Spec => []Conservation
<1>1. IInv => Conservation
  BY DEF IInv
<1>2. QED
  BY <1>1, Invariance, PTL

(* A packet has one filter exactly while nothing is decided about it.        *)
THEOREM TrackedOnceHolds == Spec => []TrackedOnce
<1>1. IInv => TrackedOnce
  BY DEF IInv
<1>2. QED
  BY <1>1, Invariance, PTL

(* The verdicts agree with the responses that were credited.                 *)
THEOREM FatesAgree == Spec => []FatesAgreeWithAnswers
<1>1. IInv => FatesAgreeWithAnswers
  BY DEF IInv
<1>2. QED
  BY <1>1, Invariance, PTL

(* Between two calls of the service every retry is written and the queue     *)
(* holds only filters that still wait.                                       *)
THEOREM IdleQueue == Spec => []IdleQueueWaits
<1>1. IInv => IdleQueueWaits
  BY DEF IInv, PhaseDiscipline, IdleQueueWaits
<1>2. QED
  BY <1>1, Invariance, PTL

-----------------------------------------------------------------------------
(***************************************************************************)
(* Verdicts, and the order of the queue.                                   *)
(***************************************************************************)

(* A filter in the queue belongs to a packet that is still live.            *)
LEMMA QueuedIsLive ==
  ASSUME TypeOK, TrackedOnce, NEW k \in 1..Len(filters)
  PROVE  filters[k].id \in Ids /\ fate[filters[k].id] = "live"
<1>1. filters[k] \in Filter
  BY ElementOfSeq DEF TypeOK
<1>2. filters[k].id \in Ids
  BY <1>1 DEF Filter
<1>3. QED
  BY <1>2 DEF TrackedOnce

(* No late response and no retry changes a verdict once it is counted.       *)
THEOREM VerdictsFinal == Spec => VerdictsAreFinal
<1> DEFINE Final == \A i \in Ids :
                      fate[i] \in {"success", "dropped", "forgotten"} =>
                        fate'[i] = fate[i] /\ credited'[i] = credited[i]
<1>1. IInv /\ [Next]_vars => Final
  <2> SUFFICES ASSUME TypeOK, TrackedOnce, Numbering, SilentCommands, [Next]_vars
               PROVE  Final
    BY DEF IInv
  <2>1. CASE UNCHANGED <<fate, credited>>
    BY <2>1
  <2>2. CASE TimeoutSuccess \/ TimeoutDrop \/ TimeoutForget
    <3>1. filters # <<>>
      BY <2>2 DEF TimeoutSuccess, TimeoutDrop, TimeoutForget, FrontTimedOut
    <3>2. 1 \in 1..Len(filters) /\ Head(filters) = filters[1]
      BY <3>1, PopFacts
    <3>3. Head(filters).id \in Ids /\ fate[Head(filters).id] = "live"
      BY <3>2, QueuedIsLive
    <3>4. credited' = credited /\ \A i \in Ids : i # Head(filters).id => fate'[i] = fate[i]
      BY <2>2 DEF TimeoutSuccess, TimeoutDrop, TimeoutForget, PopFront, TypeOK
    <3>5. QED
      BY <3>3, <3>4
  <2>3. ASSUME NEW cmd, Track(cmd)
        PROVE  Final
    <3>1. counters.sent \in Nat /\ counters.sent + 1 <= MaxSent /\ MaxSent \in Nat
      BY <2>3, BoundAssumption DEF Track, TypeOK, Counters
    <3>2. counters.sent + 1 \in Ids /\ counters.sent + 1 > counters.sent
      BY <3>1 DEF Ids
    <3>3. fate[counters.sent + 1] = "unsent"
      BY <3>2 DEF Numbering
    <3>4. /\ credited' = credited
          /\ \A i \in Ids : i # counters.sent + 1 => fate'[i] = fate[i]
      BY <2>3 DEF Track, TypeOK
    <3>5. QED
      BY <3>2, <3>3, <3>4
  <2>4. ASSUME NEW m \in Modules, NEW t \in Texts, NEW o, ProcessResponse(m, t, o)
        PROVE  Final
    <3>1. \A i \in Ids : (\E k \in 1..Len(filters) : FirstMatch(k, m, t) /\ filters[k].id = i)
                        => fate[i] = "live"
      BY QueuedIsLive
    <3>2. \A i \in Ids : i \in Announced(t) => fate[i] = "unsent"
      <4>1. counters.sent + Len(Additional[t]) <= MaxSent
        BY <2>4 DEF ProcessResponse
      <4>2. counters.sent \in Nat /\ Len(Additional[t]) \in Nat
        BY <4>1, ExpectationFacts, BusAssumption, BoundAssumption
      <4>3. \A i \in Ids : i \in Announced(t) => i > counters.sent
        BY <4>2 DEF Announced
      <4>4. QED
        BY <4>3 DEF Numbering
    <3>3. QED
      BY <2>4, <3>1, <3>2 DEF ProcessResponse
  <2>5. ASSUME NEW m \in Modules, NEW i \in Ids, Receive(m, i)
        PROVE  Final
    <3>1. asked[i].reply \in Texts
      BY <2>5 DEF Receive, TypeOK, SilentCommands, Command
    <3>2. QED
      BY <2>4, <2>5, <3>1 DEF Receive
  <2>6. CASE SweepErase
    <3>1. cursor \in 1..Len(filters)
      BY <2>6, LenProperties DEF SweepErase, TypeOK
    <3>2. filters[cursor].id \in Ids /\ fate[filters[cursor].id] = "live"
      BY <3>1, QueuedIsLive
    <3>3. credited' = credited
          /\ \A i \in Ids : i # filters[cursor].id => fate'[i] = fate[i]
      BY <2>6 DEF SweepErase, TypeOK
    <3>4. QED
      BY <3>2, <3>3
  <2>7. QED
    BY <2>1, <2>2, <2>3, <2>4, <2>5, <2>6
    DEF Next, Service, Application, BeginService, TimeoutResend, TimeoutDone, WriteRetry,
        RetriesWritten, SendCommand, SendUIDPoll, CommandsDone, SkipCommands, ReceiveStray,
        ReceiveUnparsed, ReceiveDone, SweepKeep, SweepDone, SetEigenConfig, SetPollEnabled,
        Tick, StepBack, historyVars, vars
<1>2. QED
  BY <1>1, Invariance, PTL DEF Spec, VerdictsAreFinal

(* No filter was sent in the future.                                        *)
TimeInv ==
  /\ SortedByTime
  /\ \A k \in 1..Len(filters) : filters[k].tsent <= now

(* Every step of a clock that is never set back keeps the queue sorted.      *)
LEMMA TimeStep ==
  ASSUME ~ClockStepsBack, TypeOK, SilentCommands, TimeInv, [Next]_vars
  PROVE  TimeInv'
<1>a. PICK n \in Nat : n = Len(filters)
  BY LenProperties DEF TypeOK
<1>0. /\ n \in Nat /\ now \in Nat
      /\ \A k \in 1..n : filters[k].tsent \in Nat /\ filters[k].tsent <= now
      /\ \A j, k \in 1..n : j < k => filters[j].tsent <= filters[k].tsent
  <2>1. \A k \in 1..n : filters[k] \in Filter
    BY <1>a, ElementOfSeq DEF TypeOK
  <2>2. \A k \in 1..n : filters[k].tsent \in Nat
    BY <2>1 DEF Filter
  <2>3. QED
    BY <1>a, <2>2 DEF TimeInv, SortedByTime, TypeOK
<1>1. CASE UNCHANGED <<filters, now>>
  BY <1>1 DEF TimeInv, SortedByTime
<1>2. CASE Tick
  <2>1. now' = now + 1 /\ filters' = filters
    BY <1>2 DEF Tick, trackerVars
  <2>2. \A k \in 1..n : filters[k].tsent <= now + 1
    BY <1>0
  <2>3. QED
    BY <1>a, <1>0, <2>1, <2>2 DEF TimeInv, SortedByTime
<1>3. CASE StepBack
  BY <1>3 DEF StepBack
<1>4. CASE TimeoutSuccess \/ TimeoutDrop \/ TimeoutForget
  <2>1. filters # <<>> /\ filters' = Tail(filters) /\ now' = now
    BY <1>4 DEF TimeoutSuccess, TimeoutDrop, TimeoutForget, FrontTimedOut, PopFront
  <2>2. Len(filters') = n - 1 /\ \A k \in 1..n - 1 : filters'[k] = filters[k + 1]
    BY <1>a, <2>1, PopFacts
  <2>3. \A j, k \in 1..n - 1 : j + 1 \in 1..n /\ (j < k => j + 1 < k + 1)
    BY <1>0
  <2>4. QED
    BY <1>0, <2>1, <2>2, <2>3 DEF TimeInv, SortedByTime
<1>5. CASE TimeoutResend
  <2>1. filters # <<>> /\ filters' = Requeued /\ now' = now
    BY <1>5 DEF TimeoutResend, FrontTimedOut
  <2>2. /\ Len(filters') = n /\ filters'[n].tsent = now
        /\ \A k \in 1..n - 1 : filters'[k] = filters[k + 1]
    BY <1>a, <2>1, RequeueFacts
  <2>3. ASSUME NEW k \in 1..n
        PROVE  filters'[k].tsent <= now
    <3>1. k = n \/ (k \in 1..n - 1 /\ k + 1 \in 1..n)
      BY <1>0
    <3>2. QED
      BY <1>0, <2>2, <3>1
  <2>4. ASSUME NEW j \in 1..n, NEW k \in 1..n, j < k
        PROVE  filters'[j].tsent <= filters'[k].tsent
    <3>1. CASE k = n
      BY <2>2, <2>3, <3>1
    <3>2. CASE k # n
      <4>1. j \in 1..n - 1 /\ k \in 1..n - 1 /\ j + 1 \in 1..n /\ k + 1 \in 1..n
            /\ j + 1 < k + 1
        BY <1>0, <2>4, <3>2
      <4>2. QED
        BY <1>0, <2>2, <4>1
    <3>3. QED
      BY <3>1, <3>2
  <2>5. QED
    BY <2>1, <2>2, <2>3, <2>4 DEF TimeInv, SortedByTime
<1>6. ASSUME NEW d \in Nat, now' = now, Len(filters') = n + d,
             \A k \in 1..n : filters'[k].tsent = filters[k].tsent,
             \A k \in n + 1..n + d : filters'[k].tsent = now
      PROVE  TimeInv'
  <2>1. ASSUME NEW k \in 1..n + d
        PROVE  filters'[k].tsent <= now
    <3>1. k \in 1..n \/ k \in n + 1..n + d
      BY <1>0
    <3>2. QED
      BY <1>0, <1>6, <3>1
  <2>2. ASSUME NEW j \in 1..n + d, NEW k \in 1..n + d, j < k
        PROVE  filters'[j].tsent <= filters'[k].tsent
    <3>1. (j \in 1..n /\ k \in 1..n) \/ k \in n + 1..n + d
      BY <1>0, <2>2
    <3>2. QED
      BY <1>0, <1>6, <2>1, <2>2, <3>1
  <2>3. QED
    BY <1>6, <2>1, <2>2 DEF TimeInv, SortedByTime
<1>7. ASSUME NEW cmd \in Command, Track(cmd)
      PROVE  TimeInv'
  <2> DEFINE f == NewFilter(counters.sent + 1, cmd, TRUE)
  <2>1. f.tsent = now /\ filters' = Append(filters, f) /\ now' = now
    BY <1>7 DEF Track, NewFilter
  <2> HIDE DEF f
  <2>2. /\ Len(filters') = n + 1
        /\ \A k \in 1..n : filters'[k] = filters[k]
        /\ filters'[n + 1] = f
    BY <1>a, <2>1 DEF TypeOK
  <2>3. \A k \in n + 1..n + 1 : k = n + 1
    BY <1>0
  <2>4. QED
    BY <1>6, <2>1, <2>2, <2>3
<1>8. ASSUME NEW m \in Modules, NEW t \in Texts, NEW o, ProcessResponse(m, t, o)
      PROVE  TimeInv'
  <2>1. /\ Len(Additional[t]) \in Nat
        /\ Len(filters') = Len(filters) + Len(Additional[t])
        /\ \A k \in 1..Len(filters) : filters'[k].tsent = filters[k].tsent
        /\ \A k \in Len(filters) + 1..Len(filters) + Len(Additional[t]) :
             filters'[k].tsent = now
    BY <1>8, ResponseFacts, BusAssumption, BoundAssumption
  <2>2. now' = now
    BY <1>8 DEF ProcessResponse
  <2>3. QED
    BY <1>6, <1>a, <2>1, <2>2
<1>9. ASSUME NEW m \in Modules, NEW i \in Ids, Receive(m, i)
      PROVE  TimeInv'
  <2>1. asked[i].reply \in Texts
    BY <1>9 DEF Receive, TypeOK, SilentCommands, Command
  <2>2. QED
    BY <1>8, <1>9, <2>1 DEF Receive
<1>10. CASE SweepErase
  <2>1. cursor \in 1..Len(filters) /\ now' = now /\ filters' = EraseAt(filters, cursor)
    BY <1>a, <1>10 DEF SweepErase, TypeOK
  <2>2. /\ Len(filters') = n - 1
        /\ \A j \in 1..n - 1 :
             filters'[j] = IF j < cursor THEN filters[j] ELSE filters[j + 1]
    BY <1>a, <2>1, EraseFacts DEF TypeOK
  <2> DEFINE was(j) == IF j < cursor THEN j ELSE j + 1
  <2>3. /\ \A j \in 1..n - 1 : was(j) \in 1..n /\ filters'[j] = filters[was(j)]
        /\ \A j, k \in 1..n - 1 : j < k => was(j) < was(k)
    BY <1>a, <1>0, <2>1, <2>2
  <2> HIDE DEF was
  <2>4. ASSUME NEW k \in 1..n - 1
        PROVE  filters'[k].tsent <= now
    BY <1>0, <2>3
  <2>5. ASSUME NEW j \in 1..n - 1, NEW k \in 1..n - 1, j < k
        PROVE  filters'[j].tsent <= filters'[k].tsent
    BY <1>0, <2>3, <2>5
  <2>6. QED
    BY <2>1, <2>2, <2>4, <2>5 DEF TimeInv, SortedByTime
<1>11. QED
  BY <1>1, <1>2, <1>3, <1>4, <1>5, <1>7, <1>8, <1>9, <1>10, BusAssumption
  DEF Next, Service, Application, BeginService, TimeoutDone, WriteRetry, RetriesWritten,
      SendCommand, SendUIDPoll, CommandsDone, SkipCommands, ReceiveStray, ReceiveUnparsed,
      ReceiveDone, SweepKeep, SweepDone, SetEigenConfig, SetPollEnabled, trackerVars, vars

(* The filter queue stays sorted by time as long as the clock is never set   *)
(* back: that assumption is the only one the order rests on.                 *)
THEOREM Sorted == ASSUME ~ClockStepsBack PROVE Spec => []SortedByTime
<1>1. Init => TimeInv
  <2> SUFFICES ASSUME Init PROVE TimeInv
    OBVIOUS
  <2>1. \A k \in 1..Len(filters) : FALSE
    BY DEF Init
  <2>2. QED
    BY <2>1 DEF TimeInv, SortedByTime
<1>2. IInv /\ TimeInv /\ [Next]_vars => TimeInv'
  BY TimeStep DEF IInv
<1>3. TimeInv => SortedByTime
  BY DEF TimeInv
<1>4. QED
  BY <1>1, <1>2, <1>3, Invariance, PTL DEF Spec

-----------------------------------------------------------------------------
(***************************************************************************)
(* The retry budget.  A packet is paid for when its retry is queued, so    *)
(* that what is bounded is its writes and the copies still in packets_out. *)
(***************************************************************************)
Occurrences(q, i) == Cardinality({k \in 1..Len(q) : q[k] = i})

Total == [i \in Ids |-> writes[i] + Occurrences(packetsOut, i)]

\* A filter in the queue knows what has been spent on its packet.
Funded(f) ==
  /\ \E r \in RetrySettings : f.retries <= r
  /\ f.packet => Total[f.id] = f.retries + 1
  /\ ~f.packet => Total[f.id] = 0 /\ f.retries = 0

Budget ==
  /\ phase = "timeout" => limit \in RetrySettings
  /\ \A k \in 1..Len(filters) : Funded(filters[k])
  /\ \A i \in Ids :
       /\ \E r \in RetrySettings : Total[i] <= r + 1
       /\ fate[i] = "dropped" => Total[i] = 0 \/ \E r \in RetrySettings : Total[i] >= r + 1
       /\ fate[i] = "unsent" => Total[i] = 0

(* The places of an element in a sequence are finitely many. *)
LEMMA OccurrencesType ==
  ASSUME NEW S, NEW q \in Seq(S), NEW i
  PROVE  IsFiniteSet({k \in 1..Len(q) : q[k] = i}) /\ Occurrences(q, i) \in Nat
<1>1. Len(q) \in Int /\ 1 \in Int
  BY LenProperties
<1>2. IsFiniteSet(1..Len(q))
  BY <1>1, FS_Interval
<1>3. IsFiniteSet({k \in 1..Len(q) : q[k] = i})
  BY <1>2, FS_Subset
<1>4. QED
  BY <1>3, FS_CardinalityType DEF Occurrences

(* Queueing a retry adds one to its packet and to no other. *)
LEMMA OccurrencesAppend ==
  ASSUME NEW S, NEW q \in Seq(S), NEW x \in S, NEW i
  PROVE  Occurrences(Append(q, x), i) = Occurrences(q, i) + IF x = i THEN 1 ELSE 0
<1> DEFINE P == {k \in 1..Len(q) : q[k] = i}
           R == {k \in 1..Len(Append(q, x)) : Append(q, x)[k] = i}
<1>1. /\ Len(q) \in Nat /\ Len(Append(q, x)) = Len(q) + 1
      /\ \A k \in 1..Len(q) : Append(q, x)[k] = q[k]
      /\ Append(q, x)[Len(q) + 1] = x
  BY AppendProperties, LenProperties
<1>2. IsFiniteSet(P) /\ Cardinality(P) \in Nat
  BY OccurrencesType DEF Occurrences
<1>3. CASE x = i
  <2>1. R = P \cup {Len(q) + 1} /\ Len(q) + 1 \notin P
    BY <1>1, <1>3
  <2> HIDE DEF P, R
  <2>2. Cardinality(R) = Cardinality(P) + 1
    BY <1>2, <2>1, FS_AddElement
  <2>3. QED
    BY <1>3, <2>2 DEF Occurrences, P, R
<1>4. CASE x # i
  <2>1. R = P
    BY <1>1, <1>4
  <2> HIDE DEF P, R
  <2>2. Cardinality(R) = Cardinality(P) + 0
    BY <1>2, <2>1
  <2>3. QED
    BY <1>4, <2>2 DEF Occurrences, P, R
<1>5. QED
  BY <1>3, <1>4

(* Writing a retry takes one from its packet and from no other. *)
LEMMA OccurrencesTail ==
  ASSUME NEW S, NEW q \in Seq(S), q # <<>>, NEW i
  PROVE  Occurrences(q, i) = Occurrences(Tail(q), i) + IF Head(q) = i THEN 1 ELSE 0
<1> DEFINE P == {k \in 1..Len(Tail(q)) : Tail(q)[k] = i}
           R == {k \in 1..Len(q) : q[k] = i}
           M == {k \in R : k # 1}
           f == [k \in P |-> k + 1]
<1>1. /\ Len(q) \in Nat \ {0} /\ Len(Tail(q)) = Len(q) - 1 /\ Tail(q) \in Seq(S)
      /\ Head(q) = q[1] /\ \A k \in 1..Len(q) - 1 : Tail(q)[k] = q[k + 1]
  BY HeadTailProperties, EmptySeq
<1>2. IsFiniteSet(P) /\ Cardinality(P) \in Nat
  BY <1>1, OccurrencesType DEF Occurrences
<1>3. Cardinality(M) = Cardinality(P) /\ IsFiniteSet(M)
  <2>1. \A k \in P : k + 1 \in M
    BY <1>1
  <2>2. \A k \in M : k - 1 \in P /\ (k - 1) + 1 = k
    BY <1>1
  <2>3. \A j, k \in P : j + 1 = k + 1 => j = k
    BY <1>1
  <2> HIDE DEF P, M
  <2>4. f \in [P -> M] /\ \A k \in P : f[k] = k + 1
    BY <2>1
  <2>5. \A j, k \in P : f[j] = f[k] => j = k
    BY <2>3, <2>4
  <2>6. \A k \in M : \E j \in P : f[j] = k
    BY <2>2, <2>4
  <2> HIDE DEF f
  <2>7. f \in Bijection(P, M)
    BY <2>4, <2>5, <2>6 DEF Bijection, Injection, Surjection, IsInjective
  <2>8. ExistsBijection(P, M)
    BY <2>7 DEF ExistsBijection
  <2>9. QED
    BY <1>2, <2>8, FS_Bijection
<1>4. CASE Head(q) = i
  <2>1. R = M \cup {1} /\ 1 \notin M
    BY <1>1, <1>4
  <2> HIDE DEF P, R, M
  <2>2. Cardinality(R) = Cardinality(M) + 1
    BY <1>3, <2>1, FS_AddElement
  <2>3. QED
    BY <1>3, <1>4, <2>2 DEF Occurrences, P, R
<1>5. CASE Head(q) # i
  <2>1. R = M
    BY <1>1, <1>5
  <2> HIDE DEF P, R, M
  <2>2. Cardinality(R) = Cardinality(P) + 0
    BY <1>2, <1>3, <2>1
  <2>3. QED
    BY <1>5, <2>2 DEF Occurrences, P, R
<1>6. QED
  BY <1>4, <1>5

(* Where the filters of the queue come from: from a filter that was there, *)
(* with its packet and its retries, or from the announcement of a packet   *)
(* nobody has written.                                                     *)
Same(f, g) == f.id = g.id /\ f.packet = g.packet /\ f.retries = g.retries

Announcing(f) ==
  f.id \in Ids /\ fate[f.id] = "unsent" /\ ~f.packet /\ f.retries = 0

Inherited ==
  \A k \in 1..Len(filters') :
    Announcing(filters'[k]) \/ \E j \in 1..Len(filters) : Same(filters'[k], filters[j])

(* The totals and the filters being what they were, the budget is kept by  *)
(* verdicts that agree with it.                                            *)
LEMMA BudgetKept ==
  ASSUME TypeOK, BoundAssumption, Budget, Inherited,
         Total' = Total,
         \A k \in 1..Len(filters) : filters[k].id \in Ids,
         \A i \in Ids : fate'[i] = "dropped" =>
            \/ fate[i] = "dropped" \/ Total[i] = 0
            \/ \E r \in RetrySettings : Total[i] >= r + 1,
         \A i \in Ids : fate'[i] = "unsent" => fate[i] = "unsent",
         phase' = "timeout" => limit' \in RetrySettings
  PROVE  Budget'
<1>1. ASSUME NEW k \in 1..Len(filters')
      PROVE  Funded(filters[k])'
  <2>1. CASE Announcing(filters'[k])
    <3>1. Total'[filters'[k].id] = 0
      BY <2>1 DEF Announcing, Budget
    <3>2. \E r \in RetrySettings : 0 <= r
      BY BoundAssumption DEF BoundAssumption
    <3>3. QED
      BY <2>1, <3>1, <3>2 DEF Announcing, Funded
  <2>2. ASSUME NEW j \in 1..Len(filters), Same(filters'[k], filters[j])
        PROVE  Funded(filters[k])'
    <3>1. filters'[k].id \in Ids /\ Funded(filters[j])
      BY <2>2 DEF Same, Budget
    <3>2. Total'[filters'[k].id] = Total[filters[j].id]
      BY <2>2, <3>1 DEF Same
    <3>3. QED
      BY <2>2, <3>1, <3>2 DEF Same, Funded
  <2>3. QED
    BY <2>1, <2>2 DEF Inherited
<1>2. ASSUME NEW i \in Ids
      PROVE  /\ \E r \in RetrySettings : Total'[i] <= r + 1
             /\ fate'[i] = "dropped"
                  => Total'[i] = 0 \/ \E r \in RetrySettings : Total'[i] >= r + 1
             /\ fate'[i] = "unsent" => Total'[i] = 0
  BY <1>2 DEF Budget
<1>3. QED
  BY <1>1, <1>2 DEF Budget

(* Popping, keeping and erasing filters brings no new one. *)
LEMMA PopInherits ==
  ASSUME TypeOK, filters # <<>>, filters' = Tail(filters)
  PROVE  Inherited
<1>1. \A k \in 1..Len(filters') : k + 1 \in 1..Len(filters) /\ filters'[k] = filters[k + 1]
  BY PopFacts
<1>2. QED
  BY <1>1 DEF Inherited, Same

LEMMA EraseInherits ==
  ASSUME TypeOK, cursor \in 1..Len(filters), filters' = EraseAt(filters, cursor)
  PROVE  Inherited
<1>1. /\ Len(filters) \in Nat /\ Len(filters') = Len(filters) - 1
      /\ \A j \in 1..Len(filters) - 1 :
           filters'[j] = IF j < cursor THEN filters[j] ELSE filters[j + 1]
  BY EraseFacts, LenProperties DEF TypeOK
<1>2. \A k \in 1..Len(filters') :
        k \in 1..Len(filters) /\ k + 1 \in 1..Len(filters)
        /\ (filters'[k] = filters[k] \/ filters'[k] = filters[k + 1])
  BY <1>1
<1>3. QED
  BY <1>2 DEF Inherited, Same

(* A response changes who answered a filter and announces others. *)
LEMMA ResponseInherits ==
  ASSUME TypeOK, BusAssumption, BoundAssumption, Numbering,
         NEW m \in Modules, NEW t \in Texts, NEW o, ProcessResponse(m, t, o)
  PROVE  Inherited
<1> DEFINE a == Credit(m, t)
           b == Expectations(m, t)
           d == Len(Additional[t])
<1>1. counters.sent + d <= MaxSent /\ filters' = a \o b
  BY DEF ProcessResponse
<1>2. /\ d \in Nat /\ counters.sent \in Nat /\ b \in Seq(Filter) /\ Len(b) = d
      /\ \A k \in 1..d : counters.sent + k \in Ids /\ b[k].id = counters.sent + k
  BY <1>1, ExpectationFacts
<1>3. \A k \in 1..d : Announcing(b[k])
  <2> TAKE k \in 1..d
  <2>1. ~b[k].packet /\ b[k].retries = 0
    BY DEF Expectations, NewFilter
  <2>2. fate[b[k].id] = "unsent"
    BY <1>2 DEF Numbering
  <2>3. QED
    BY <1>2, <2>1, <2>2 DEF Announcing
<1>4. a \in Seq(Filter) /\ Len(a) = Len(filters)
  BY CreditFacts
<1>5. \A k \in 1..Len(filters) : Same(a[k], filters[k])
  <2>1. ASSUME NEW f \in Filter
        PROVE  Same(AddResponse(f, m), f) /\ Same(f, f)
    BY DEF Same, AddResponse, Filter
  <2> TAKE k \in 1..Len(filters)
  <2>2. filters[k] \in Filter
    BY ElementOfSeq DEF TypeOK
  <2>3. a[k] = IF FirstMatch(k, m, t) THEN AddResponse(filters[k], m) ELSE filters[k]
    BY DEF Credit
  <2>4. QED
    BY <2>1, <2>2, <2>3
<1> HIDE DEF a, b, d
<1>6. /\ Len(a) \in Nat /\ Len(a \o b) = Len(a) + d
      /\ \A k \in 1..Len(a) : (a \o b)[k] = a[k]
      /\ \A k \in Len(a) + 1..Len(a) + d :
           (a \o b)[k] = b[k - Len(a)] /\ k - Len(a) \in 1..d
  <2>1. a \in Seq(Filter) /\ b \in Seq(Filter)
    BY <1>2, <1>4
  <2>2. /\ a \o b \in Seq(Filter)
        /\ Len(a) \in Nat /\ Len(b) \in Nat
        /\ Len(a \o b) = Len(a) + Len(b)
        /\ \A k \in 1..Len(a) : (a \o b)[k] = a[k]
        /\ \A k \in Len(a) + 1..Len(a) + Len(b) :
             (a \o b)[k] = b[k - Len(a)] /\ k - Len(a) \in 1..Len(b)
    BY <2>1, ConcatFacts, Zenon
  <2>3. QED
    BY <1>2, <2>2
<1>7. ASSUME NEW k \in 1..Len(filters')
      PROVE  \/ \E j \in 1..d : filters'[k] = b[j]
             \/ \E j \in 1..Len(filters) : filters'[k] = a[j]
  <2>1. k \in 1..Len(a) \/ k \in Len(a) + 1..Len(a) + d
    BY <1>1, <1>2, <1>6
  <2>2. QED
    BY <1>1, <1>4, <1>6, <2>1
<1>8. QED
  BY <1>3, <1>5, <1>7 DEF Inherited

(* A retry is paid for at once: one more write to come, one more retry on  *)
(* the filter, and not more of them than max_retries was at the beginning  *)
(* of the loop.                                                            *)
LEMMA ResendPaid ==
  ASSUME TypeOK, TrackedOnce, Budget, TimeoutResend
  PROVE  Budget'
<1> DEFINE n == Len(filters)
           x == filters[1].id
           g == ResetTimeout(IncrementRetryCount(filters[1]))
<1>1. /\ filters # <<>> /\ phase = "timeout" /\ phase' = phase /\ limit' = limit
      /\ fate' = fate /\ writes' = writes /\ Head(filters).packet
      /\ filters' = Requeued /\ packetsOut' = Append(packetsOut, Head(filters).id)
  BY DEF TimeoutResend, FrontTimedOut, loopVars, busVars, historyVars
<1>2. /\ n \in Nat \ {0} /\ Head(filters) = filters[1] /\ filters[1] \in Filter
      /\ filters[1].retries \in Nat /\ x \in Ids /\ limit \in Nat
  <2>1. Head(filters) = filters[1] /\ filters[1] \in Filter /\ n \in Nat \ {0}
    BY <1>1, PopFacts
  <2>2. limit \in Nat
    BY BoundAssumption DEF BoundAssumption, TypeOK
  <2>3. QED
    BY <2>1, <2>2 DEF Filter
<1>3. limit \in RetrySettings /\ filters[1].retries < limit
  BY <1>1, <1>2 DEF Budget, TimeoutResend, RetriesSpent
<1>4. Len(filters') = n /\ (\A k \in 1..n - 1 : filters'[k] = filters[k + 1])
      /\ filters'[n].id = x
  BY <1>1, RequeueFacts
<1>5. filters'[n].packet /\ filters'[n].retries = filters[1].retries + 1
  <2>1. ASSUME NEW f \in Filter
        PROVE  /\ ResetTimeout(IncrementRetryCount(f)).packet = f.packet
               /\ ResetTimeout(IncrementRetryCount(f)).retries = f.retries + 1
    BY DEF ResetTimeout, IncrementRetryCount, Filter
  <2>2. filters' = Append(Tail(filters), g)
    BY <1>1, <1>2 DEF Requeued
  <2>3. g \in Filter
    BY <1>2, RetryType DEF TypeOK
  <2>4. Tail(filters) \in Seq(Filter) /\ Len(Tail(filters)) = n - 1
    BY <1>1, PopFacts
  <2> HIDE DEF g
  <2>5. filters'[n] = g
    BY <1>2, <2>2, <2>3, <2>4, AppendProperties
  <2>6. QED
    BY <1>1, <1>2, <2>1, <2>5 DEF g
<1>6. \A i \in Ids : Total'[i] = IF i = x THEN Total[i] + 1 ELSE Total[i]
  <2> TAKE i \in Ids
  <2>1. packetsOut \in Seq(Ids) /\ writes[i] \in Nat
    BY DEF TypeOK
  <2>2. Occurrences(packetsOut, i) \in Nat
    BY <2>1, OccurrencesType
  <2>3. Occurrences(packetsOut', i) = Occurrences(packetsOut, i) + IF x = i THEN 1 ELSE 0
    BY <1>1, <1>2, <2>1, OccurrencesAppend
  <2>4. QED
    BY <1>1, <2>1, <2>2, <2>3 DEF Total
<1>7. Total[x] = filters[1].retries + 1 /\ fate[x] = "live"
  <2>1. 1 \in 1..Len(filters)
    BY <1>2
  <2>2. QED
    BY <1>1, <1>2, <2>1 DEF Budget, Funded, TrackedOnce
<1>8. Funded(filters[n])'
  BY <1>2, <1>3, <1>4, <1>5, <1>6, <1>7 DEF Funded
<1>9. ASSUME NEW k \in 1..n - 1
      PROVE  Funded(filters[k])'
  <2>1. /\ k + 1 \in 1..n /\ 1 \in 1..n /\ k + 1 # 1
        /\ filters'[k] = filters[k + 1]
    BY <1>2, <1>4
  <2>2. filters[k + 1].id # x /\ filters[k + 1].id \in Ids /\ Funded(filters[k + 1])
    BY <2>1, QueuedIsLive DEF TrackedOnce, Budget
  <2>3. Total'[filters'[k].id] = Total[filters[k + 1].id]
    BY <1>6, <2>1, <2>2
  <2>4. QED
    BY <2>1, <2>2, <2>3 DEF Funded
<1>10. ASSUME NEW i \in Ids
       PROVE  /\ \E r \in RetrySettings : Total'[i] <= r + 1
              /\ fate'[i] = "dropped"
                   => Total'[i] = 0 \/ \E r \in RetrySettings : Total'[i] >= r + 1
              /\ fate'[i] = "unsent" => Total'[i] = 0
  <2>1. CASE i = x
    <3>1. Total'[i] <= limit + 1
      BY <1>2, <1>3, <1>6, <1>7, <2>1
    <3>2. QED
      BY <1>1, <1>3, <1>7, <2>1, <3>1
  <2>2. CASE i # x
    BY <1>1, <1>6, <2>2 DEF Budget
  <2>3. QED
    BY <2>1, <2>2
<1>11. QED
  <2>1. \A k \in 1..n : k \in 1..n - 1 \/ k = n
    BY <1>2
  <2>2. \A k \in 1..Len(filters') : Funded(filters[k])'
    BY <1>4, <1>8, <1>9, <2>1
  <2>3. QED
    BY <1>1, <1>3, <1>10, <2>2 DEF Budget

(* The first write of a packet. *)
LEMMA TrackPaid ==
  ASSUME TypeOK, BoundAssumption, Numbering, TrackedOnce, Budget, phase = "send",
         NEW cmd \in Command, Track(cmd)
  PROVE  Budget'
<1> DEFINE n == Len(filters)
           x == counters.sent + 1
           g == NewFilter(x, cmd, TRUE)
<1>1. /\ x \in Ids /\ fate[x] = "unsent"
  <2>1. counters.sent \in Nat /\ MaxSent \in Nat /\ x <= MaxSent
    BY DEF TypeOK, Counters, BoundAssumption, Track
  <2>2. QED
    BY <2>1 DEF Ids, Numbering
<1>2. /\ filters' = Append(filters, g) /\ packetsOut' = packetsOut /\ phase' = phase
      /\ writes' = [writes EXCEPT ![x] = 1] /\ fate' = [fate EXCEPT ![x] = "live"]
  BY DEF Track
<1>3. g \in Filter /\ g.id = x /\ g.packet /\ g.retries = 0
  BY <1>1, NewFilterType DEF NewFilter
<1> HIDE DEF g, x
<1>4. /\ n \in Nat /\ Len(filters') = n + 1 /\ filters'[n + 1] = g
      /\ \A k \in 1..n : filters'[k] = filters[k]
  BY <1>2, <1>3, AppendProperties, LenProperties DEF TypeOK
<1>5. Total'[x] = 1 /\ \A i \in Ids \ {x} : Total'[i] = Total[i]
  <2>1. packetsOut \in Seq(Ids) /\ writes[x] \in Nat
    BY <1>1 DEF TypeOK
  <2>2. Occurrences(packetsOut, x) \in Nat
    BY <2>1, OccurrencesType
  <2>3. writes[x] + Occurrences(packetsOut, x) = 0
    BY <1>1 DEF Budget, Total
  <2>4. Occurrences(packetsOut, x) = 0
    BY <2>1, <2>2, <2>3
  <2>5. \A i \in Ids : writes'[i] = IF i = x THEN 1 ELSE writes[i]
    BY <1>1, <1>2 DEF TypeOK
  <2>6. QED
    BY <1>1, <1>2, <2>4, <2>5 DEF Total
<1>6. ASSUME NEW k \in 1..n
      PROVE  Funded(filters[k])'
  <2>1. filters[k].id \in Ids \ {x} /\ Funded(filters[k])
    BY <1>1, QueuedIsLive DEF Budget
  <2>2. QED
    BY <1>4, <1>5, <2>1 DEF Funded
<1>7. \E r \in RetrySettings : 0 <= r /\ 1 <= r + 1
  <2>1. PICK r \in RetrySettings : r \in Nat
    BY BoundAssumption DEF BoundAssumption
  <2>2. 0 <= r /\ 1 <= r + 1
    BY <2>1
  <2>3. QED
    BY <2>2
<1>8. ASSUME NEW k \in 1..Len(filters'), k = n + 1
      PROVE  Funded(filters[k])'
  <2>1. filters'[k] = g
    BY <1>4, <1>8
  <2>2. Total'[g.id] = g.retries + 1
    BY <1>3, <1>5
  <2>3. \E r \in RetrySettings : g.retries <= r
    BY <1>3, <1>7
  <2>4. QED
    BY <1>3, <2>1, <2>2, <2>3 DEF Funded
<1>9. \A i \in Ids : fate'[i] = IF i = x THEN "live" ELSE fate[i]
  BY <1>2 DEF TypeOK
<1>10. ASSUME NEW i \in Ids
       PROVE  /\ \E r \in RetrySettings : Total'[i] <= r + 1
              /\ fate'[i] = "dropped"
                   => Total'[i] = 0 \/ \E r \in RetrySettings : Total'[i] >= r + 1
              /\ fate'[i] = "unsent" => Total'[i] = 0
  <2>1. CASE i = x
    BY <1>5, <1>7, <1>9, <2>1
  <2>2. CASE i # x
    BY <1>5, <1>9, <2>2 DEF Budget
  <2>3. QED
    BY <2>1, <2>2
<1>11. QED
  <2>1. \A k \in 1..Len(filters') : k \in 1..n \/ k = n + 1
    BY <1>4
  <2>2. \A k \in 1..Len(filters') : Funded(filters[k])'
    BY <1>6, <1>8, <2>1
  <2>3. QED
    BY <1>2, <1>10, <2>2 DEF Budget

(* Writing a queued retry moves it from the queue to the bus. *)
LEMMA WritePaid ==
  ASSUME TypeOK, WriteRetry
  PROVE  Total' = Total
<1>1. /\ packetsOut # <<>> /\ packetsOut' = Tail(packetsOut)
      /\ writes' = [writes EXCEPT ![Head(packetsOut)] = @ + 1]
      /\ packetsOut \in Seq(Ids)
  BY DEF WriteRetry, TypeOK
<1>2. Tail(packetsOut) \in Seq(Ids) /\ Head(packetsOut) \in Ids
  BY <1>1, HeadTailProperties
<1>3. ASSUME NEW i \in Ids
      PROVE  writes'[i] + Occurrences(packetsOut', i) = writes[i] + Occurrences(packetsOut, i)
  <2>1. Occurrences(packetsOut, i)
          = Occurrences(packetsOut', i) + IF Head(packetsOut) = i THEN 1 ELSE 0
    BY <1>1, OccurrencesTail
  <2>2. Occurrences(packetsOut', i) \in Nat
    BY <1>1, <1>2, OccurrencesType
  <2>3. writes[i] \in Nat
        /\ writes'[i] = IF i = Head(packetsOut) THEN writes[i] + 1 ELSE writes[i]
    BY <1>1 DEF TypeOK
  <2>4. QED
    BY <2>1, <2>2, <2>3
<1>4. QED
  BY <1>3 DEF Total

LEMMA BudgetStep ==
  ASSUME IInv, Budget, [Next]_vars
  PROVE  Budget'
<1>1. /\ TypeOK /\ SilentCommands /\ TrackedOnce /\ Numbering
      /\ BusAssumption /\ BoundAssumption
  BY BusAssumption, BoundAssumption DEF IInv
<1>2. \A k \in 1..Len(filters) : filters[k].id \in Ids
  BY <1>1, QueuedIsLive
<1>3. writes' = writes /\ packetsOut' = packetsOut => Total' = Total
  BY DEF Total
<1>4. filters' = filters => Inherited
  BY DEF Inherited, Same
<1>5. CASE TimeoutSuccess \/ TimeoutDrop \/ TimeoutForget
  <2>1. /\ filters # <<>> /\ phase' = phase /\ limit' = limit
        /\ filters' = Tail(filters) /\ Total' = Total
    BY <1>3, <1>5 DEF TimeoutSuccess, TimeoutDrop, TimeoutForget, FrontTimedOut, PopFront,
                      loopVars, busVars
  <2>2. Inherited
    BY <1>1, <2>1, PopInherits
  <2>3. ASSUME NEW i \in Ids, fate'[i] = "dropped"
        PROVE  \/ fate[i] = "dropped" \/ Total[i] = 0
               \/ \E r \in RetrySettings : Total[i] >= r + 1
    <3>1. CASE fate[i] = "dropped"
      BY <3>1
    <3>2. CASE fate[i] # "dropped"
      <4>1. /\ phase = "timeout" /\ filters[1].retries >= limit /\ filters[1].id = i
            /\ filters[1] \in Filter /\ 1 \in 1..Len(filters)
        BY <1>1, <1>5, <2>1, <2>3, <3>2, PopFacts
        DEF TimeoutSuccess, TimeoutDrop, TimeoutForget, FrontTimedOut, PopFront,
            RetriesSpent, TypeOK
      <4>2. limit \in RetrySettings /\ Funded(filters[1])
        BY <4>1 DEF Budget
      <4>3. limit \in Nat /\ filters[1].retries \in Nat
        BY <4>1, <4>2, <1>1 DEF Filter, BoundAssumption
      <4>4. Total[i] = 0 \/ Total[i] >= limit + 1
        BY <4>1, <4>2, <4>3 DEF Funded
      <4>5. QED
        BY <4>2, <4>4
    <3>3. QED
      BY <3>1, <3>2
  <2>4. \A i \in Ids : fate'[i] = "unsent" => fate[i] = "unsent"
    BY <1>1, <1>5 DEF TimeoutSuccess, TimeoutDrop, TimeoutForget, PopFront, TypeOK
  <2>5. phase' = "timeout" => limit' \in RetrySettings
    BY <2>1 DEF Budget
  <2>6. QED
    BY <1>1, <1>2, <2>1, <2>2, <2>3, <2>4, <2>5, BudgetKept
<1>6. CASE TimeoutResend
  BY <1>1, <1>6, ResendPaid
<1>7. ASSUME NEW cmd \in Command, phase = "send", Track(cmd)
      PROVE  Budget'
  BY <1>1, <1>7, TrackPaid
<1>8. ASSUME NEW m \in Modules, NEW t \in Texts, NEW o, phase = "receive",
             ProcessResponse(m, t, o)
      PROVE  Budget'
  <2>1. /\ phase' = phase /\ Total' = Total
        /\ \A i \in Ids : fate'[i] \in {fate[i], "live"}
    BY <1>3, <1>8 DEF ProcessResponse
  <2>2. Inherited
    BY <1>1, <1>8, ResponseInherits
  <2>3. QED
    BY <1>1, <1>2, <1>8, <2>1, <2>2, BudgetKept
<1>9. CASE SweepErase
  <2>1. /\ phase' = phase /\ phase = "success" /\ Total' = Total
        /\ cursor \in 1..Len(filters) /\ filters' = EraseAt(filters, cursor)
        /\ \A i \in Ids : fate'[i] \in {fate[i], "success"}
    BY <1>1, <1>3, <1>9, LenProperties DEF SweepErase, busVars, TypeOK
  <2>2. Inherited
    BY <1>1, <2>1, EraseInherits
  <2>3. QED
    BY <1>1, <1>2, <2>1, <2>2, BudgetKept
<1>10. CASE /\ filters' = filters /\ fate' = fate /\ Total' = Total
            /\ phase' = "timeout" => limit' \in RetrySettings
  BY <1>1, <1>2, <1>4, <1>10, BudgetKept
<1>11. CASE WriteRetry
  <2>1. filters' = filters /\ fate' = fate /\ phase' = "resend"
    BY <1>11 DEF WriteRetry, loopVars, historyVars
  <2>2. Total' = Total
    BY <1>1, <1>11, WritePaid
  <2>3. QED
    BY <1>10, <2>1, <2>2
<1>12. CASE BeginService
  <2>1. /\ filters' = filters /\ fate' = fate /\ Total' = Total
        /\ limit' \in RetrySettings
    BY <1>1, <1>3, <1>12 DEF BeginService, trackerVars, busVars, historyVars, TypeOK
  <2>2. QED
    BY <1>10, <2>1
<1>13. CASE \/ TimeoutDone \/ RetriesWritten \/ CommandsDone \/ SkipCommands
            \/ ReceiveUnparsed \/ ReceiveDone \/ SweepKeep \/ SweepDone
            \/ Application \/ Tick \/ StepBack \/ UNCHANGED vars
  <2>1. /\ filters' = filters /\ fate' = fate /\ writes' = writes /\ packetsOut' = packetsOut
        /\ phase' = "timeout" => phase = "timeout" /\ limit' = limit
    BY <1>13 DEF TimeoutDone, RetriesWritten, CommandsDone, SkipCommands, ReceiveUnparsed,
      ReceiveDone, SweepKeep, SweepDone, Application, SetEigenConfig, SetPollEnabled, Tick,
      StepBack, vars, trackerVars, busVars, historyVars, loopVars
  <2>2. QED
    BY <1>3, <1>10, <2>1 DEF Budget
<1>14. ASSUME NEW m \in Modules, NEW i \in Ids, Receive(m, i)
       PROVE  Budget'
  <2>1. asked[i].reply \in Texts
    BY <1>1, <1>14 DEF Receive, TypeOK, SilentCommands, Command
  <2>2. QED
    BY <1>8, <1>14, <2>1 DEF Receive
<1>15. ASSUME NEW m \in Modules, NEW t \in Texts, ReceiveStray(m, t)
       PROVE  Budget'
  BY <1>8, <1>15 DEF ReceiveStray
<1>16. ASSUME NEW cmd \in Commands, SendCommand(cmd)
       PROVE  Budget'
  BY <1>1, <1>7, <1>16 DEF SendCommand, BusAssumption
<1>17. CASE SendUIDPoll
  BY <1>1, <1>7, <1>17 DEF SendUIDPoll, BusAssumption
<1>18. QED
  BY <1>5, <1>6, <1>9, <1>11, <1>12, <1>13, <1>14, <1>15, <1>16, <1>17
  DEF Next, Service

(* Nothing is paid for in the beginning. *)
LEMMA BudgetInit == Init => Budget
<1> SUFFICES ASSUME Init PROVE Budget
  OBVIOUS
<1>1. /\ Len(filters) = 0 /\ packetsOut = <<>> /\ phase = "idle"
      /\ \A i \in Ids : writes[i] = 0 /\ fate[i] = "unsent"
  BY DEF Init
<1>2. \A i \in Ids : Total[i] = 0
  <2>1. \A i : {k \in 1..Len(packetsOut) : packetsOut[k] = i} = {}
    BY <1>1
  <2>2. QED
    BY <1>1, <2>1, FS_EmptySet DEF Total, Occurrences
<1>3. PICK r \in RetrySettings : r \in Nat
  BY BoundAssumption DEF BoundAssumption
<1>4. \A i \in Ids : Total[i] <= r + 1
  BY <1>2, <1>3
<1>5. QED
  BY <1>1, <1>2, <1>4 DEF Budget

(* A packet is written at most max_retries times after the first, and one   *)
(* that was dropped had its whole budget: packets_out, the retry count of   *)
(* the filter and the writes of the service loop agree, whatever the        *)
(* application sets max_retries to meanwhile.                               *)
THEOREM BudgetHolds == Spec => []WriteBudget
<1>1. IInv /\ Budget /\ [Next]_vars => Budget'
  BY BudgetStep
<1>2. IInv /\ Budget => WriteBudget
  <2> SUFFICES ASSUME IInv, Budget, NEW i \in Ids
               PROVE  /\ \E r \in RetrySettings : writes[i] <= r + 1
                      /\ packetsOut = <<>> /\ fate[i] = "dropped" /\ writes[i] > 0
                           => \E r \in RetrySettings : writes[i] >= r + 1
    BY DEF WriteBudget
  <2>1. writes[i] \in Nat /\ packetsOut \in Seq(Ids)
    BY DEF IInv, TypeOK
  <2>2. Occurrences(packetsOut, i) \in Nat
    BY <2>1, OccurrencesType
  <2>3. Total[i] = writes[i] + Occurrences(packetsOut, i)
    BY DEF Total
  <2>4. PICK r \in RetrySettings : Total[i] <= r + 1 /\ r \in Nat
    BY BoundAssumption DEF Budget, BoundAssumption
  <2>5. writes[i] <= r + 1
    BY <2>1, <2>2, <2>3, <2>4
  <2>6. packetsOut = <<>> => Total[i] = writes[i]
    <3>1. packetsOut = <<>> => {k \in 1..Len(packetsOut) : packetsOut[k] = i} = {}
      OBVIOUS
    <3>2. QED
      BY <2>1, <2>3, <3>1, FS_EmptySet DEF Occurrences
  <2>7. QED
    BY <2>1, <2>5, <2>6 DEF Budget
<1>3. QED
  BY <1>1, <1>2, BudgetInit, Invariance, PTL DEF Spec

-----------------------------------------------------------------------------
(***************************************************************************)
(* The queue and the counters implement the ledger.                        *)
(***************************************************************************)

(* The queues that hold the same filters hold the same packets. *)
LEMMA EntriesAppend ==
  ASSUME NEW S, NEW q \in Seq(S), NEW x \in S
  PROVE  Entries(Append(q, x)) = Entries(q) \cup {Entry(x)}
<1> DEFINE a == Append(q, x)
           n == Len(q)
<1>1. /\ n \in Nat /\ Len(a) = n + 1 /\ a[n + 1] = x
      /\ \A k \in 1..n : a[k] = q[k]
  BY AppendProperties, LenProperties
<1> HIDE DEF a, n
<1>2. 1..n + 1 = (1..n) \cup {n + 1}
  BY <1>1
<1>3. {Entry(a[k]) : k \in 1..n + 1} = {Entry(q[k]) : k \in 1..n} \cup {Entry(x)}
  BY <1>1, <1>2
<1>4. QED
  BY <1>1, <1>3 DEF Entries, a, n

LEMMA EntriesConcat ==
  ASSUME NEW S, NEW a \in Seq(S), NEW b \in Seq(S)
  PROVE  Entries(a \o b) = Entries(a) \cup Entries(b)
<1> DEFINE c == a \o b
<1>1. /\ Len(a) \in Nat /\ Len(b) \in Nat
      /\ Len(c) = Len(a) + Len(b)
      /\ \A k \in 1..Len(a) : c[k] = a[k]
      /\ \A k \in Len(a) + 1..Len(a) + Len(b) :
           c[k] = b[k - Len(a)] /\ k - Len(a) \in 1..Len(b)
  BY ConcatFacts
<1> HIDE DEF c
<1>2. ASSUME NEW k \in 1..Len(c)
      PROVE  Entry(c[k]) \in Entries(a) \cup Entries(b)
  <2>1. CASE k <= Len(a)
    BY <1>1, <2>1 DEF Entries
  <2>2. CASE ~(k <= Len(a))
    <3>1. k \in Len(a) + 1..Len(a) + Len(b)
      BY <1>1, <2>2
    <3>2. PICK j \in 1..Len(b) : c[k] = b[j]
      BY <1>1, <3>1, Zenon
    <3>3. QED
      BY <3>2 DEF Entries
  <2>3. QED
    BY <2>1, <2>2
<1>3. ASSUME NEW k \in 1..Len(a)
      PROVE  Entry(a[k]) \in Entries(c)
  <2>1. k \in 1..Len(c) /\ c[k] = a[k]
    BY <1>1
  <2>2. QED
    BY <2>1 DEF Entries
<1>4. ASSUME NEW k \in 1..Len(b)
      PROVE  Entry(b[k]) \in Entries(c)
  <2>1. PICK j \in Len(a) + 1..Len(a) + Len(b) : j - Len(a) = k /\ j \in 1..Len(c)
    <3>1. /\ Len(a) + k \in Len(a) + 1..Len(a) + Len(b) /\ (Len(a) + k) - Len(a) = k
          /\ Len(a) + k \in 1..Len(c)
      BY <1>1
    <3>2. QED
      BY <3>1, Zenon
  <2>2. c[j] = b[k]
    BY <1>1, <2>1
  <2>3. QED
    BY <2>1, <2>2 DEF Entries
<1>5. QED
  BY <1>2, <1>3, <1>4 DEF Entries, c

(* What is left of a queue without its k-th filter: the packets without     *)
(* that one, because no other filter is about it.                           *)
Loses(r, k) ==
  /\ k \in 1..Len(filters)
  /\ \A j \in 1..Len(r) : \E i \in 1..Len(filters) : i # k /\ r[j] = filters[i]
  /\ \A i \in 1..Len(filters) : i # k => \E j \in 1..Len(r) : r[j] = filters[i]

LEMMA EntriesLost ==
  ASSUME TrackedOnce, NEW r, NEW k, Loses(r, k)
  PROVE  Entry(filters[k]) \in Entries(filters)
         /\ Entries(r) = Entries(filters) \ {Entry(filters[k])}
<1>1. k \in 1..Len(filters)
  BY DEF Loses
<1>2. \A i \in 1..Len(filters) : Entry(filters[i]) = Entry(filters[k]) => i = k
  <2>1. \A f, g : Entry(f) = Entry(g) => f.id = g.id
    BY DEF Entry
  <2>2. QED
    BY <1>1, <2>1 DEF TrackedOnce
<1>3. \A j \in 1..Len(r) : Entry(r[j]) \in Entries(filters) \ {Entry(filters[k])}
  BY <1>2 DEF Loses, Entries
<1>4. \A i \in 1..Len(filters) :
        Entry(filters[i]) # Entry(filters[k]) => \E j \in 1..Len(r) : Entry(r[j]) = Entry(filters[i])
  BY DEF Loses
<1>5. Entries(r) \subseteq Entries(filters) \ {Entry(filters[k])}
  BY <1>3 DEF Entries
<1>6. Entries(filters) \ {Entry(filters[k])} \subseteq Entries(r)
  BY <1>4 DEF Entries
<1>7. Entry(filters[k]) \in Entries(filters)
  BY <1>1 DEF Entries
<1>8. QED
  BY <1>5, <1>6, <1>7

LEMMA TailLoses ==
  ASSUME TypeOK, filters # <<>>
  PROVE  Loses(Tail(filters), 1)
<1>1. /\ Len(filters) \in Nat \ {0} /\ Len(Tail(filters)) = Len(filters) - 1
      /\ \A k \in 1..Len(Tail(filters)) : Tail(filters)[k] = filters[k + 1]
  BY PopFacts
<1> DEFINE r == Tail(filters)
           n == Len(filters)
<1> HIDE DEF r, n
<1>2. /\ n \in Nat \ {0} /\ Len(r) = n - 1
      /\ \A k \in 1..n - 1 : r[k] = filters[k + 1] /\ k + 1 \in 1..n /\ k + 1 # 1
  BY <1>1 DEF r, n
<1>3. \A i \in 1..n : i # 1 => i - 1 \in 1..n - 1 /\ (i - 1) + 1 = i
  BY <1>2
<1>4. \A i \in 1..n : i # 1 => r[i - 1] = filters[i]
  BY <1>2, <1>3
<1>5. 1 \in 1..n
  BY <1>2
<1>6. QED
  BY <1>2, <1>3, <1>4, <1>5 DEF Loses, r, n

LEMMA EraseLoses ==
  ASSUME TypeOK, cursor \in 1..Len(filters)
  PROVE  Loses(EraseAt(filters, cursor), cursor)
<1>1. /\ Len(filters) \in Nat /\ cursor \in Nat /\ cursor <= Len(filters)
      /\ Len(EraseAt(filters, cursor)) = Len(filters) - 1
      /\ \A j \in 1..Len(filters) - 1 :
           EraseAt(filters, cursor)[j] = IF j < cursor THEN filters[j] ELSE filters[j + 1]
  BY EraseFacts, LenProperties DEF TypeOK
<1> DEFINE r == EraseAt(filters, cursor)
           n == Len(filters)
<1> HIDE DEF r, n
<1>2. /\ n \in Nat /\ cursor \in Nat /\ cursor <= n /\ Len(r) = n - 1
      /\ \A j \in 1..n - 1 : r[j] = IF j < cursor THEN filters[j] ELSE filters[j + 1]
  BY <1>1 DEF r, n
<1>3. ASSUME NEW j \in 1..n - 1
      PROVE  \E i \in 1..n : i # cursor /\ r[j] = filters[i]
  <2>1. j \in 1..n /\ j + 1 \in 1..n /\ (j < cursor \/ j + 1 # cursor) /\ (j < cursor => j # cursor)
    BY <1>2
  <2>2. QED
    BY <1>2, <2>1
<1>4. ASSUME NEW i \in 1..n, i # cursor
      PROVE  \E j \in 1..n - 1 : r[j] = filters[i]
  <2>1. CASE i < cursor
    <3>1. i \in 1..n - 1
      BY <1>2, <2>1
    <3>2. QED
      BY <1>2, <2>1, <3>1
  <2>2. CASE ~(i < cursor)
    <3>1. i - 1 \in 1..n - 1 /\ (i - 1) + 1 = i /\ ~(i - 1 < cursor)
      BY <1>2, <1>4, <2>2
    <3>2. QED
      BY <1>2, <3>1
  <2>3. QED
    BY <2>1, <2>2
<1>5. QED
  BY <1>2, <1>3, <1>4 DEF Loses, r, n

(* The packets of the ledger, and what repeating and answering does to one. *)
Packet == [id: Ids, repeatable: BOOLEAN, expects: BOOLEAN, retries: Nat, from: SUBSET Modules]

LEMMA EntryType ==
  ASSUME NEW f \in Filter
  PROVE  /\ Entry(f) \in Packet
         /\ Entry(f).id = f.id /\ Entry(f).repeatable = f.packet
         /\ Entry(f).expects = ExpectsResponse(f)
         /\ Entry(f).retries = f.retries /\ Entry(f).from = f.from
<1>1. ExpectsResponse(f) \in BOOLEAN
  BY Zenon DEF ExpectsResponse
<1>2. /\ f.id \in Ids /\ f.packet \in BOOLEAN /\ f.retries \in Nat
      /\ f.from \in SUBSET Modules
  BY DEF Filter
<1>3. QED
  BY <1>1, <1>2 DEF Entry, Packet

LEMMA PacketUpdates ==
  ASSUME NEW w \in Packet, NEW v \in Packet, v.id = w.id, v.repeatable = w.repeatable,
         v.expects = w.expects
  PROVE  /\ v.from = w.from /\ v.retries = w.retries + 1 => v = [w EXCEPT !.retries = @ + 1]
         /\ \A m : v.retries = w.retries /\ v.from = w.from \cup {m}
                   => v = [w EXCEPT !.from = @ \cup {m}]
BY DEF Packet

(* A set of numbers has a least one. *)
LEMMA LeastExists ==
  ASSUME NEW S \in SUBSET Nat, S # {}
  PROVE  \E x \in S : \A y \in S : ~(y < x)
<1>1. PICK x \in S : \A y \in S : ~(<<y, x>> \in OpToRel(<, Nat))
  BY NatLessThanWellFounded, WFMin
<1>2. QED
  BY <1>1 DEF OpToRel

(* A response that matches has a first filter to match, and one only. *)
LEMMA FirstMatchExists ==
  ASSUME TypeOK, NEW m, NEW t, Matched(m, t)
  PROVE  \E k \in 1..Len(filters) : FirstMatch(k, m, t)
<1> DEFINE S == {k \in 1..Len(filters) : MatchesFilter(filters[k], m, t)}
<1>1. S # {} /\ S \in SUBSET Nat
  BY DEF Matched
<1> HIDE DEF S
<1>2. PICK x \in S : \A y \in S : ~(y < x)
  BY <1>1, LeastExists
<1>3. x \in 1..Len(filters) /\ MatchesFilter(filters[x], m, t) /\ Len(filters) \in Nat
  BY LenProperties DEF S, TypeOK
<1>4. \A y \in 1..x - 1 : y \in 1..Len(filters) /\ y < x
  BY <1>3
<1>5. \A y \in 1..x - 1 : ~MatchesFilter(filters[y], m, t)
  BY <1>2, <1>4 DEF S
<1>6. QED
  BY <1>3, <1>5 DEF FirstMatch

LEMMA FirstMatchUnique ==
  ASSUME NEW m, NEW t, NEW j \in Nat \ {0}, NEW k \in Nat \ {0},
         FirstMatch(j, m, t), FirstMatch(k, m, t)
  PROVE  j = k
<1>1. j < k => j \in 1..k - 1
  OBVIOUS
<1>2. k < j => k \in 1..j - 1
  OBVIOUS
<1>3. ~(j < k) /\ ~(k < j)
  BY <1>1, <1>2 DEF FirstMatch
<1>4. QED
  BY <1>3

(* Crediting replaces one packet by itself with one more answer. *)
LEMMA EntriesCredited ==
  ASSUME TypeOK, TrackedOnce, NEW m \in Modules, NEW t \in Texts,
         NEW k \in 1..Len(filters), FirstMatch(k, m, t)
  PROVE  LET w == Entry(filters[k])
         IN  /\ w \in Entries(filters) /\ m \notin w.from
             /\ Entries(Credit(m, t))
                  = (Entries(filters) \ {w}) \cup {[w EXCEPT !.from = @ \cup {m}]}
<1> DEFINE w == Entry(filters[k])
           v == [w EXCEPT !.from = @ \cup {m}]
           a == Credit(m, t)
           n == Len(filters)
<1>1. n \in Nat /\ \A j \in 1..n : filters[j] \in Filter
  BY ElementOfSeq, LenProperties DEF TypeOK
<1>2. Len(a) = n
  BY CreditFacts
<1>3. \A j \in 1..n : a[j] = IF FirstMatch(j, m, t) THEN AddResponse(filters[j], m) ELSE filters[j]
  BY DEF Credit
<1>4. \A j \in 1..n : FirstMatch(j, m, t) => j = k
  BY <1>1, FirstMatchUnique
<1>5. Entry(AddResponse(filters[k], m)) = v
  <2>1. ASSUME NEW f \in Filter
        PROVE  Entry(AddResponse(f, m)) = [Entry(f) EXCEPT !.from = @ \cup {m}]
    <3>1. /\ AddResponse(f, m).id = f.id /\ AddResponse(f, m).packet = f.packet
          /\ AddResponse(f, m).filter = f.filter /\ AddResponse(f, m).retries = f.retries
          /\ AddResponse(f, m).from = f.from \cup {m}
      BY DEF AddResponse, Filter
    <3>2. ExpectsResponse(AddResponse(f, m)) = ExpectsResponse(f)
      BY <3>1, Zenon DEF ExpectsResponse
    <3>3. AddResponse(f, m) \in Filter
      BY DEF AddResponse, Filter
    <3> DEFINE x == Entry(f)
               y == Entry(AddResponse(f, m))
    <3>4. /\ x \in Packet /\ y \in Packet /\ y.id = x.id /\ y.repeatable = x.repeatable
          /\ y.expects = x.expects /\ y.retries = x.retries /\ y.from = x.from \cup {m}
      BY <3>1, <3>2, <3>3, EntryType
    <3> HIDE DEF x, y
    <3>5. y = [x EXCEPT !.from = @ \cup {m}]
      BY <3>4, PacketUpdates
    <3>6. QED
      BY <3>5 DEF x, y
  <2>2. QED
    BY <1>1, <2>1
<1>6. m \notin w.from
  BY DEF FirstMatch, MatchesFilter, Entry
<1>7. w \in Entries(filters)
  BY DEF Entries
<1>8. \A j \in 1..n : j # k => Entry(filters[j]) # w
  <2>1. \A f, g : Entry(f) = Entry(g) => f.id = g.id
    BY DEF Entry
  <2>2. QED
    BY <2>1 DEF TrackedOnce
<1> HIDE DEF a, v, w, n
<1>9. Entry(a[k]) = v /\ k \in 1..n
  BY <1>3, <1>5 DEF n
<1>10. \A j \in 1..n : j # k => Entry(a[j]) = Entry(filters[j])
  BY <1>3, <1>4
<1>11. Entries(a) = {Entry(a[j]) : j \in 1..n} /\ Entries(filters) = {Entry(filters[j]) : j \in 1..n}
  BY <1>2 DEF Entries, n
<1>12. Entry(filters[k]) = w
  BY DEF w
<1>13. Entries(a) \subseteq (Entries(filters) \ {w}) \cup {v}
  BY <1>8, <1>9, <1>10, <1>11
<1>14. (Entries(filters) \ {w}) \cup {v} \subseteq Entries(a)
  BY <1>9, <1>10, <1>11, <1>12
<1>15. Entries(a) = (Entries(filters) \ {w}) \cup {v}
  BY <1>13, <1>14
<1>16. QED
  BY <1>6, <1>7, <1>15 DEF a, v, w

(* What a response announces is what the ledger lets it announce. *)
LEMMA EntriesAnnounced ==
  ASSUME TypeOK, BusAssumption, BoundAssumption, NEW m \in Modules, NEW t \in Texts,
         counters.sent + Len(Additional[t]) <= MaxSent
  PROVE  /\ Len(Additional[t]) \in 0..MaxSent - counters.sent
         /\ Entries(Expectations(m, t)) = Ledger!Announced(Len(Additional[t]))
<1> DEFINE n == Len(Additional[t])
           c == counters.sent
           b == Expectations(m, t)
<1>1. /\ n \in Nat /\ c \in Nat /\ Len(b) = n
      /\ \A k \in 1..n : Additional[t][k] \in Texts
  BY ExpectationFacts
<1>2. n \in 0..MaxSent - c
  BY <1>1, BoundAssumption DEF BoundAssumption
<1>3. \A k \in 1..n : Entry(b[k]) = Ledger!New(c + k, FALSE, TRUE)
  <2> TAKE k \in 1..n
  <2>1. Additional[t][k] # NoText
    BY <1>1, BusAssumption DEF BusAssumption
  <2>2. b[k] = NewFilter(c + k, [addr |-> m, filter |-> Additional[t][k],
                                 reply |-> Additional[t][k]], FALSE)
    BY DEF Expectations
  <2>3. /\ b[k].id = c + k /\ b[k].packet = FALSE /\ b[k].filter = Additional[t][k]
        /\ b[k].retries = 0 /\ b[k].from = {}
    BY <2>2 DEF NewFilter
  <2>4. ExpectsResponse(b[k]) = TRUE
    BY <2>1, <2>3, Zenon DEF ExpectsResponse
  <2>5. QED
    BY <2>3, <2>4 DEF Entry, Ledger!New
<1> HIDE DEF b
<1>4. Entries(b) = {Ledger!New(c + k, FALSE, TRUE) : k \in 1..n}
  BY <1>1, <1>3 DEF Entries
<1>5. Ledger!Announced(n) = {Ledger!New(i, FALSE, TRUE) : i \in c + 1..c + n}
  BY DEF Ledger!Announced
<1> HIDE DEF n, c
<1>6. /\ \A k \in 1..n : c + k \in c + 1..c + n
      /\ \A i \in c + 1..c + n : i - c \in 1..n /\ c + (i - c) = i
  BY <1>1
<1>7. Entries(b) \subseteq Ledger!Announced(n)
  BY <1>4, <1>5, <1>6
<1>8. Ledger!Announced(n) \subseteq Entries(b)
  <2> SUFFICES ASSUME NEW i \in c + 1..c + n
               PROVE  Ledger!New(i, FALSE, TRUE) \in Entries(b)
    BY <1>5
  <2>1. PICK k \in 1..n : c + k = i
    BY <1>6
  <2>2. QED
    BY <1>4, <2>1
<1>9. QED
  BY <1>2, <1>7, <1>8 DEF b, n, c

(* A counter that grows leaves the others alone. *)
LEMMA CountedOnce ==
  ASSUME NEW c \in Counters
  PROVE  /\ LET d == [c EXCEPT !.success = @ + 1]
            IN  /\ d.success = c.success + 1 /\ d.sent = c.sent /\ d.dropped = c.dropped
                /\ d.forgotten = c.forgotten /\ d.retried = c.retried
                /\ d.unrequested = c.unrequested /\ d.spontaneous = c.spontaneous
         /\ LET d == [c EXCEPT !.dropped = @ + 1]
            IN  /\ d.dropped = c.dropped + 1 /\ d.sent = c.sent /\ d.success = c.success
                /\ d.forgotten = c.forgotten /\ d.retried = c.retried
                /\ d.unrequested = c.unrequested /\ d.spontaneous = c.spontaneous
         /\ LET d == [c EXCEPT !.forgotten = @ + 1]
            IN  /\ d.forgotten = c.forgotten + 1 /\ d.sent = c.sent /\ d.success = c.success
                /\ d.dropped = c.dropped /\ d.retried = c.retried
                /\ d.unrequested = c.unrequested /\ d.spontaneous = c.spontaneous
         /\ LET d == [c EXCEPT !.retried = @ + 1]
            IN  /\ d.retried = c.retried + 1 /\ d.sent = c.sent /\ d.success = c.success
                /\ d.dropped = c.dropped /\ d.forgotten = c.forgotten
                /\ d.unrequested = c.unrequested /\ d.spontaneous = c.spontaneous
BY DEF Counters

(* In the timeout phase the front misses its response unless it is a        *)
(* broadcast that was answered.                                             *)
LEMMA FrontMissing ==
  ASSUME TypeOK, PhaseDiscipline, FrontTimedOut
  PROVE  /\ filters # <<>> /\ phase = "timeout"
         /\ Head(filters) = filters[1] /\ filters[1] \in Filter /\ 1 \in 1..Len(filters)
         /\ Ledger!Missing(Entry(filters[1])) <=> ~FrontSucceeds
<1>1. filters # <<>> /\ phase = "timeout"
  BY DEF FrontTimedOut
<1>2. Head(filters) = filters[1] /\ filters[1] \in Filter /\ 1 \in 1..Len(filters)
  BY <1>1, PopFacts
<1>3. ExpectsResponse(filters[1]) /\ (Answered(filters[1]) => IsBroadcast(filters[1]))
  BY <1>1, <1>2 DEF PhaseDiscipline
<1>4. Entry(filters[1]).expects = ExpectsResponse(filters[1])
      /\ Entry(filters[1]).from = filters[1].from
  BY <1>2, EntryType
<1>5. Ledger!Missing(Entry(filters[1])) <=> filters[1].from = {}
  BY <1>3, <1>4, Zenon DEF Ledger!Missing
<1>6. QED
  BY <1>1, <1>2, <1>3, <1>5 DEF FrontSucceeds, Answered

(* The front that is popped is decided as the ledger allows. *)
LEMMA PopDecides ==
  ASSUME TypeOK, TrackedOnce, PhaseDiscipline, phase = "timeout" => limit \in RetrySettings,
         TimeoutSuccess \/ TimeoutDrop \/ TimeoutForget
  PROVE  Ledger!Next
<1> DEFINE w == Entry(filters[1])
<1>1. /\ filters # <<>> /\ phase = "timeout"
      /\ Head(filters) = filters[1] /\ filters[1] \in Filter /\ 1 \in 1..Len(filters)
      /\ Ledger!Missing(w) <=> ~FrontSucceeds
  BY FrontMissing DEF TimeoutSuccess, TimeoutDrop, TimeoutForget
<1>2. filters' = Tail(filters)
  BY DEF TimeoutSuccess, TimeoutDrop, TimeoutForget, PopFront
<1>3. w \in Entries(filters) /\ Entries(filters') = Entries(filters) \ {w}
  BY <1>1, <1>2, TailLoses, EntriesLost
<1>4. Entries(filters)' = Entries(filters')
  BY DEF Entries
<1>5. w.repeatable = filters[1].packet /\ w.retries = filters[1].retries
  BY <1>1, EntryType
<1>6. counters \in Counters
  BY DEF TypeOK
<1> HIDE DEF w
<1>7. CASE TimeoutSuccess
  <2>1. counters' = [counters EXCEPT !.success = @ + 1]
    BY <1>7 DEF TimeoutSuccess
  <2>2. /\ counters'.success = counters.success + 1 /\ counters'.sent = counters.sent
        /\ counters'.dropped = counters.dropped /\ counters'.forgotten = counters.forgotten
        /\ counters'.retried = counters.retried
        /\ counters'.unrequested = counters.unrequested
        /\ counters'.spontaneous = counters.spontaneous
    BY <1>6, <2>1, CountedOnce
  <2>3. ~Ledger!Missing(w)
    BY <1>1, <1>7 DEF TimeoutSuccess
  <2>4. Ledger!Succeed(w)
    BY <1>3, <1>4, <2>2, <2>3 DEF Ledger!Succeed, Ledger!Decide
  <2>5. QED
    BY <1>3, <2>4 DEF Ledger!Next
<1>8. CASE TimeoutDrop
  <2>1. counters' = [counters EXCEPT !.dropped = @ + 1]
    BY <1>8 DEF TimeoutDrop
  <2>2. /\ counters'.dropped = counters.dropped + 1 /\ counters'.sent = counters.sent
        /\ counters'.success = counters.success /\ counters'.forgotten = counters.forgotten
        /\ counters'.retried = counters.retried
        /\ counters'.unrequested = counters.unrequested
        /\ counters'.spontaneous = counters.spontaneous
    BY <1>6, <2>1, CountedOnce
  <2>3. Ledger!Missing(w) /\ limit \in RetrySettings /\ w.retries >= limit
    BY <1>1, <1>5, <1>8 DEF TimeoutDrop, RetriesSpent
  <2>4. Ledger!Drop(w)
    BY <1>3, <1>4, <2>2, <2>3 DEF Ledger!Drop, Ledger!Decide
  <2>5. QED
    BY <1>3, <2>4 DEF Ledger!Next
<1>9. CASE TimeoutForget
  <2>1. counters' = [counters EXCEPT !.forgotten = @ + 1]
    BY <1>9 DEF TimeoutForget
  <2>2. /\ counters'.forgotten = counters.forgotten + 1 /\ counters'.sent = counters.sent
        /\ counters'.success = counters.success /\ counters'.dropped = counters.dropped
        /\ counters'.retried = counters.retried
        /\ counters'.unrequested = counters.unrequested
        /\ counters'.spontaneous = counters.spontaneous
    BY <1>6, <2>1, CountedOnce
  <2>3. Ledger!Missing(w) /\ ~w.repeatable
    BY <1>1, <1>5, <1>9 DEF TimeoutForget
  <2>4. Ledger!Forget(w)
    BY <1>3, <1>4, <2>2, <2>3 DEF Ledger!Forget, Ledger!Decide
  <2>5. QED
    BY <1>3, <2>4 DEF Ledger!Next
<1>10. QED
  BY <1>7, <1>8, <1>9

(* The front that goes to the back is repeated. *)
LEMMA ResendRepeats ==
  ASSUME TypeOK, TrackedOnce, PhaseDiscipline, phase = "timeout" => limit \in RetrySettings,
         BoundAssumption, TimeoutResend
  PROVE  Ledger!Next
<1> DEFINE w == Entry(filters[1])
           g == ResetTimeout(IncrementRetryCount(filters[1]))
           v == Entry(g)
<1>1. /\ filters # <<>> /\ phase = "timeout"
      /\ Head(filters) = filters[1] /\ filters[1] \in Filter /\ 1 \in 1..Len(filters)
      /\ Ledger!Missing(w) <=> ~FrontSucceeds
  BY FrontMissing DEF TimeoutResend
<1>2. filters' = Append(Tail(filters), g)
  BY <1>1 DEF TimeoutResend, Requeued
<1>3. /\ g \in Filter /\ g.id = filters[1].id /\ g.from = filters[1].from
      /\ g.filter = filters[1].filter
  BY <1>1, RetryType DEF TypeOK
<1>4. g.packet = filters[1].packet /\ g.retries = filters[1].retries + 1
  <2>1. ASSUME NEW f \in Filter
        PROVE  /\ ResetTimeout(IncrementRetryCount(f)).packet = f.packet
               /\ ResetTimeout(IncrementRetryCount(f)).retries = f.retries + 1
    BY DEF ResetTimeout, IncrementRetryCount, Filter
  <2>2. QED
    BY <1>1, <2>1
<1> HIDE DEF g
<1>5. ExpectsResponse(g) = ExpectsResponse(filters[1])
  BY <1>3, Zenon DEF ExpectsResponse
<1>6. /\ w \in Packet /\ v \in Packet /\ v.id = w.id /\ v.repeatable = w.repeatable
      /\ v.expects = w.expects /\ v.from = w.from /\ v.retries = w.retries + 1
      /\ w.repeatable = filters[1].packet /\ w.retries = filters[1].retries
  BY <1>1, <1>3, <1>4, <1>5, EntryType
<1>7. Tail(filters) \in Seq(Filter)
  BY <1>1, PopFacts
<1>8. Entries(filters') = Entries(Tail(filters)) \cup {v}
  BY <1>2, <1>3, <1>7, EntriesAppend
<1>9. w \in Entries(filters) /\ Entries(Tail(filters)) = Entries(filters) \ {w}
  BY <1>1, TailLoses, EntriesLost
<1> HIDE DEF w, v
<1>10. v = [w EXCEPT !.retries = @ + 1]
  BY <1>6, PacketUpdates
<1>11. Entries(filters)' = (Entries(filters) \ {w}) \cup {[w EXCEPT !.retries = @ + 1]}
  <2>1. Entries(filters)' = Entries(filters')
    BY DEF Entries
  <2>2. QED
    BY <1>8, <1>9, <1>10, <2>1
<1>12. limit \in RetrySettings /\ w.retries < limit
  <2>1. ~(filters[1].retries >= limit) /\ limit \in RetrySettings
    BY <1>1 DEF TimeoutResend, RetriesSpent
  <2>2. limit \in Nat /\ filters[1].retries \in Nat
    BY <1>1, <2>1 DEF BoundAssumption, Filter
  <2>3. QED
    BY <1>6, <2>1, <2>2
<1>13. /\ counters'.retried = counters.retried + 1 /\ counters'.sent = counters.sent
       /\ counters'.success = counters.success /\ counters'.dropped = counters.dropped
       /\ counters'.forgotten = counters.forgotten
       /\ counters'.unrequested = counters.unrequested
       /\ counters'.spontaneous = counters.spontaneous
  <2>1. counters \in Counters /\ counters' = [counters EXCEPT !.retried = @ + 1]
    BY DEF TypeOK, TimeoutResend
  <2>2. QED
    BY <2>1, CountedOnce
<1>14. Ledger!Missing(w) /\ w.repeatable
  BY <1>1, <1>6 DEF TimeoutResend
<1>15. Ledger!Repeat(w)
  BY <1>11, <1>12, <1>13, <1>14 DEF Ledger!Repeat, Ledger!verdicts
<1>16. QED
  BY <1>9, <1>15 DEF Ledger!Next

(* A command that is written is sent. *)
LEMMA TrackSends ==
  ASSUME TypeOK, BoundAssumption, NEW cmd \in Command, Track(cmd)
  PROVE  Ledger!Next
<1> DEFINE n == counters.sent + 1
           g == NewFilter(n, cmd, TRUE)
<1>1. n <= MaxSent /\ counters.sent \in Nat /\ MaxSent \in Nat /\ counters \in Counters
  BY DEF Track, TypeOK, Counters, BoundAssumption
<1>2. n \in Ids /\ counters.sent < MaxSent
  BY <1>1 DEF Ids
<1>3. g \in Filter
  BY <1>2, NewFilterType
<1>4. ExpectsResponse(g) \in BOOLEAN
  BY Zenon DEF ExpectsResponse
<1>5. Entry(g) = Ledger!New(n, TRUE, ExpectsResponse(g))
  BY DEF NewFilter, Entry, Ledger!New
<1>6. filters' = Append(filters, g) /\ counters' = [counters EXCEPT !.sent = @ + 1]
  BY DEF Track
<1>7. /\ counters'.sent = n /\ counters'.success = counters.success
      /\ counters'.dropped = counters.dropped /\ counters'.forgotten = counters.forgotten
      /\ counters'.retried = counters.retried
      /\ counters'.unrequested = counters.unrequested
      /\ counters'.spontaneous = counters.spontaneous
  BY <1>1, <1>6 DEF Counters
<1> HIDE DEF g
<1>8. Entries(filters)' = Entries(filters) \cup {Entry(g)}
  <2>1. Entries(filters)' = Entries(filters')
    BY DEF Entries
  <2>2. Entries(Append(filters, g)) = Entries(filters) \cup {Entry(g)}
    BY <1>3, EntriesAppend DEF TypeOK
  <2>3. QED
    BY <1>6, <2>1, <2>2
<1>9. Ledger!Send
  <2>1. Entries(filters)' = Entries(filters) \cup {Ledger!New(counters.sent + 1, TRUE, ExpectsResponse(g))}
    BY <1>5, <1>8
  <2>2. \E e \in BOOLEAN :
          Entries(filters)' = Entries(filters) \cup {Ledger!New(counters.sent + 1, TRUE, e)}
    BY <1>4, <2>1
  <2>3. QED
    BY <1>2, <1>7, <2>2 DEF Ledger!Send, Ledger!verdicts
<1>10. QED
  BY <1>9 DEF Ledger!Next

(* A response that matches nothing is counted once, whatever it is. *)
LEMMA ClassifyFacts ==
  ASSUME NEW c \in Counters, NEW m, NEW t, NEW n \in Nat
  PROVE  LET d == Classify(m, t, [c EXCEPT !.sent = @ + n])
         IN  /\ d.sent = c.sent + n /\ d.success = c.success /\ d.dropped = c.dropped
             /\ d.forgotten = c.forgotten /\ d.retried = c.retried
             /\ Matched(m, t) => d.unrequested + d.spontaneous = c.unrequested + c.spontaneous
             /\ ~Matched(m, t) => d.unrequested + d.spontaneous
                                    = (c.unrequested + c.spontaneous) + 1
<1> DEFINE e == [c EXCEPT !.sent = @ + n]
           x == [e EXCEPT !.spontaneous = @ + 1]
           y == [e EXCEPT !.unrequested = @ + 1]
<1>1. /\ e \in Counters /\ e.sent = c.sent + n /\ e.success = c.success
      /\ e.dropped = c.dropped /\ e.forgotten = c.forgotten /\ e.retried = c.retried
      /\ e.unrequested = c.unrequested /\ e.spontaneous = c.spontaneous
      /\ c.unrequested \in Nat /\ c.spontaneous \in Nat
  BY DEF Counters
<1> HIDE DEF e
<1>2. /\ x.sent = e.sent /\ x.success = e.success /\ x.dropped = e.dropped
      /\ x.forgotten = e.forgotten /\ x.retried = e.retried
      /\ x.unrequested = e.unrequested /\ x.spontaneous = e.spontaneous + 1
  BY <1>1 DEF Counters
<1>3. /\ y.sent = e.sent /\ y.success = e.success /\ y.dropped = e.dropped
      /\ y.forgotten = e.forgotten /\ y.retried = e.retried
      /\ y.unrequested = e.unrequested + 1 /\ y.spontaneous = e.spontaneous
  BY <1>1 DEF Counters
<1> HIDE DEF x, y
<1>4. /\ x.unrequested + x.spontaneous = (c.unrequested + c.spontaneous) + 1
      /\ y.unrequested + y.spontaneous = (c.unrequested + c.spontaneous) + 1
      /\ e.unrequested + e.spontaneous = c.unrequested + c.spontaneous
  BY <1>1, <1>2, <1>3
<1>5. /\ Matched(m, t) => Classify(m, t, e) = e
      /\ ~Matched(m, t) => Classify(m, t, e) = x \/ Classify(m, t, e) = y
  BY DEF Classify, x, y
<1>6. QED
  BY <1>1, <1>2, <1>3, <1>4, <1>5 DEF e

(* A response is credited to one packet that waits, or to none. *)
LEMMA ResponseIsBooked ==
  ASSUME TypeOK, TrackedOnce, BusAssumption, BoundAssumption,
         NEW m \in Modules, NEW t \in Texts, NEW o, ProcessResponse(m, t, o)
  PROVE  Ledger!Next
<1> DEFINE n == Len(Additional[t])
           a == Credit(m, t)
           b == Expectations(m, t)
<1>1. /\ counters.sent + n <= MaxSent /\ filters' = a \o b
      /\ counters' = Classify(m, t, [counters EXCEPT !.sent = @ + n])
  BY DEF ProcessResponse
<1>2. /\ n \in 0..MaxSent - counters.sent
      /\ Entries(b) = Ledger!Announced(n)
  BY <1>1, EntriesAnnounced
<1>3. n \in Nat /\ b \in Seq(Filter) /\ a \in Seq(Filter)
  BY <1>1, ExpectationFacts, CreditFacts
<1> HIDE DEF n, a, b
<1>4. Entries(filters)' = Entries(a) \cup Ledger!Announced(n)
  <2>1. Entries(filters)' = Entries(filters')
    BY DEF Entries
  <2>2. Entries(a \o b) = Entries(a) \cup Entries(b)
    BY <1>3, EntriesConcat
  <2>3. QED
    BY <1>1, <1>2, <2>1, <2>2
<1>5. /\ counters'.sent = counters.sent + n /\ counters'.success = counters.success
      /\ counters'.dropped = counters.dropped /\ counters'.forgotten = counters.forgotten
      /\ counters'.retried = counters.retried
      /\ Matched(m, t) => counters'.unrequested + counters'.spontaneous
                            = counters.unrequested + counters.spontaneous
      /\ ~Matched(m, t) => counters'.unrequested + counters'.spontaneous
                             = (counters.unrequested + counters.spontaneous) + 1
  <2>1. counters \in Counters
    BY DEF TypeOK
  <2>2. QED
    BY <1>1, <1>3, <2>1, ClassifyFacts
<1>6. CASE Matched(m, t)
  <2>1. PICK k \in 1..Len(filters) : FirstMatch(k, m, t)
    BY <1>6, FirstMatchExists
  <2> DEFINE w == Entry(filters[k])
  <2>2. /\ w \in Entries(filters) /\ m \notin w.from
        /\ Entries(a) = (Entries(filters) \ {w}) \cup {[w EXCEPT !.from = @ \cup {m}]}
    BY <2>1, EntriesCredited DEF a
  <2> HIDE DEF w
  <2>3. Ledger!Credit(m)
    <3>1. Entries(filters)' = ((Entries(filters) \ {w}) \cup {[w EXCEPT !.from = @ \cup {m}]})
                                \cup Ledger!Announced(n)
      BY <1>4, <2>2
    <3>2. UNCHANGED <<Ledger!verdicts, counters.retried,
                      counters.unrequested + counters.spontaneous>>
      BY <1>5, <1>6 DEF Ledger!verdicts
    <3>3. QED
      BY <1>2, <1>5, <2>2, <3>1, <3>2 DEF Ledger!Credit
  <2>4. QED
    BY <2>3 DEF Ledger!Next
<1>7. CASE ~Matched(m, t)
  <2>1. Entries(a) = Entries(filters)
    <3>1. \A k \in 1..Len(filters) : a[k] = filters[k]
      BY <1>7 DEF a, Credit, FirstMatch, Matched
    <3>2. Len(a) = Len(filters)
      BY CreditFacts DEF a
    <3>3. QED
      BY <3>1, <3>2 DEF Entries
  <2>2. Ledger!Reject
    <3>1. Entries(filters)' = Entries(filters) \cup Ledger!Announced(n)
      BY <1>4, <2>1
    <3>2. UNCHANGED <<Ledger!verdicts, counters.retried>>
      BY <1>5 DEF Ledger!verdicts
    <3>3. QED
      BY <1>2, <1>5, <1>7, <3>1, <3>2 DEF Ledger!Reject
  <2>3. QED
    BY <2>2 DEF Ledger!Next
<1>8. QED
  BY <1>6, <1>7

(* A packet nobody can parse is counted and credited to none. *)
LEMMA UnparsedIsRejected ==
  ASSUME TypeOK, BoundAssumption, ReceiveUnparsed
  PROVE  Ledger!Next
<1>1. /\ filters' = filters /\ counters' = [counters EXCEPT !.unrequested = @ + 1]
      /\ counters \in Counters /\ counters.sent <= MaxSent /\ MaxSent \in Nat
  BY DEF ReceiveUnparsed, TypeOK, BoundAssumption
<1>2. /\ counters'.unrequested = counters.unrequested + 1
      /\ counters'.spontaneous = counters.spontaneous /\ counters'.sent = counters.sent
      /\ counters'.success = counters.success /\ counters'.dropped = counters.dropped
      /\ counters'.forgotten = counters.forgotten /\ counters'.retried = counters.retried
      /\ counters.sent \in Nat /\ counters.unrequested \in Nat /\ counters.spontaneous \in Nat
  BY <1>1 DEF Counters
<1>3. 0 \in 0..MaxSent - counters.sent /\ counters'.sent = counters.sent + 0
      /\ counters'.unrequested + counters'.spontaneous
           = (counters.unrequested + counters.spontaneous) + 1
  BY <1>1, <1>2
<1>4. Ledger!Announced(0) = {}
  <2>1. counters.sent + 1..counters.sent + 0 = {}
    BY <1>2
  <2>2. QED
    BY <2>1, Zenon DEF Ledger!Announced
<1>5. Entries(filters)' = Entries(filters) \cup Ledger!Announced(0)
  BY <1>1, <1>4 DEF Entries
<1>6. UNCHANGED <<Ledger!verdicts, counters.retried>>
  BY <1>2 DEF Ledger!verdicts
<1>7. Ledger!Reject
  BY <1>3, <1>5, <1>6 DEF Ledger!Reject
<1>8. QED
  BY <1>7 DEF Ledger!Next

(* A filter the sweep erases was answered, or expected nothing. *)
LEMMA SweepDecides ==
  ASSUME TypeOK, TrackedOnce, SweepErase
  PROVE  Ledger!Next
<1> DEFINE f == filters[cursor]
           w == Entry(f)
<1>1. /\ cursor \in 1..Len(filters) /\ Satisfied(f) /\ counters \in Counters
      /\ filters' = EraseAt(filters, cursor)
      /\ counters' = [counters EXCEPT !.success = @ + 1]
  BY LenProperties DEF SweepErase, TypeOK
<1>2. f \in Filter
  BY <1>1, ElementOfSeq DEF TypeOK
<1>3. w \in Entries(filters) /\ Entries(EraseAt(filters, cursor)) = Entries(filters) \ {w}
  BY <1>1, EraseLoses, EntriesLost
<1>4. Entries(filters)' = Entries(filters) \ {w}
  <2>1. Entries(filters)' = Entries(filters')
    BY DEF Entries
  <2>2. QED
    BY <1>1, <1>3, <2>1
<1>5. /\ counters'.success = counters.success + 1 /\ counters'.sent = counters.sent
      /\ counters'.dropped = counters.dropped /\ counters'.forgotten = counters.forgotten
      /\ counters'.retried = counters.retried
      /\ counters'.unrequested = counters.unrequested
      /\ counters'.spontaneous = counters.spontaneous
  BY <1>1, CountedOnce
<1>6. w.expects = ExpectsResponse(f) /\ w.from = f.from
  BY <1>2, EntryType
<1>7. ExpectsResponse(f) => f.from # {}
  BY <1>1 DEF Satisfied, Answered
<1>8. ~Ledger!Missing(w)
  BY <1>6, <1>7, Zenon DEF Ledger!Missing
<1> HIDE DEF f, w
<1>9. Ledger!Succeed(w)
  BY <1>4, <1>5, <1>8 DEF Ledger!Succeed, Ledger!Decide
<1>10. QED
  BY <1>3, <1>9 DEF Ledger!Next

(* Every step of the tracker, the service loop, the application and the      *)
(* clock is a step of the ledger or leaves it alone.                         *)
LEMMA StepIsBooked ==
  ASSUME IInv, Budget, [Next]_vars
  PROVE  [Ledger!Next]_(Ledger!vars)
<1>1. /\ TypeOK /\ SilentCommands /\ TrackedOnce /\ PhaseDiscipline
      /\ BusAssumption /\ BoundAssumption
      /\ phase = "timeout" => limit \in RetrySettings
  BY BusAssumption, BoundAssumption DEF IInv, Budget
<1>2. CASE TimeoutSuccess \/ TimeoutDrop \/ TimeoutForget
  BY <1>1, <1>2, PopDecides
<1>3. CASE TimeoutResend
  BY <1>1, <1>3, ResendRepeats
<1>4. ASSUME NEW cmd \in Commands, SendCommand(cmd)
      PROVE  Ledger!Next
  BY <1>1, <1>4, TrackSends DEF SendCommand, BusAssumption
<1>5. CASE SendUIDPoll
  BY <1>1, <1>5, TrackSends DEF SendUIDPoll, BusAssumption
<1>6. ASSUME NEW m \in Modules, NEW i \in Ids, Receive(m, i)
      PROVE  Ledger!Next
  <2>1. asked[i].reply \in Texts
    BY <1>1, <1>6 DEF Receive, TypeOK, SilentCommands, Command
  <2>2. PICK o : ProcessResponse(m, asked[i].reply, o)
    BY <1>6 DEF Receive
  <2>3. QED
    BY <1>1, <2>1, <2>2, ResponseIsBooked
<1>7. ASSUME NEW m \in Modules, NEW t \in Texts, ReceiveStray(m, t)
      PROVE  Ledger!Next
  <2>1. PICK o : ProcessResponse(m, t, o)
    BY <1>7 DEF ReceiveStray
  <2>2. QED
    BY <1>1, <2>1, ResponseIsBooked
<1>8. CASE ReceiveUnparsed
  BY <1>1, <1>8, UnparsedIsRejected
<1>9. CASE SweepErase
  BY <1>1, <1>9, SweepDecides
<1>10. CASE \/ BeginService \/ TimeoutDone \/ WriteRetry \/ RetriesWritten \/ CommandsDone
            \/ SkipCommands \/ ReceiveDone \/ SweepKeep \/ SweepDone
            \/ Application \/ Tick \/ StepBack \/ UNCHANGED vars
  <2>1. filters' = filters /\ counters' = counters
    BY <1>10 DEF BeginService, TimeoutDone, WriteRetry, RetriesWritten, CommandsDone,
      SkipCommands, ReceiveDone, SweepKeep, SweepDone, Application, SetEigenConfig,
      SetPollEnabled, Tick, StepBack, vars, trackerVars
  <2>2. UNCHANGED Ledger!vars
    BY <2>1 DEF Ledger!vars, Ledger!verdicts, Entries
  <2>3. QED
    BY <2>2
<1>11. QED
  BY <1>2, <1>3, <1>4, <1>5, <1>6, <1>7, <1>8, <1>9, <1>10 DEF Next, Service

(* The tracker keeps its ledger, for every bus, every set of commands, every *)
(* retry setting and every bound: each rotation of the queue, each erasure   *)
(* under the sweep's iterator and each match moves exactly the packet it is  *)
(* about, and the counters say so at the same step.                          *)
THEOREM LedgerKept == Spec => KeepsLedger
<1>1. Init => Ledger!Init
  BY DEF Init, Ledger!Init, Entries
<1>2. IInv /\ Budget /\ [Next]_vars => Budget'
  BY BudgetStep
<1>3. IInv /\ Budget /\ [Next]_vars => [Ledger!Next]_(Ledger!vars)
  BY StepIsBooked
<1>4. QED
  BY <1>1, <1>2, <1>3, BudgetInit, Invariance, PTL DEF Spec, KeepsLedger, Ledger!Spec
=============================================================================
