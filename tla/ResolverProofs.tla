-------------------------- MODULE ResolverProofs --------------------------
(***************************************************************************)
(* The safety of dns.Resolver, for any number of callers, any set of names *)
(* (finite or not) and any limits.                                         *)
(***************************************************************************)
EXTENDS Resolver, FiniteSetTheorems, TLAPS

Querying == {c \in Callers : pc[c] = "query"}

\* inflight and the callers agree about who makes which call.
FlightInv ==
    /\ \A c \in Callers : Leading(c) => name[c] \in Names /\ inflight[name[c]] = c
    /\ \A c \in Callers : pc[c] = "joined" => name[c] \in Names /\ inflight[name[c]] # None
    /\ \A n \in Names : inflight[n] # None =>
         Leading(inflight[n]) /\ name[inflight[n]] = n

\* A call that is over has an outcome, and a context error only if its own
\* context has ended.
AnswerInv ==
    \A c \in Callers : pc[c] = "finish" =>
        answer[c] \in Answers /\ (answer[c].kind = "ctx" => c \in ctxDone)

\* Every token belongs to a query that is running.
TokenInv ==
    /\ IsFiniteSet(Querying)
    /\ sem = Cardinality(Querying)
    /\ sem <= MaxConcurrent

CacheInv ==
    /\ IsFiniteSet(Cached)
    /\ Cardinality(Cached) <= MaxEntries
    /\ \A n \in Cached : entries[n].answer.kind # "ctx"

ResolverInv == TypeOK /\ FlightInv /\ AnswerInv /\ TokenInv /\ CacheInv

USE DEF Goto, CtxError, Epochs

-----------------------------------------------------------------------------
(* Counting tokens and entries *)

\* The callers in "query" gain or lose the one that acquires or releases.
LEMMA TokenTaken ==
    ASSUME NEW c \in Callers, TypeOK, TokenInv, Acquire(c)
    PROVE  TokenInv'
<1>1. c \notin Querying /\ Querying' = Querying \cup {c}
  BY DEF Querying, TypeOK, Acquire
<1>2. IsFiniteSet(Querying') /\ Cardinality(Querying') = Cardinality(Querying) + 1
  BY <1>1, FS_AddElement DEF TokenInv
<1> QED
  BY <1>2, FS_CardinalityType, ResolverAssumption DEF TokenInv, Acquire

LEMMA TokenReleased ==
    ASSUME NEW c \in Callers, TypeOK, TokenInv, Answered(c)
    PROVE  TokenInv' /\ sem' \in Nat
<1>1. c \in Querying /\ Querying' = Querying \ {c}
  BY DEF Querying, TypeOK, Answered
<1>2. IsFiniteSet(Querying') /\ Cardinality(Querying') = Cardinality(Querying) - 1
  BY <1>1, FS_RemoveElement DEF TokenInv
<1>3. Cardinality(Querying) \in Nat /\ Cardinality(Querying') \in Nat
  BY <1>2, FS_CardinalityType DEF TokenInv
<1> QED
  BY <1>2, <1>3, ResolverAssumption DEF TokenInv, Answered

\* A step that moves nobody into or out of "query" leaves the tokens alone.
LEMMA TokenKept ==
    ASSUME TokenInv, sem' = sem,
           \A c \in Callers : pc'[c] = "query" <=> pc[c] = "query"
    PROVE  TokenInv'
<1>1. Querying' = Querying
  BY DEF Querying
<1> QED
  BY <1>1 DEF TokenInv

\* Whatever had expired, evictLocked leaves room for one more entry.
LEMMA EvictMakesRoom ==
    ASSUME TypeOK, CacheInv, NEW old \in SUBSET Expired
    PROVE  LET left == {n \in Names : Evict(old)[n] # None}
           IN  /\ Evict(old) \in [Names -> Entries \cup {None}]
               /\ IsFiniteSet(left)
               /\ Cardinality(left) < MaxEntries
               /\ left \subseteq Cached
               /\ \A n \in left : Evict(old)[n] = entries[n]
<1> DEFINE left == {n \in Names : Evict(old)[n] # None}
<1>0. Cached \subseteq Names /\ IsFiniteSet(Cached) /\ old \subseteq Cached
  BY DEF Cached, Expired, CacheInv
<1>1. CASE Cardinality(Cached) < MaxEntries
  <2>1. Evict(old) = entries /\ left = Cached
    BY <1>1 DEF Evict, Cached
  <2> QED
    BY <1>0, <1>1, <2>1 DEF TypeOK
<1>2. CASE ~(Cardinality(Cached) < MaxEntries) /\ Cardinality(Cached \ old) < MaxEntries
  <2>1. Evict(old) = [n \in Names |-> IF n \in old THEN None ELSE entries[n]]
    BY <1>2 DEF Evict
  <2>2. left = Cached \ old
    BY <2>1 DEF Cached
  <2>3. IsFiniteSet(Cached \ old)
    BY <1>0, FS_Difference
  <2> QED
    BY <1>2, <2>1, <2>2, <2>3 DEF TypeOK
<1>3. CASE ~(Cardinality(Cached) < MaxEntries) /\ ~(Cardinality(Cached \ old) < MaxEntries)
  <2>1. Evict(old) = [n \in Names |-> None]
    BY <1>3 DEF Evict
  <2>2. left = {}
    BY <2>1
  <2> QED
    BY <2>1, <2>2, FS_EmptySet, ResolverAssumption
<1> QED
  BY <1>1, <1>2, <1>3

\* Remembering an outcome keeps the cache within its bound and free of context
\* errors.
LEMMA FinishKeepsCache ==
    ASSUME NEW c \in Callers, TypeOK, FlightInv, AnswerInv, CacheInv, Finish(c)
    PROVE  CacheInv' /\ entries' \in [Names -> Entries \cup {None}]
<1> DEFINE n == name[c]
           e == [answer |-> answer[c], fresh |-> TRUE]
<1>1. n \in Names /\ answer[c] \in Answers /\ (answer[c].kind = "ctx" => c \in ctxDone)
  BY DEF Finish, FlightInv, AnswerInv, Leading
<1>2. CASE ~Remembered(c)
  <2>1. entries' = entries
    BY <1>2 DEF Finish
  <2>2. Cached' = Cached
    BY <2>1 DEF Cached
  <2> QED
    BY <2>1, <2>2 DEF CacheInv, TypeOK
<1>3. CASE Remembered(c)
  <2>1. PICK old \in SUBSET Expired : entries' = [Evict(old) EXCEPT ![n] = e]
    BY <1>3 DEF Finish
  <2> DEFINE left == {m \in Names : Evict(old)[m] # None}
  <2>2. /\ Evict(old) \in [Names -> Entries \cup {None}]
        /\ IsFiniteSet(left)
        /\ Cardinality(left) < MaxEntries
        /\ left \subseteq Cached
        /\ \A m \in left : Evict(old)[m] = entries[m]
    BY EvictMakesRoom
  <2>3. e \in Entries /\ e # None /\ answer[c].kind # "ctx"
    <3>1. e \in Entries
      BY <1>1 DEF Entries
    <3>2. answer[c].kind # "ctx"
      BY <1>1, <1>3 DEF Remembered
    <3> QED
      BY <3>1, <3>2, NoneAssumption
  <2> HIDE DEF n, e
  <2>4. entries' \in [Names -> Entries \cup {None}]
    BY <1>1, <2>1, <2>2, <2>3
  <2>5. Cached' = left \cup {n}
    BY <1>1, <2>1, <2>2, <2>3 DEF Cached
  <2>6. /\ IsFiniteSet(left \cup {n})
        /\ Cardinality(left \cup {n}) = Cardinality(left)
           \/ Cardinality(left \cup {n}) = Cardinality(left) + 1
    BY <2>2, FS_AddElement
  <2>7. Cardinality(left) \in Nat
    BY <2>2, FS_CardinalityType
  <2>8. Cardinality(Cached') <= MaxEntries
    BY <2>2, <2>5, <2>6, <2>7, ResolverAssumption
  <2>9. ASSUME NEW m \in Cached' PROVE entries'[m].answer.kind # "ctx"
    <3>1. CASE m = n
      BY <1>1, <2>1, <2>2, <2>3, <3>1 DEF e
    <3>2. CASE m # n
      <4>1. m \in left /\ m \in Cached
        BY <2>2, <2>5, <3>2
      <4>2. entries'[m] = entries[m]
        BY <2>1, <2>2, <3>2, <4>1
      <4> QED
        BY <4>1, <4>2 DEF CacheInv
    <3> QED
      BY <3>1, <3>2
  <2> QED
    BY <2>4, <2>5, <2>6, <2>8, <2>9 DEF CacheInv
<1> QED
  BY <1>2, <1>3

\* A step that leaves the entries alone leaves the cache alone.
LEMMA CacheKept ==
    ASSUME CacheInv, entries' = entries
    PROVE  CacheInv'
<1>1. Cached' = Cached
  BY DEF Cached
<1> QED
  BY <1>1 DEF CacheInv

-----------------------------------------------------------------------------
(* The inductive invariant *)

LEMMA InitEstablishes == Init => ResolverInv
<1> SUFFICES ASSUME Init PROVE ResolverInv
  OBVIOUS
<1>1. Querying = {} /\ Cached = {}
  BY DEF Init, Querying, Cached
<1>2. IsFiniteSet({}) /\ Cardinality({}) = 0
  BY FS_EmptySet
<1>3. TypeOK
  <2>1. 0 \in Epochs
    BY ResolverAssumption
  <2> QED
    BY <2>1 DEF Init, TypeOK
<1>4. FlightInv /\ AnswerInv
  BY DEF Init, FlightInv, AnswerInv, Leading
<1>5. TokenInv /\ CacheInv
  BY <1>1, <1>2, ResolverAssumption DEF Init, TokenInv, CacheInv
<1> QED
  BY <1>3, <1>4, <1>5 DEF ResolverInv

LEMMA NextPreserves == ResolverInv /\ [Next]_vars => ResolverInv'
<1> SUFFICES ASSUME ResolverInv, [Next]_vars PROVE ResolverInv'
  OBVIOUS
<1> USE DEF ResolverInv
<1>1. ASSUME NEW c \in Callers, NEW n \in Names, Lookup(c, n) PROVE ResolverInv'
  <2>1. TypeOK'
    BY <1>1 DEF Lookup, TypeOK, Cached, Expired, Entries
  <2>2. FlightInv'
    BY <1>1, ResolverAssumption DEF Lookup, TypeOK, FlightInv, Leading
  <2>3. AnswerInv'
    BY <1>1 DEF Lookup, TypeOK, AnswerInv
  <2>4. TokenInv'
    BY <1>1, TokenKept DEF Lookup, TypeOK
  <2>5. CacheInv'
    BY <1>1, CacheKept DEF Lookup
  <2> QED
    BY <2>1, <2>2, <2>3, <2>4, <2>5
<1>2. ASSUME NEW c \in Callers, Acquire(c) PROVE ResolverInv'
  <2>1. TypeOK'
    BY <1>2 DEF Acquire, TypeOK
  <2>2. FlightInv'
    BY <1>2 DEF Acquire, TypeOK, FlightInv, Leading
  <2>3. AnswerInv'
    BY <1>2 DEF Acquire, TypeOK, AnswerInv
  <2>4. TokenInv'
    BY <1>2, TokenTaken
  <2>5. CacheInv'
    BY <1>2, CacheKept DEF Acquire
  <2> QED
    BY <2>1, <2>2, <2>3, <2>4, <2>5
<1>3. ASSUME NEW c \in Callers, GiveUpQueueing(c) PROVE ResolverInv'
  <2>1. TypeOK'
    BY <1>3 DEF GiveUpQueueing, lookupVars, TypeOK, Answers
  <2>2. FlightInv'
    BY <1>3 DEF GiveUpQueueing, lookupVars, TypeOK, FlightInv, Leading
  <2>3. AnswerInv'
    BY <1>3 DEF GiveUpQueueing, lookupVars, TypeOK, AnswerInv, Answers
  <2>4. TokenInv'
    BY <1>3, TokenKept DEF GiveUpQueueing, lookupVars, TypeOK
  <2>5. CacheInv'
    BY <1>3, CacheKept DEF GiveUpQueueing, lookupVars
  <2> QED
    BY <2>1, <2>2, <2>3, <2>4, <2>5
<1>4. ASSUME NEW c \in Callers, Answered(c) PROVE ResolverInv'
  <2>0. TokenInv' /\ sem' \in Nat
    BY <1>4, TokenReleased
  <2>1. TypeOK'
    BY <1>4, <2>0 DEF Answered, TypeOK, Answers
  <2>2. FlightInv'
    BY <1>4 DEF Answered, TypeOK, FlightInv, Leading
  <2>3. AnswerInv'
    BY <1>4 DEF Answered, TypeOK, AnswerInv, Answers
  <2>4. CacheInv'
    BY <1>4, CacheKept DEF Answered
  <2> QED
    BY <2>0, <2>1, <2>2, <2>3, <2>4
<1>5. ASSUME NEW c \in Callers, Finish(c) PROVE ResolverInv'
  <2>0. CacheInv' /\ entries' \in [Names -> Entries \cup {None}]
    BY <1>5, FinishKeepsCache
  <2>1. TypeOK'
    BY <1>5, <2>0 DEF Finish, TypeOK
  <2>2. FlightInv'
    BY <1>5, ResolverAssumption DEF Finish, TypeOK, FlightInv, Leading
  <2>3. AnswerInv'
    BY <1>5 DEF Finish, TypeOK, AnswerInv
  <2>4. TokenInv'
    BY <1>5, TokenKept DEF Finish, TypeOK
  <2> QED
    BY <2>0, <2>1, <2>2, <2>3, <2>4
<1>6. ASSUME NEW c \in Callers, GiveUpJoined(c) PROVE ResolverInv'
  <2>1. TypeOK'
    BY <1>6 DEF GiveUpJoined, lookupVars, TypeOK, Answers
  <2>2. FlightInv'
    BY <1>6 DEF GiveUpJoined, lookupVars, TypeOK, FlightInv, Leading
  <2>3. AnswerInv'
    BY <1>6 DEF GiveUpJoined, lookupVars, TypeOK, AnswerInv
  <2>4. TokenInv'
    BY <1>6, TokenKept DEF GiveUpJoined, lookupVars, TypeOK
  <2>5. CacheInv'
    BY <1>6, CacheKept DEF GiveUpJoined, lookupVars
  <2> QED
    BY <2>1, <2>2, <2>3, <2>4, <2>5
<1>7. ASSUME NEW c \in Callers, Return(c) PROVE ResolverInv'
  <2>1. TypeOK'
    BY <1>7, ResolverAssumption DEF Return, lookupVars, TypeOK
  <2>2. FlightInv'
    BY <1>7 DEF Return, lookupVars, TypeOK, FlightInv, Leading
  <2>3. AnswerInv'
    BY <1>7 DEF Return, lookupVars, TypeOK, AnswerInv
  <2>4. TokenInv'
    BY <1>7, TokenKept DEF Return, lookupVars, TypeOK
  <2>5. CacheInv'
    BY <1>7, CacheKept DEF Return, lookupVars
  <2> QED
    BY <2>1, <2>2, <2>3, <2>4, <2>5
<1>8. ASSUME NEW c \in Callers, CtxEnds(c) PROVE ResolverInv'
  <2>1. TypeOK' /\ FlightInv' /\ AnswerInv'
    BY <1>8 DEF CtxEnds, lookupVars, TypeOK, FlightInv, Leading, AnswerInv
  <2>2. TokenInv'
    BY <1>8, TokenKept DEF CtxEnds, lookupVars
  <2>3. CacheInv'
    BY <1>8, CacheKept DEF CtxEnds, lookupVars
  <2> QED
    BY <2>1, <2>2, <2>3
<1>9. ASSUME NEW n \in Names, Expire(n) PROVE ResolverInv'
  <2>1. entries[n] \in Entries
    BY <1>9 DEF Expire, Cached, TypeOK
  <2>2. entries'[n] \in Entries /\ entries'[n].answer = entries[n].answer
    BY <1>9, <2>1 DEF Expire, TypeOK, Entries
  <2>3. \A m \in Names : m # n => entries'[m] = entries[m]
    BY <1>9 DEF Expire, TypeOK
  <2>4. TypeOK' /\ FlightInv' /\ AnswerInv'
    BY <1>9, <2>2, <2>3 DEF Expire, callerVars, TypeOK, FlightInv, Leading, AnswerInv
  <2>5. Cached' = Cached
    BY <1>9, <2>2, <2>3, NoneAssumption DEF Expire, Cached
  <2>6. \A m \in Cached : entries'[m].answer = entries[m].answer
    BY <2>2, <2>3 DEF Cached
  <2>7. CacheInv'
    BY <2>5, <2>6 DEF CacheInv
  <2>8. TokenInv'
    BY <1>9, TokenKept DEF Expire, callerVars
  <2> QED
    BY <2>4, <2>7, <2>8
<1>10. ASSUME NewTunnel PROVE ResolverInv'
  <2>1. TypeOK' /\ FlightInv' /\ AnswerInv'
    BY <1>10, ResolverAssumption
       DEF NewTunnel, lookupVars, callerVars, TypeOK, FlightInv, Leading, AnswerInv
  <2>2. TokenInv' /\ CacheInv'
    BY <1>10, TokenKept, CacheKept DEF NewTunnel, lookupVars, callerVars
  <2> QED
    BY <2>1, <2>2
<1>11. ASSUME Flush PROVE ResolverInv'
  <2>1. TypeOK' /\ FlightInv' /\ AnswerInv'
    BY <1>11 DEF Flush, callerVars, TypeOK, FlightInv, Leading, AnswerInv
  <2>2. Cached' = {}
    BY <1>11 DEF Flush, Cached
  <2>3. CacheInv'
    BY <2>2, FS_EmptySet, ResolverAssumption DEF CacheInv
  <2>4. TokenInv'
    BY <1>11, TokenKept DEF Flush, callerVars
  <2> QED
    BY <2>1, <2>3, <2>4
<1>12. ASSUME UNCHANGED vars PROVE ResolverInv'
  <2>1. TypeOK' /\ FlightInv' /\ AnswerInv'
    BY <1>12 DEF vars, lookupVars, callerVars, TypeOK, FlightInv, Leading, AnswerInv
  <2>2. TokenInv' /\ CacheInv'
    BY <1>12, TokenKept, CacheKept DEF vars, lookupVars, callerVars
  <2> QED
    BY <2>1, <2>2
<1> HIDE DEF ResolverInv
<1> QED
  BY <1>1, <1>2, <1>3, <1>4, <1>5, <1>6, <1>7, <1>8, <1>9, <1>10, <1>11, <1>12
     DEF Next, CallerStep

\* The invariant holds in every reachable state.
THEOREM ResolverInvariant == Spec => []ResolverInv
BY InitEstablishes, NextPreserves, PTL DEF Spec

-----------------------------------------------------------------------------
(* What it gives *)

\* Every variable of the resolver keeps its type; in particular a token is never
\* released that was not taken (resolver.go, limitedLookup).
THEOREM ResolverTypes == Spec => []TypeOK
BY ResolverInvariant, PTL DEF ResolverInv

\* Lookup: one caller per name makes the call, and whoever joined it is not left
\* waiting on a call nobody makes.
THEOREM OneQueryPerName == Spec => []SingleFlight
<1>1. ResolverInv => SingleFlight
  BY ResolverAssumption DEF ResolverInv, TypeOK, FlightInv, SingleFlight, Leading
<1> QED
  BY <1>1, ResolverInvariant, PTL

\* limitedLookup: at most MaxConcurrent queries, and no token is lost.
THEOREM ConcurrencyLimit == Spec => []QueriesBounded
<1>1. ResolverInv => QueriesBounded
  BY DEF ResolverInv, TokenInv, QueriesBounded, Querying
<1> QED
  BY <1>1, ResolverInvariant, PTL

\* evictLocked: the cache never holds more than MaxEntries names.
THEOREM CacheLimit == Spec => []CacheBounded
<1>1. ResolverInv => CacheBounded
  BY DEF ResolverInv, CacheInv, CacheBounded
<1> QED
  BY <1>1, ResolverInvariant, PTL

\* Lookup: a caller that gives up never leaves its context's error in the cache.
THEOREM NoCancellationCached == Spec => []CancellationNotCached
<1>1. ResolverInv => CancellationNotCached
  BY DEF ResolverInv, CacheInv, CancellationNotCached
<1> QED
  BY <1>1, ResolverInvariant, PTL

=============================================================================
