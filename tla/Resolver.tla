------------------------------ MODULE Resolver ------------------------------
(***************************************************************************)
(* dns.Resolver (internal/dns/resolver.go): the cache in front of the      *)
(* in-tunnel lookups, the single flight per name, the limit on concurrent  *)
(* queries, and Flush, which awg.Tunnel calls from Stop and Start.         *)
(*                                                                         *)
(* An answer is what the properties tell apart: addresses, an error, or    *)
(* the error of a context that ended, together with the tunnel (its epoch) *)
(* that was asked.  Expiry times are left open: a fresh entry may expire   *)
(* at any moment.                                                          *)
(***************************************************************************)
EXTENDS Naturals, FiniteSets

CONSTANTS
    Callers,        \* the goroutines that look names up
    Names,
    MaxEntries,
    MaxConcurrent,
    MaxEpoch,       \* bound: how many tunnels there are, one after another
    None

ASSUME ResolverAssumption ==
    /\ MaxEntries \in Nat \ {0}
    /\ MaxConcurrent \in Nat \ {0}
    /\ MaxEpoch \in Nat
    /\ None \notin Callers
    /\ None \notin Names

Epochs == 0 .. MaxEpoch
Answers == [kind : {"addrs", "error", "ctx"}, epoch : Epochs]
Entries == [answer : Answers, fresh : BOOLEAN]

ASSUME NoneAssumption == None \notin Answers /\ None \notin Entries

VARIABLES
    entries,   \* r.entries: Names -> an entry, or None
    inflight,  \* r.inflight: Names -> the caller making the call, or None
    sem,       \* tokens in r.sem
    pc,        \* where a caller is in Lookup
    name,      \* the name a caller looks up
    asked,     \* the tunnel a caller's query went to
    answer,    \* what a caller's call has come to, or None
    ctxDone,   \* the callers whose context has ended
    epoch,     \* the tunnel t.tnet belongs to
    flushDue   \* Start has recorded a tunnel and not flushed yet

lookupVars == <<entries, inflight, sem>>
callerVars == <<pc, name, asked, answer, ctxDone>>
vars == <<lookupVars, callerVars, epoch, flushDue>>

TypeOK ==
    /\ entries \in [Names -> Entries \cup {None}]
    /\ inflight \in [Names -> Callers \cup {None}]
    /\ sem \in Nat
    /\ pc \in [Callers -> {"idle", "joined", "queue", "query", "finish", "return"}]
    /\ name \in [Callers -> Names \cup {None}]
    /\ asked \in [Callers -> Epochs]
    /\ answer \in [Callers -> Answers \cup {None}]
    /\ ctxDone \subseteq Callers
    /\ epoch \in Epochs
    /\ flushDue \in BOOLEAN

Init ==
    /\ entries = [n \in Names |-> None]
    /\ inflight = [n \in Names |-> None]
    /\ sem = 0
    /\ pc = [c \in Callers |-> "idle"]
    /\ name = [c \in Callers |-> None]
    /\ asked = [c \in Callers |-> 0]
    /\ answer = [c \in Callers |-> None]
    /\ ctxDone = {}
    /\ epoch = 0
    /\ flushDue = FALSE

Goto(c, label) == pc' = [pc EXCEPT ![c] = label]
Cached == {n \in Names : entries[n] # None}
Expired == {n \in Cached : ~entries[n].fresh}
CtxError == [kind |-> "ctx", epoch |-> epoch]

-----------------------------------------------------------------------------
(* Lookup *)

\* Mutant: a call in flight is not joined.
LookupUnshared(c, n) ==
    /\ pc[c] = "idle"
    /\ n \notin Cached \ Expired
    /\ name' = [name EXCEPT ![c] = n]
    /\ inflight' = [inflight EXCEPT ![n] = c]
    /\ Goto(c, "queue")
    /\ UNCHANGED <<entries, sem, asked, answer, ctxDone, epoch, flushDue>>

\* The first critical section: a fresh entry is served, a call in flight for the
\* same name is joined, otherwise the caller makes the call itself.
Lookup(c, n) ==
    /\ pc[c] = "idle"
    /\ name' = [name EXCEPT ![c] = n]
    /\ \/ /\ n \in Cached \ Expired
          /\ answer' = [answer EXCEPT ![c] = entries[n].answer]
          /\ Goto(c, "return")
          /\ inflight' = inflight
       \/ /\ n \notin Cached \ Expired
          /\ inflight[n] # None
          /\ Goto(c, "joined")
          /\ UNCHANGED <<answer, inflight>>
       \/ /\ n \notin Cached \ Expired
          /\ inflight[n] = None
          /\ inflight' = [inflight EXCEPT ![n] = c]
          /\ Goto(c, "queue")
          /\ answer' = answer
    /\ UNCHANGED <<entries, sem, asked, ctxDone, epoch, flushDue>>

\* limitedLookup: a token of the semaphore, or the end of the context.  The
\* lookup then reads the tunnel it asks.
Acquire(c) ==
    /\ pc[c] = "queue"
    /\ sem < MaxConcurrent
    /\ sem' = sem + 1
    /\ asked' = [asked EXCEPT ![c] = epoch]
    /\ Goto(c, "query")
    /\ UNCHANGED <<entries, inflight, name, answer, ctxDone, epoch, flushDue>>

\* Mutant: a token is released that was never taken.
GiveUpReleasing(c) ==
    /\ pc[c] = "queue"
    /\ c \in ctxDone
    /\ answer' = [answer EXCEPT ![c] = CtxError]
    /\ sem' = sem - 1
    /\ Goto(c, "finish")
    /\ UNCHANGED <<entries, inflight, name, asked, ctxDone, epoch, flushDue>>


GiveUpQueueing(c) ==
    /\ pc[c] = "queue"
    /\ c \in ctxDone
    /\ answer' = [answer EXCEPT ![c] = CtxError]
    /\ Goto(c, "finish")
    /\ UNCHANGED <<lookupVars, name, asked, ctxDone, epoch, flushDue>>

\* Mutant: the token is not released.
AnsweredKeeping(c) ==
    /\ pc[c] = "query"
    /\ answer' = [answer EXCEPT ![c] = [kind |-> "addrs", epoch |-> asked[c]]]
    /\ Goto(c, "finish")
    /\ UNCHANGED <<lookupVars, name, asked, ctxDone, epoch, flushDue>>

\* The query comes back, whatever has become of the tunnel meanwhile, and the
\* token is released.
Answered(c) ==
    /\ pc[c] = "query"
    /\ \E k \in {"addrs", "error"} \cup (IF c \in ctxDone THEN {"ctx"} ELSE {}) :
         answer' = [answer EXCEPT ![c] = [kind |-> k, epoch |-> asked[c]]]
    /\ sem' = sem - 1
    /\ Goto(c, "finish")
    /\ UNCHANGED <<entries, inflight, name, asked, ctxDone, epoch, flushDue>>

\* Mutant: only expired entries go.
EvictExpired(old) == [n \in Names |-> IF n \in old THEN None ELSE entries[n]]

\* evictLocked: when the cache is full the entries that had expired when the
\* lookup began go, and everything goes if that is not enough.
Evict(old) ==
    IF Cardinality(Cached) < MaxEntries THEN entries
    ELSE IF Cardinality(Cached \ old) < MaxEntries
         THEN [n \in Names |-> IF n \in old THEN None ELSE entries[n]]
         ELSE [n \in Names |-> None]

\* Mutant: every outcome is remembered.
RememberedAlways(c) == pc[c] = "finish"

\* Whether the call's outcome is remembered: not when the caller's own context
\* has ended and the call failed.
Remembered(c) == answer[c].kind = "addrs" \/ c \notin ctxDone

\* Mutant: the call is removed without closing its channel.
FinishSilently(c) ==
    /\ pc[c] = "finish"
    /\ inflight' = [inflight EXCEPT ![name[c]] = None]
    /\ Goto(c, "return")
    /\ UNCHANGED <<entries, sem, name, asked, answer, ctxDone, epoch, flushDue>>

\* The second critical section: the call is over, its outcome is cached, and
\* closing c.done hands it to everyone who joined.
Finish(c) ==
    LET n == name[c]
        joined == {d \in Callers : pc[d] = "joined" /\ name[d] = n}
    IN  /\ pc[c] = "finish"
        /\ inflight' = [inflight EXCEPT ![n] = None]
        /\ IF Remembered(c)
           THEN \E old \in SUBSET Expired :
                  entries' = [Evict(old) EXCEPT ![n] = [answer |-> answer[c], fresh |-> TRUE]]
           ELSE entries' = entries
        /\ answer' = [d \in Callers |-> IF d \in joined THEN answer[c] ELSE answer[d]]
        /\ pc' = [d \in Callers |-> IF d \in joined \cup {c} THEN "return" ELSE pc[d]]
        /\ UNCHANGED <<sem, name, asked, ctxDone, epoch, flushDue>>

\* A caller that joined also watches its own context; its select may prefer it
\* to an answer that has just arrived, which is this step taken before Finish.
GiveUpJoined(c) ==
    /\ pc[c] = "joined"
    /\ c \in ctxDone
    /\ answer' = [answer EXCEPT ![c] = CtxError]
    /\ Goto(c, "return")
    /\ UNCHANGED <<lookupVars, name, asked, ctxDone, epoch, flushDue>>

Return(c) ==
    /\ pc[c] = "return"
    /\ Goto(c, "idle")
    /\ name' = [name EXCEPT ![c] = None]
    /\ asked' = [asked EXCEPT ![c] = 0]
    /\ answer' = [answer EXCEPT ![c] = None]
    /\ ctxDone' = ctxDone \ {c}
    /\ UNCHANGED <<lookupVars, epoch, flushDue>>

CtxEnds(c) ==
    /\ pc[c] # "idle"
    /\ ctxDone' = ctxDone \cup {c}
    /\ UNCHANGED <<lookupVars, pc, name, asked, answer, epoch, flushDue>>

Expire(n) ==
    /\ n \in Cached \ Expired
    /\ entries' = [entries EXCEPT ![n].fresh = FALSE]
    /\ UNCHANGED <<inflight, sem, callerVars, epoch, flushDue>>

-----------------------------------------------------------------------------
(* The tunnel *)

\* Start records a new network stack; nothing else tells it from the old one.
NewTunnel ==
    /\ epoch < MaxEpoch
    /\ ~flushDue
    /\ epoch' = epoch + 1
    /\ flushDue' = TRUE
    /\ UNCHANGED <<lookupVars, callerVars>>

\* Flush clears the cache.  Start calls it after recording, Stop at any time.
Flush ==
    /\ entries' = [n \in Names |-> None]
    /\ flushDue' = FALSE
    /\ UNCHANGED <<inflight, sem, callerVars, epoch>>

-----------------------------------------------------------------------------
CallerStep(c) ==
    Acquire(c) \/ GiveUpQueueing(c) \/ Answered(c) \/ Finish(c) \/ GiveUpJoined(c) \/ Return(c)

Next ==
    \/ \E c \in Callers : CallerStep(c) \/ CtxEnds(c) \/ \E n \in Names : Lookup(c, n)
    \/ \E n \in Names : Expire(n)
    \/ NewTunnel
    \/ Flush

Spec == Init /\ [][Next]_vars

\* Callers are scheduled, a channel's senders are served in order, and a query
\* comes back: it is bounded by the three attempt timeouts.
Fairness ==
    \A c \in Callers : WF_vars(CallerStep(c)) /\ SF_vars(Acquire(c))

FairSpec == Spec /\ Fairness

-----------------------------------------------------------------------------
(* Properties *)

Leading(c) == pc[c] \in {"queue", "query", "finish"}

\* Lookup, "collapsing concurrent lookups for the same name into a single
\* query": one caller per name makes the call, and everyone who joined has a
\* caller that will still close its channel.
SingleFlight ==
    /\ \A c, d \in Callers : Leading(c) /\ Leading(d) /\ name[c] = name[d] => c = d
    /\ \A c \in Callers : pc[c] = "joined" =>
         \E d \in Callers : Leading(d) /\ name[d] = name[c]

\* MaxConcurrent holds, and every token belongs to a query that is running: none
\* is lost when a caller gives up.
QueriesBounded ==
    /\ sem <= MaxConcurrent
    /\ sem = Cardinality({c \in Callers : pc[c] = "query"})

\* "MaxEntries bounds cache memory."
CacheBounded == Cardinality(Cached) <= MaxEntries

\* "An error caused by the caller cancelling says nothing about the name, so it
\* is not cached."
CancellationNotCached == \A n \in Cached : entries[n].answer.kind # "ctx"

\* Flush: "a new configuration cannot serve answers from the previous one".
CacheFromThisTunnel ==
    ~flushDue => \A n \in Cached : entries[n].answer.epoch = epoch

\* Every lookup returns, the ones that joined another's call too.
LookupReturns == \A c \in Callers : pc[c] # "idle" ~> pc[c] = "idle"

=============================================================================
