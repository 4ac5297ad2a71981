---------------------------- MODULE ThresholdCache ----------------------------
(***************************************************************************)
(* MeasurementThresholdRepositoryJdbc.getByType behind @Cacheable: listener *)
(* threads look a type up in the cache "thresholds", those that miss query  *)
(* monitoring.thresholds and put what they found, a row or its absence, and *)
(* nothing is ever evicted. Lookup, query and put are three steps without a *)
(* lock (sync is false), while an operator inserts and changes rows.        *)
(***************************************************************************)
EXTENDS Integers, FiniteSets

CONSTANTS
    Threads,                        \* listener threads
    Types,                          \* MeasurementType
    Values,                         \* values of a threshold
    None, Uncached,                 \* no row; no cache entry
    MaxUpdates, MaxFaults, MaxCrashes  \* bounds

Rows == Values \cup {None}

ASSUME CacheAssumption ==
    /\ None # Uncached
    /\ Uncached \notin Values
    /\ None \notin Types
    /\ {MaxUpdates, MaxFaults, MaxCrashes} \subseteq Nat

VARIABLES
    rows,     \* rows[t]: the threshold of type t in the table
    cache,    \* cache[t]: the cache's entry
    call,     \* call[c]: thread c's call of getByType, the last one if idle
    held,     \* held[t]: what the row was since this process runs (history)
    asked,    \* threads that queried a type in this process (history)
    updates, faults, crashes

history == <<held, asked>>
bounds == <<updates, faults, crashes>>
vars == <<rows, cache, call, history, bounds>>

\* Before its first call.
NoCall == [pc |-> "idle", type |-> None, result |-> Uncached]

Call ==
    [pc : {"idle", "lookup", "query", "put"}, type : Types, result : Rows \cup {Uncached}]

\* One type invariant: the shape of every variable, and the bounds.
TypeOK ==
    /\ rows \in [Types -> Rows]
    /\ cache \in [Types -> Rows \cup {Uncached}]
    /\ call \in [Threads -> Call \cup {NoCall}]
    /\ held \in [Types -> SUBSET Rows]
    /\ asked \subseteq Threads \X Types
    /\ updates \in 0 .. MaxUpdates
    /\ faults \in 0 .. MaxFaults
    /\ crashes \in 0 .. MaxCrashes

\* The table starts with any rows: V1 has both types, a test has none.
Init ==
    /\ rows \in [Types -> Rows]
    /\ cache = [t \in Types |-> Uncached]
    /\ call = [c \in Threads |-> NoCall]
    /\ held = [t \in Types |-> {rows[t]}]
    /\ asked = {}
    /\ updates = 0 /\ faults = 0 /\ crashes = 0

-----------------------------------------------------------------------------
(* getByType, on thread c.                                                 *)

GetByType(c, t) ==
    /\ call[c].pc = "idle"
    /\ call' = [call EXCEPT ![c] = [pc |-> "lookup", type |-> t, result |-> Uncached]]
    /\ UNCHANGED <<rows, cache, history, bounds>>

\* The call returns what the cache has for its type.
Hit(c) ==
    /\ call[c].pc = "lookup"
    /\ cache[call[c].type] # Uncached
    /\ call' = [call EXCEPT ![c].pc = "idle", ![c].result = cache[call[c].type]]
    /\ UNCHANGED <<rows, cache, history, bounds>>

\* Mutant: a cached absence counts as a miss.
MissOnNull(c) ==
    /\ call[c].pc = "lookup"
    /\ cache[call[c].type] \in {Uncached, None}
    /\ call' = [call EXCEPT ![c].pc = "query"]
    /\ UNCHANGED <<rows, cache, history, bounds>>

Miss(c) ==
    /\ call[c].pc = "lookup"
    /\ cache[call[c].type] = Uncached
    /\ call' = [call EXCEPT ![c].pc = "query"]
    /\ UNCHANGED <<rows, cache, history, bounds>>

\* queryForObject: the row, or EmptyResultDataAccessException and so none.
Query(c) ==
    /\ call[c].pc = "query"
    /\ call' = [call EXCEPT ![c].pc = "put", ![c].result = rows[call[c].type]]
    /\ asked' = asked \cup {<<c, call[c].type>>}
    /\ UNCHANGED <<rows, cache, held, bounds>>

\* The query throws something else, and so does the call; nothing is cached.
QueryFails(c) ==
    /\ call[c].pc = "query"
    /\ faults < MaxFaults
    /\ faults' = faults + 1
    /\ call' = [call EXCEPT ![c].pc = "idle"]
    /\ UNCHANGED <<rows, cache, history, updates, crashes>>

\* Mutant: unless = "#result == null", an absent row is not cached.
PutUnlessNull(c) ==
    /\ call[c].pc = "put"
    /\ cache' = IF call[c].result = None THEN cache
                ELSE [cache EXCEPT ![call[c].type] = call[c].result]
    /\ call' = [call EXCEPT ![c].pc = "idle"]
    /\ UNCHANGED <<rows, history, bounds>>

\* The result goes to the cache, over what another thread put there, and the
\* call returns it.
Put(c) ==
    /\ call[c].pc = "put"
    /\ cache' = [cache EXCEPT ![call[c].type] = call[c].result]
    /\ call' = [call EXCEPT ![c].pc = "idle"]
    /\ UNCHANGED <<rows, history, bounds>>

-----------------------------------------------------------------------------
\* The operator inserts, changes or deletes the row of type t.
Update(t, row) ==
    /\ updates < MaxUpdates
    /\ updates' = updates + 1
    /\ rows' = [rows EXCEPT ![t] = row]
    /\ held' = [held EXCEPT ![t] = @ \cup {row}]
    /\ UNCHANGED <<cache, call, asked, faults, crashes>>

\* Mutant: the cache is kept outside the process.
CrashKeepsCache ==
    /\ crashes < MaxCrashes
    /\ crashes' = crashes + 1
    /\ call' = [c \in Threads |-> NoCall]
    /\ held' = [t \in Types |-> {rows[t]}]
    /\ asked' = {}
    /\ UNCHANGED <<rows, cache, updates, faults>>

\* The process starts again, with an empty ConcurrentMapCache.
Crash ==
    /\ crashes < MaxCrashes
    /\ crashes' = crashes + 1
    /\ cache' = [t \in Types |-> Uncached]
    /\ call' = [c \in Threads |-> NoCall]
    /\ held' = [t \in Types |-> {rows[t]}]
    /\ asked' = {}
    /\ UNCHANGED <<rows, updates, faults>>

Step(c) ==
    \/ \E t \in Types : GetByType(c, t)
    \/ Hit(c) \/ Miss(c) \/ Query(c) \/ QueryFails(c) \/ Put(c)

Next ==
    \/ \E c \in Threads : Step(c)
    \/ \E t \in Types, row \in Rows : Update(t, row)
    \/ Crash

Spec == Init /\ [][Next]_vars

-----------------------------------------------------------------------------
(***************************************************************************)
(* An answer is no older than the process: what getByType returned, and    *)
(* what later calls will be answered with, was the type's row at some time *)
(* since the start. It may be any such row: a change is seen at once, late *)
(* or, if the type was cached before it, not at all. With rows that do not *)
(* change it is the row, which is what ThresholdMonitoring relies on.      *)
(***************************************************************************)
AnswersSinceStart ==
    /\ \A t \in Types : cache[t] \in held[t] \cup {Uncached}
    /\ \A c \in Threads : call[c].result # Uncached => call[c].result \in held[call[c].type]

\* Thread c missed type t and has not put its result yet.
Missing(c, t) == call[c].pc \in {"query", "put"} /\ call[c].type = t

Settled(t) == cache[t] # Uncached /\ \A c \in Threads : ~Missing(c, t)

(***************************************************************************)
(* Threads that miss together may put different rows, the older one last.  *)
(* That ends with the last of them: from then on the type keeps its entry, *)
(* whatever the operator does and whoever calls, until the process ends.   *)
(***************************************************************************)
SettledForGood ==
    [][crashes' = crashes =>
          \A t \in Types : Settled(t) => Settled(t)' /\ cache'[t] = cache[t]]_vars

(***************************************************************************)
(* The database is asked by a thread once for a type and process, be the   *)
(* row absent: an unknown type, retried and redelivered, is no load on it. *)
(* Only a query that failed is repeated.                                   *)
(***************************************************************************)
AskedOnce ==
    \A c \in Threads : call[c].pc = "query" => <<c, call[c].type>> \notin asked
=============================================================================
