------------------------- MODULE ThresholdCacheProofs -------------------------
(***************************************************************************)
(* Proofs about ThresholdCache, for any threads, types, values and bounds.  *)
(* They rest on one inductive invariant, CInv: beside the two properties    *)
(* themselves it says that the row of today is among those held, that a     *)
(* thread about to put has a result, and what having asked leads to.        *)
(***************************************************************************)
EXTENDS ThresholdCache, TLAPS

RowIsHeld == \A t \in Types : rows[t] \in held[t]

PutHasResult == \A c \in Threads : call[c].pc = "put" => call[c].result # Uncached

\* A thread that asked has cached the answer or is about to.
AskedIsCached ==
    \A c \in Threads, t \in Types :
        <<c, t>> \in asked =>
            \/ cache[t] # Uncached
            \/ call[c].pc = "put" /\ call[c].type = t

CInv ==
    /\ TypeOK
    /\ RowIsHeld /\ PutHasResult /\ AskedIsCached
    /\ AnswersSinceStart /\ AskedOnce

-----------------------------------------------------------------------------
\* A thread that is doing something has a call, of a type.
LEMMA CallHasType ==
    ASSUME TypeOK, NEW c \in Threads, call[c].pc # "idle"
    PROVE  call[c] \in Call
BY DEF TypeOK, NoCall

\* Every variable keeps its shape.
LEMMA CacheTypes ==
    ASSUME TypeOK, [Next]_vars
    PROVE  TypeOK'
<1> USE CacheAssumption
<1>1. ASSUME NEW c \in Threads, NEW t \in Types, GetByType(c, t) PROVE TypeOK'
  BY <1>1 DEF TypeOK, GetByType, Call, Rows, history, bounds
<1>2. ASSUME NEW c \in Threads, Hit(c) PROVE TypeOK'
  BY <1>2, CallHasType DEF TypeOK, Hit, Call, Rows, history, bounds
<1>3. ASSUME NEW c \in Threads, Miss(c) PROVE TypeOK'
  BY <1>3, CallHasType DEF TypeOK, Miss, Call, Rows, history, bounds
<1>4. ASSUME NEW c \in Threads, Query(c) PROVE TypeOK'
  <2>1. call[c] \in Call /\ rows[call[c].type] \in Rows /\ call[c].type \in Types
    BY <1>4, CallHasType DEF TypeOK, Query, Call
  <2>2. call' \in [Threads -> Call \cup {NoCall}]
    BY <1>4, <2>1 DEF TypeOK, Query, Call
  <2>3. asked' \subseteq Threads \X Types
    BY <1>4, <2>1 DEF TypeOK, Query
  <2> QED
    BY <1>4, <2>2, <2>3 DEF TypeOK, Query, bounds
<1>5. ASSUME NEW c \in Threads, QueryFails(c) PROVE TypeOK'
  BY <1>5, CallHasType DEF TypeOK, QueryFails, Call, Rows, history
<1>6. ASSUME NEW c \in Threads, Put(c) PROVE TypeOK'
  BY <1>6, CallHasType DEF TypeOK, Put, Call, Rows, history, bounds
<1>7. ASSUME NEW t \in Types, NEW row \in Rows, Update(t, row) PROVE TypeOK'
  BY <1>7 DEF TypeOK, Update
<1>8. ASSUME Crash PROVE TypeOK'
  BY <1>8 DEF TypeOK, Crash
<1>9. CASE UNCHANGED vars
  BY <1>9 DEF TypeOK, vars, history, bounds
<1> QED
  BY <1>1, <1>2, <1>3, <1>4, <1>5, <1>6, <1>7, <1>8, <1>9 DEF Next, Step

\* A step of a call leaves what it does not write, and so CInv.
LEMMA CallKeepsCInv ==
    ASSUME CInv, TypeOK', NEW c \in Threads, Step(c)
    PROVE  CInv'
<1> USE CacheAssumption DEF CInv, TypeOK, RowIsHeld, PutHasResult, AskedIsCached,
        AnswersSinceStart, AskedOnce, history, bounds
<1>1. ASSUME NEW t \in Types, GetByType(c, t) PROVE CInv'
  BY <1>1 DEF GetByType
<1>2. CASE Hit(c)
  BY <1>2, CallHasType DEF Hit, Call
<1>3. CASE Miss(c)
  BY <1>3, CallHasType DEF Miss, Call
<1>4. CASE Query(c)
  BY <1>4, CallHasType DEF Query, Call, Rows
<1>5. CASE QueryFails(c)
  BY <1>5, CallHasType DEF QueryFails, Call
<1>6. CASE Put(c)
  BY <1>6, CallHasType DEF Put, Call
<1> QED
  BY <1>1, <1>2, <1>3, <1>4, <1>5, <1>6 DEF Step

LEMMA CInvStep ==
    ASSUME CInv, [Next]_vars
    PROVE  CInv'
<1>1. TypeOK'
  BY CacheTypes DEF CInv
<1> USE DEF CInv, RowIsHeld, PutHasResult, AskedIsCached, AnswersSinceStart, AskedOnce
<1>2. ASSUME NEW t \in Types, NEW row \in Rows, Update(t, row) PROVE CInv'
  BY <1>1, <1>2 DEF Update, TypeOK, Call, NoCall
<1>3. CASE Crash
  BY <1>1, <1>3 DEF Crash, NoCall
<1>4. CASE UNCHANGED vars
  BY <1>1, <1>4 DEF vars, history, bounds
<1> QED
  BY <1>1, <1>2, <1>3, <1>4, CallKeepsCInv DEF Next

LEMMA CInvStarts == Init => CInv
BY CacheAssumption DEF Init, CInv, TypeOK, RowIsHeld, PutHasResult, AskedIsCached,
   AnswersSinceStart, AskedOnce, NoCall, Rows

LEMMA CInvAlways == Spec => []CInv
BY CInvStarts, CInvStep, PTL DEF Spec

-----------------------------------------------------------------------------
\* getByType answers with a row of the table since the process started,
\* through overlapping misses, failing queries and an operator's changes.
THEOREM CachedSinceStart == Spec => []AnswersSinceStart
BY CInvAlways, PTL DEF CInv

\* No thread queries the table twice for a type, be the row absent.
THEOREM QueriedOnce == Spec => []AskedOnce
BY CInvAlways, PTL DEF CInv

\* Once nobody is between a miss and its put, a type's entry stays until the
\* process ends, and nobody misses again.
THEOREM SettledStays == Spec => SettledForGood
<1>1. ASSUME CInv, [Next]_vars, crashes' = crashes, NEW t \in Types, Settled(t)
      PROVE  Settled(t)' /\ cache'[t] = cache[t]
  <2> USE <1>1 DEF CInv, TypeOK, Settled, Missing, history, bounds
  <2>1. ASSUME NEW c \in Threads, NEW u \in Types, GetByType(c, u)
        PROVE  Settled(t)' /\ cache'[t] = cache[t]
    BY <2>1 DEF GetByType
  <2>2. ASSUME NEW c \in Threads, Hit(c) PROVE Settled(t)' /\ cache'[t] = cache[t]
    BY <2>2 DEF Hit
  <2>3. ASSUME NEW c \in Threads, Miss(c) PROVE Settled(t)' /\ cache'[t] = cache[t]
    BY <2>3, CallHasType DEF Miss, Call
  <2>4. ASSUME NEW c \in Threads, Query(c) PROVE Settled(t)' /\ cache'[t] = cache[t]
    BY <2>4, CallHasType DEF Query, Call
  <2>5. ASSUME NEW c \in Threads, QueryFails(c)
        PROVE  Settled(t)' /\ cache'[t] = cache[t]
    BY <2>5, CallHasType DEF QueryFails, Call
  <2>6. ASSUME NEW c \in Threads, Put(c) PROVE Settled(t)' /\ cache'[t] = cache[t]
    BY <2>6, CallHasType DEF Put, Call
  <2>7. ASSUME NEW u \in Types, NEW row \in Rows, Update(u, row)
        PROVE  Settled(t)' /\ cache'[t] = cache[t]
    BY <2>7 DEF Update
  <2>8. CASE Crash
    BY <2>8 DEF Crash
  <2>9. CASE UNCHANGED vars
    BY <2>9 DEF vars
  <2> QED
    BY <2>1, <2>2, <2>3, <2>4, <2>5, <2>6, <2>7, <2>8, <2>9 DEF Next, Step
<1>2. CInv /\ [Next]_vars =>
          [crashes' = crashes =>
             \A t \in Types : Settled(t) => Settled(t)' /\ cache'[t] = cache[t]]_vars
  BY <1>1
<1> QED
  BY <1>2, CInvAlways, PTL DEF Spec, SettledForGood
=============================================================================
