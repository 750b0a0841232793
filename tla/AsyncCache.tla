----------------------------- MODULE AsyncCache -----------------------------
(***************************************************************************)
(* One function decorated with async_lru_cache (src/src/utils/cache.py) and*)
(* the tasks of an asyncio loop that call it.  The wrapper is atomic up to *)
(* its only await, the call of the function, so a lookup and the insertion *)
(* of its result are separate actions that the calls, expiries and clears  *)
(* of other tasks interleave with.                                         *)
(***************************************************************************)
EXTENDS LruCache

CONSTANTS Callers, Keys, MaxSize, TTL,
          MaxTime, MaxClears  \* bounds of the check

ASSUME CacheAssumption == MaxSize \in Nat \ {0} /\ TTL \in Nat

VARIABLES
  cache,     \* the entries; begun is the number of clears when its call began
  call,      \* per caller, the key whose result it awaits, or "idle"
  begun,     \* per caller, the number of clears when its call began
  inFlight,  \* the callers that were awaiting at the last clear
  clears, now
vars == <<cache, call, begun, inFlight, clears, now>>

Init ==
  /\ cache = <<>> /\ call = [c \in Callers |-> "idle"]
  /\ begun = [c \in Callers |-> 0] /\ inFlight = {}
  /\ clears = 0 /\ now = 0

Expired(e) == now - e.time >= TTL

Hit(c, k) ==
  /\ call[c] = "idle"
  /\ k \in CachedKeys(cache) /\ ~Expired(Entry(cache, k))
  /\ cache' = Touch(cache, k)
  /\ UNCHANGED <<call, begun, inFlight, clears, now>>

\* An expired entry is deleted before the function is awaited.
Miss(c, k) ==
  /\ call[c] = "idle"
  /\ k \in CachedKeys(cache) => Expired(Entry(cache, k))
  /\ cache' = Without(cache, k)
  /\ call' = [call EXCEPT ![c] = k]
  /\ begun' = [begun EXCEPT ![c] = clears]
  /\ UNCHANGED <<inFlight, clears, now>>

\* A mutant of Sweep that finds an entry expired one tick early.
SweepOneMore(s) == Left(s, {i \in DOMAIN s : now - s[i].time + 1 < TTL})

Sweep(s) == Left(s, {i \in DOMAIN s : ~Expired(s[i])})

Return(c) ==
  /\ call[c] # "idle"
  /\ LET swept == EvictTo(Sweep(cache), MaxSize)
     IN  cache' = Assign(swept, [key |-> call[c], time |-> now, by |-> c, begun |-> begun[c]])
  /\ call' = [call EXCEPT ![c] = "idle"]
  /\ UNCHANGED <<begun, inFlight, clears, now>>

\* The function raises: nothing is cached.
Raise(c) ==
  /\ call[c] # "idle"
  /\ call' = [call EXCEPT ![c] = "idle"]
  /\ UNCHANGED <<cache, begun, inFlight, clears, now>>

\* A mutant of Clear that only drops what has expired.
SweepInsteadOfClear ==
  /\ clears < MaxClears /\ clears' = clears + 1
  /\ cache' = Sweep(cache)
  /\ inFlight' = {c \in Callers : call[c] # "idle"}
  /\ UNCHANGED <<call, begun, now>>

\* clear_all_caches and the wrapper's cache_clear
Clear ==
  /\ clears < MaxClears /\ clears' = clears + 1
  /\ cache' = <<>>
  /\ inFlight' = {c \in Callers : call[c] # "idle"}
  /\ UNCHANGED <<call, begun, now>>

Tick ==
  /\ now < MaxTime /\ now' = now + 1
  /\ UNCHANGED <<cache, call, begun, inFlight, clears>>

Next ==
  \/ \E c \in Callers, k \in Keys : Hit(c, k) \/ Miss(c, k)
  \/ \E c \in Callers : Return(c) \/ Raise(c)
  \/ Clear \/ Tick

Spec == Init /\ [][Next]_vars

-----------------------------------------------------------------------------

\* A result that predates the last clear is cached only if its call was awaiting
\* when the cache was cleared.
OnlyInFlightSurvivesClear ==
  \A i \in DOMAIN cache : cache[i].begun < clears => cache[i].by \in inFlight

\* Only a clear, or a full cache, takes an entry that has not expired away.
LiveEntriesStay ==
  [][\A k \in CachedKeys(cache) :
       ~Expired(Entry(cache, k)) /\ k \notin CachedKeys(cache')
         => clears' # clears \/ Len(cache) = MaxSize]_vars

\* cache.py: "OrderedDict for true LRU: most-recently-used at the end".  The
\* entry a call has just stored is the last one that would be evicted.
StoredIsMostRecent ==
  [][\A c \in Callers : Return(c) => cache'[Len(cache')].key = call[c]]_vars
=============================================================================
