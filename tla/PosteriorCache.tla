--------------------------- MODULE PosteriorCache ---------------------------
(***************************************************************************)
(* The singleton cache of posteriors (src/src/utils/posterior_cache.py) and*)
(* the inference that consults it (_run_pymc_inference in                  *)
(* src/src/services/bayesian.py), which runs to its end without yielding.  *)
(* Only the "cached" mode reads the cache; every mode writes it.           *)
(***************************************************************************)
EXTENDS LruCache

CONSTANTS Keys, MaxEntries, TTL,
          Mode,           \* "cached", "approximate" or "full"
          MaxOps, MaxTime \* bounds of the check

VARIABLES
  cache,  \* the entries; used is the operation that last touched one
  now,
  ops     \* operations so far
vars == <<cache, now, ops>>

Init == cache = <<>> /\ now = 0 /\ ops = 0

Disabled == TTL <= 0 \/ MaxEntries <= 0

Operation == ops < MaxOps /\ ops' = ops + 1 /\ UNCHANGED now

\* get: what is left of the cache when it is asked for k, and whether k is found.
Found(k) == ~Disabled /\ k \in CachedKeys(cache) /\ now - Entry(cache, k).time <= TTL
AfterGet(k) ==
  IF Disabled THEN cache
  ELSE IF Found(k)
       THEN Append(Without(cache, k), [Entry(cache, k) EXCEPT !.used = ops'])
       ELSE Without(cache, k)

\* put
AfterPut(s, k) ==
  IF Disabled THEN s
  ELSE Assign(EvictTo(s, MaxEntries), [key |-> k, time |-> now, used |-> ops'])

Infer(k) ==
  /\ Operation
  /\ cache' = IF Mode # "cached" THEN AfterPut(cache, k)
              ELSE IF Found(k) THEN AfterGet(k) ELSE AfterPut(AfterGet(k), k)

\* The inference raises after the lookup: no data, or the sampler fails.
InferenceFails(k) ==
  /\ Operation
  /\ ~(Mode = "cached" /\ Found(k))
  /\ cache' = IF Mode = "cached" THEN AfterGet(k) ELSE cache

Invalidate(k) == Operation /\ cache' = Without(cache, k)
InvalidateAll == Operation /\ cache' = <<>>

Tick == now < MaxTime /\ now' = now + 1 /\ UNCHANGED <<cache, ops>>

Next ==
  \/ \E k \in Keys : Infer(k) \/ InferenceFails(k) \/ Invalidate(k)
  \/ InvalidateAll \/ Tick

Spec == Init /\ [][Next]_vars

-----------------------------------------------------------------------------

\* posterior_cache.py: "bounded by maxlen (LRU eviction)".  Only an invalidation or
\* a full cache takes a posterior that is fresh, and then the one that was used
\* longest ago.
LiveEntriesStay ==
  [][\A i \in DOMAIN cache :
       now - cache[i].time <= TTL /\ cache[i].key \notin CachedKeys(cache')
         => \/ Invalidate(cache[i].key) \/ InvalidateAll
            \/ /\ Len(cache) = MaxEntries
               /\ \A j \in DOMAIN cache : cache[i].used <= cache[j].used]_vars
=============================================================================
