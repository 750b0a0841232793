------------------------------ MODULE LruCache ------------------------------
(***************************************************************************)
(* A Python OrderedDict used as an LRU cache: the sequence of its entries, *)
(* the one to evict first at the front.  AsyncCache and PosteriorCache use *)
(* it the way src/src/utils/cache.py and src/src/utils/posterior_cache.py  *)
(* use theirs.  An entry is a record with a key and the time it was stored.*)
(***************************************************************************)
EXTENDS Integers, Sequences, FiniteSets

CachedKeys(cache) == {cache[i].key : i \in DOMAIN cache}

Place(cache, k) == CHOOSE i \in DOMAIN cache : cache[i].key = k
Entry(cache, k) == cache[Place(cache, k)]

\* del cache[k], and cache.pop(k, None): a key has one place.
Without(cache, k) ==
  IF k \in CachedKeys(cache)
  THEN SubSeq(cache, 1, Place(cache, k) - 1) \o SubSeq(cache, Place(cache, k) + 1, Len(cache))
  ELSE cache

\* What is left of a cache, or of another list, at some of its places, in its order.
Ranked(places, i) == Cardinality({j \in places : j <= i})
Left(cache, places) ==
  [n \in 1..Cardinality(places) |-> cache[CHOOSE i \in places : Ranked(places, i) = n]]

\* cache.move_to_end(k)
Touch(cache, k) == Append(Without(cache, k), Entry(cache, k))

\* cache[e.key] = e: a key that is present keeps its place.
Assign(cache, e) ==
  IF e.key \in CachedKeys(cache)
  THEN [i \in DOMAIN cache |-> IF cache[i].key = e.key THEN e ELSE cache[i]]
  ELSE Append(cache, e)

\* while len(cache) >= size: cache.popitem(last=False)
EvictTo(cache, size) ==
  IF Len(cache) < size THEN cache ELSE SubSeq(cache, Len(cache) - size + 2, Len(cache))
=============================================================================
