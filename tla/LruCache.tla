------------------------------ MODULE LruCache ------------------------------
(***************************************************************************)
(* The translation cache of proxy/internal/cache. Its LRU container is the *)
(* hashicorp library; here it is the sequence of its entries, the most     *)
(* recently used first, each a record [key, sql].                          *)
(***************************************************************************)
EXTENDS Integers, Sequences

CONSTANT CacheSize      \* CACHE_SIZE; lru.New refuses a size below 1

ASSUME CacheSizeAssumption == CacheSize \in Nat \ {0}

\* The key is cached.
Has(c, k) == \E i \in DOMAIN c : c[i].key = k

\* The position of a cached key.
Position(c, k) == CHOOSE i \in DOMAIN c : c[i].key = k

\* Entry e becomes the most recent one and takes the place of position i,
\* which is the entry's own, a new one at the end, or the oldest one's.
Promote(c, i, e) ==
    [j \in 1 .. (IF i > Len(c) THEN i ELSE Len(c)) |->
        CASE j = 1            -> e
          [] j > 1 /\ j <= i  -> c[j - 1]
          [] j > 1 /\ j > i   -> c[j]]

\* Wrong on purpose: a Get that peeks. The entry keeps its place.
TouchNothing(c, k) == c

\* Cache.Get on a cached key: its value, and the cache the lookup leaves.
Lookup(c, k) == c[Position(c, k)].sql
Touch(c, k)  == Promote(c, Position(c, k), c[Position(c, k)])

\* Where Add puts the displaced entry: its own place if the key is cached,
\* else a free place, else the place of the least recently used entry.
Slot(c, k) == IF Has(c, k) THEN Position(c, k)
              ELSE IF Len(c) < CacheSize THEN Len(c) + 1 ELSE Len(c)

\* Wrong on purpose: a Set without the bound.
AddUnbounded(c, k, v) ==
    Promote(c, IF Has(c, k) THEN Position(c, k) ELSE Len(c) + 1,
            [key |-> k, sql |-> v])

\* Wrong on purpose: a Set that always inserts.
AddDuplicate(c, k, v) ==
    Promote(c, IF Len(c) < CacheSize THEN Len(c) + 1 ELSE Len(c),
            [key |-> k, sql |-> v])

\* Cache.Set: insert or overwrite, and make the entry the most recent one.
Add(c, k, v) == Promote(c, Slot(c, k), [key |-> k, sql |-> v])
=============================================================================
