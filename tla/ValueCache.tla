----------------------------- MODULE ValueCache -----------------------------
(***************************************************************************)
(* The value half of runtime/state.rs: per field the value last put there  *)
(* by the reader thread or the scheduler thread, and the flag a write sets *)
(* so that the value is not used before it was observed again.             *)
(*                                                                         *)
(* Each operator is one critical section of the device table's mutex. The  *)
(* age of a value is left out: a caller that finds a value too old is a    *)
(* free choice of the modules that use the cache.                          *)
(***************************************************************************)
EXTENDS Readings

VARIABLE cache  \* cache[f]: None or an Entry

Entry == [rd : Reading, outdated : BOOLEAN]

CacheInit == cache = [f \in Fields |-> None]

PutValue(f, rd) == cache' = [cache EXCEPT ![f] = [rd |-> rd, outdated |-> FALSE]]

\* The cache after mark_outdated: a field never seen has nothing to mark.
Outdated(f) ==
    IF cache[f] = None THEN cache ELSE [cache EXCEPT ![f].outdated = TRUE]

MarkOutdated(f) == cache' = Outdated(f)

\* What do_read and poll_due ask before they use a cached value.
Trusted(f) == cache[f] # None /\ ~cache[f].outdated
=============================================================================
