------------------------------- MODULE PinCache -------------------------------
(* The cache of recovery/cache: least recently used out first, with entries that expire *)
(* and, in pin mode, entries that stay while somebody uses them. The recovery worker    *)
(* keeps the lists its activities work through in one of these (ten places, no pins, no *)
(* expiry). Every operation runs under one mutex, so it is one step; what callers do    *)
(* between Get and Release interleaves.                                                 *)
EXTENDS Naturals, Sequences, SequencesExt

CONSTANTS CacheKeys,
          CacheSize,   \* maxSize
          MaxHolds     \* bound: uses of one entry at a time

VARIABLES mode,        \* the options: pin, ttl
          byAccess,    \* keys, the most recently used first
          byKey,       \* key -> refCount and whether it is past its expiration
          held         \* key -> uses the callers have not released

vars == <<mode, byAccess, byKey, held>>

Init ==
  /\ mode \in [pin : BOOLEAN, ttl : BOOLEAN]
  /\ byAccess = <<>>
  /\ byKey = <<>>
  /\ held = [k \in CacheKeys |-> 0]

Cached(k) == k \in DOMAIN byKey
Forget(k) == [j \in DOMAIN byKey \ {k} |-> byKey[j]]
Place(k) == CHOOSE i \in DOMAIN byAccess : byAccess[i] = k
Without(k) == RemoveAt(byAccess, Place(k))
ToFront(k) == <<k>> \o Without(k)
Pins(k) == IF mode.pin THEN byKey[k].refs + 1 ELSE byKey[k].refs
Holds(k) == IF mode.pin THEN [held EXCEPT ![k] = @ + 1] ELSE held

Expires(k) ==
  /\ mode.ttl /\ Cached(k)
  /\ byKey' = [byKey EXCEPT ![k].old = TRUE]
  /\ UNCHANGED <<mode, byAccess, held>>

(* The pin comes first: an entry somebody uses is returned however old it is. *)
Get(k) ==
  /\ Cached(k) /\ held[k] < MaxHolds
  /\ IF Pins(k) = 0 /\ byKey[k].old
     THEN byAccess' = Without(k) /\ byKey' = Forget(k) /\ UNCHANGED held
     ELSE /\ byAccess' = ToFront(k)
          /\ byKey' = [byKey EXCEPT ![k].refs = Pins(k)]
          /\ held' = Holds(k)
  /\ UNCHANGED mode

(* Put (not in pin mode) and PutIfNotExist of a key that is there. *)
PutExisting(k) ==
  /\ Cached(k) /\ held[k] < MaxHolds
  /\ byKey' = [byKey EXCEPT ![k] = [refs |-> Pins(k), old |-> @.old /\ ~mode.ttl]]
  /\ byAccess' = ToFront(k)
  /\ held' = Holds(k)
  /\ UNCHANGED mode

(* Mutant of Evictable: an entry in use may go. *)
EvictsInUse(refs) == refs >= 0

Evictable(refs) == refs = 0

(* A new key: the least recently used entry makes room, or, in use, keeps the new one   *)
(* out (ErrCacheFull).                                                                  *)
PutNew(k) ==
  LET refs == IF mode.pin THEN 1 ELSE 0
      put == [j \in DOMAIN byKey \union {k} |-> IF j = k THEN [refs |-> refs, old |-> FALSE] ELSE byKey[j]]
      order == <<k>> \o byAccess
      oldest == Last(order)
      full == Len(order) = CacheSize
  IN /\ ~Cached(k)
     /\ IF full /\ ~Evictable(put[oldest].refs)
        THEN UNCHANGED <<byAccess, byKey, held>>
        ELSE /\ byAccess' = IF full THEN Front(order) ELSE order
             /\ byKey' = IF full THEN [j \in DOMAIN put \ {oldest} |-> put[j]] ELSE put
             /\ held' = Holds(k)
     /\ UNCHANGED mode

(* Delete takes the entry from whoever uses it; none of them releases it afterwards     *)
(* (Release looks the key up and has nothing to count down).                            *)
Delete(k) ==
  /\ Cached(k)
  /\ byAccess' = Without(k)
  /\ byKey' = Forget(k)
  /\ held' = [held EXCEPT ![k] = 0]
  /\ UNCHANGED mode

Release(k) ==
  /\ held[k] > 0
  /\ byKey' = [byKey EXCEPT ![k].refs = @ - 1]
  /\ held' = [held EXCEPT ![k] = @ - 1]
  /\ UNCHANGED <<mode, byAccess>>

Next == \E k \in CacheKeys : Expires(k) \/ Get(k) \/ PutExisting(k) \/ PutNew(k) \/ Delete(k) \/ Release(k)

----------------------------------------------------------------------------
(* The list and the map hold the same keys, one place below the size the cache was      *)
(* made with, and an entry that is used is there with all its uses counted: no eviction *)
(* and no expiry takes it from its users.                                               *)
UsedEntriesStay ==
  /\ ToSet(byAccess) = DOMAIN byKey /\ Len(byAccess) < CacheSize
  /\ \A i, j \in DOMAIN byAccess : byAccess[i] = byAccess[j] => i = j
  /\ \A k \in CacheKeys : held[k] > 0 => Cached(k) /\ byKey[k].refs = held[k]
  /\ \A k \in DOMAIN byKey : byKey[k].refs = held[k]

(* The inductive invariant is that with its types, and nothing but a pin holds an entry. *)
Sizes == CacheSize \in Nat \ {0}

TypeOK ==
  /\ mode \in [pin : BOOLEAN, ttl : BOOLEAN]
  /\ byAccess \in Seq(CacheKeys)
  /\ DOMAIN byKey \subseteq CacheKeys
  /\ byKey \in [DOMAIN byKey -> [refs : Nat, old : BOOLEAN]]
  /\ held \in [CacheKeys -> Nat]

IInv == TypeOK /\ UsedEntriesStay
===============================================================================
