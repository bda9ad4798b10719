------------------------------ MODULE L1Cache ------------------------------
(***************************************************************************)
(* The client's L1 cache (client/l1cache.go): an LRU list with a TTL on    *)
(* each entry.  Every method holds the cache's mutex from beginning to     *)
(* end, so each is an operator from the cache before to the cache after.   *)
(***************************************************************************)
EXTENDS Integers, Sequences

CONSTANTS
    Keys,
    Capacity,    \* entries the list may hold
    DefaultTTL,  \* lifetime of an entry stored without a TTL
    None         \* a key without an entry

ASSUME L1Assumption ==
    /\ Capacity \in Nat \ {0}
    /\ DefaultTTL \in Nat

\* NewL1Cache and Clear.  The list has the front first.
EmptyL1 == [evictList |-> <<>>, items |-> [k \in Keys |-> None]]

\* Remove takes out the element of the list that holds the key.
Without(list, k) ==
    LET elem == CHOOSE i \in DOMAIN list : list[i] = k
    IN  [i \in 1 .. Len(list) - 1 |-> IF i < elem THEN list[i] ELSE list[i + 1]]

MoveToFront(list, k) == <<k>> \o Without(list, k)

removeElement(l1, k) ==
    [evictList |-> Without(l1.evictList, k), items |-> [l1.items EXCEPT ![k] = None]]

\* Delete.
L1Delete(l1, k) == IF l1.items[k] # None THEN removeElement(l1, k) ELSE l1

\* Get finds the entry, and it has not expired.
L1Hit(l1, k, now) == l1.items[k] # None /\ ~(now > l1.items[k].expiresAt)

\* Mutant: a hit leaves the order as it is.
L1Get_FIFO(l1, k, now) ==
    IF l1.items[k] # None /\ ~L1Hit(l1, k, now) THEN removeElement(l1, k) ELSE l1

\* What Get leaves behind: a hit moves to the front, an expired entry goes.
L1Get(l1, k, now) ==
    IF l1.items[k] = None THEN l1
    ELSE IF L1Hit(l1, k, now)
         THEN [evictList |-> MoveToFront(l1.evictList, k), items |-> l1.items]
         ELSE removeElement(l1, k)

\* Mutant: a TTL of zero is no expiry at all, as it is in the store.
ExpiresAt_Never(ttl, now) == now + (IF ttl <= 0 THEN 1000 * (DefaultTTL + 1) ELSE ttl)

ExpiresAt(ttl, now) == now + (IF ttl <= 0 THEN DefaultTTL ELSE ttl)

evictOldest(l1) ==
    IF Len(l1.evictList) > Capacity
    THEN removeElement(l1, l1.evictList[Len(l1.evictList)])
    ELSE l1

\* Set: the newest entry is at the front, and one too many goes from the back.
L1Set(l1, k, version, ttl, now) ==
    LET entry == [version |-> version, expiresAt |-> ExpiresAt(ttl, now)]
        items == [l1.items EXCEPT ![k] = entry]
    IN  IF l1.items[k] # None
        THEN [evictList |-> MoveToFront(l1.evictList, k), items |-> items]
        ELSE evictOldest([evictList |-> <<k>> \o l1.evictList, items |-> items])
=============================================================================
