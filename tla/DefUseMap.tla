----------------------------- MODULE DefUseMap -----------------------------
(***************************************************************************)
(* The hash map of ta/cfa.c that remembers the last value DEFined for an   *)
(* address of a critical variable, so that a USE can be compared with it.  *)
(*                                                                         *)
(* A map is a function from bucket numbers to chains; a chain is the       *)
(* sequence of the nodes reached from bucket[i] through next.              *)
(***************************************************************************)
EXTENDS Naturals, Sequences

CONSTANT HashmapSize           \* HASHMAP_SIZE: 0x1001 in the code

ASSUME HashmapSizeAssumption == HashmapSize \in Nat \ {0}

Slots    == 0..(HashmapSize - 1)
EmptyMap == [i \in Slots |-> <<>>]

\* The nodes a lookup of key can stop at: the first of its chain, if any.
Hits(map, key) ==
  LET chain == map[key % HashmapSize]
      at    == {i \in DOMAIN chain : chain[i].key = key}
  IN  {i \in at : \A j \in at : i <= j}

\* hashmap_lookup() returns a node (not NULL) ...
Found(map, key) == Hits(map, key) # {}

\* ... and its value is v.
Maps(map, key, v) ==
  \E i \in Hits(map, key) : map[key % HashmapSize][i].value = v

\* A corrected hashmap_update(): the new node becomes the head of its chain.
LinkedUpdate(map, key, v) ==
  LET slot == key % HashmapSize IN
  [map EXCEPT ![slot] =
     IF Found(map, key)
     THEN [i \in DOMAIN @ |-> IF i \in Hits(map, key)
                              THEN [@[i] EXCEPT !.value = v] ELSE @[i]]
     ELSE <<[key |-> key, value |-> v]>> \o @]

\* hashmap_update(): modifies the node it finds.  A new node is linked in front
\* of the chain through the LOCAL pointer ptr only: bucket[] never changes, so
\* the node is unreachable as soon as the function returns.
Update(map, key, v) ==
  IF Found(map, key) THEN LinkedUpdate(map, key, v) ELSE map

\* hashmap_update() calls TEE_Malloc for a new node.
Allocates(map, key) == ~Found(map, key)

=============================================================================
