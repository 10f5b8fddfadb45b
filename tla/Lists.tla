------------------------------- MODULE Lists -------------------------------
(***************************************************************************)
(* The linked list of src/common/data/list.c, with nodes in memory that    *)
(* is freed and used again.                                                *)
(***************************************************************************)
EXTENDS Naturals, FiniteSets, Sequences

CONSTANTS Addresses, Data, NULL, Indices

ASSUME ListsAssumption ==
  /\ NULL \notin Addresses \union Data
  /\ IsFiniteSet(Addresses) /\ Indices \subseteq Nat

VARIABLES
  root, count,  \* struct List
  node,         \* memory: address -> struct ListNode, freed or not
  live,         \* addresses that are allocated
  ret           \* what the last call returned

list_vars == <<root, count, node, live, ret>>

(* list_new(); without memory there is no list.                            *)
ListInit ==
  /\ root = NULL /\ count = 0
  /\ node \in [Addresses -> [prev : {NULL}, next : {NULL}, data : {NULL}]]
  /\ live = {} /\ ret = NULL

(* The node that idx steps from the root lead to.                          *)
Nth(idx) ==
  LET cur[k \in Nat] == IF k = 0 THEN root
                        ELSE IF cur[k - 1] = NULL THEN NULL ELSE node[cur[k - 1]].next
  IN  cur[idx]

(* The loop of list_add() ends at a node without a next one.               *)
Tail0 == CHOOSE n \in {Nth(k) : k \in 0 .. Cardinality(Addresses)} \ {NULL} :
           node[n].next = NULL

list_add(d) ==
  \/ ret' = FALSE /\ UNCHANGED <<root, count, node, live>>   \* no memory
  \/ \E new \in Addresses \ live :
       /\ live' = live \union {new}
       /\ LET made == [node EXCEPT ![new] = [prev |-> NULL, next |-> NULL, data |-> d]]
          IN  IF root = NULL THEN root' = new /\ node' = made
              ELSE /\ node' = [made EXCEPT ![Tail0].next = new, ![new].prev = Tail0]
                   /\ UNCHANGED root
       /\ count' = count + 1 /\ ret' = TRUE

(* Mutant: the node behind the removed one still points back at it.        *)
Unlinked_forward(cur) ==
  LET c == node[cur]
  IN  IF c.prev = NULL THEN node ELSE [node EXCEPT ![c.prev].next = c.next]

(* The nodes once those around cur point past it.                          *)
Unlinked(cur) ==
  LET c == node[cur]
      n == IF c.prev = NULL THEN node ELSE [node EXCEPT ![c.prev].next = c.next]
  IN  IF c.next = NULL THEN n ELSE [n EXCEPT ![c.next].prev = c.prev]

list_remove_at(idx) ==
  LET cur == Nth(idx) IN
  IF idx >= count \/ cur = NULL
  THEN ret' = NULL /\ UNCHANGED <<root, count, node, live>>
  ELSE /\ ret' = node[cur].data
       /\ node' = Unlinked(cur)
       /\ root' = IF idx = 0 THEN node'[cur].next ELSE root
       /\ live' = live \ {cur} /\ count' = count - 1

list_get_at(idx) ==
  /\ ret' = IF idx >= count \/ Nth(idx) = NULL THEN NULL ELSE node[Nth(idx)].data
  /\ UNCHANGED <<root, count, node, live>>

ListNext == \/ \E d \in Data : list_add(d)
            \/ \E idx \in Indices : list_remove_at(idx) \/ list_get_at(idx)

LinkedList == ListInit /\ [][ListNext]_list_vars

-----------------------------------------------------------------------------
Items == [k \in 1 .. count |-> IF Nth(k - 1) = NULL THEN NULL ELSE node[Nth(k - 1)].data]

Contract == INSTANCE ListContract
              WITH Nothing <- NULL, items <- Items, nodes <- Cardinality(live)

(* The list is the sequence it stands for, in whichever order items come   *)
(* and go and nodes are used again: a pointer that a removal forgets to    *)
(* change would write to another node, several calls later.                *)
ListSpec == Contract!Spec
=============================================================================
