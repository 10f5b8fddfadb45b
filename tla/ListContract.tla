---------------------------- MODULE ListContract ----------------------------
(* What src/include/data/list.h offers: a sequence of data that grows at   *)
(* its end, and memory for as many nodes as it has items.                  *)
EXTENDS Naturals, Sequences, SequencesExt

CONSTANTS Data, Nothing, Indices

VARIABLES items, nodes, ret

Init == items = << >> /\ nodes = 0 /\ ret = Nothing

Add(d) ==
  \/ items' = Append(items, d) /\ nodes' = nodes + 1 /\ ret' = TRUE
  \/ ret' = FALSE /\ UNCHANGED <<items, nodes>>

RemoveAt0(idx) ==
  IF idx < Len(items)
  THEN items' = RemoveAt(items, idx + 1) /\ nodes' = nodes - 1 /\ ret' = items[idx + 1]
  ELSE ret' = Nothing /\ UNCHANGED <<items, nodes>>

GetAt(idx) ==
  /\ ret' = IF idx < Len(items) THEN items[idx + 1] ELSE Nothing
  /\ UNCHANGED <<items, nodes>>

Next == \/ \E d \in Data : Add(d)
        \/ \E idx \in Indices : RemoveAt0(idx) \/ GetAt(idx)

Spec == Init /\ [][Next]_<<items, nodes, ret>>
=============================================================================
