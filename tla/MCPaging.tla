------------------------------ MODULE MCPaging ------------------------------
(* Paging with three levels of two entries: every call allocates, shares   *)
(* or replaces tables and pages at some level.                             *)
EXTENDS Paging

R(v, p, n, f) == [virt |-> v, phys |-> p, pages |-> n, flags |-> f]

MCSpan == [k \in 0 .. 3 |-> 2 ^ k]
MCMemory == 0 .. 15
MCJunk == {Empty, [to |-> 4, flags |-> {"present"}]}

(* Ranges that begin and end anywhere, and replace what is mapped.         *)
MCRequests ==
  {R(v, 40 + v, n, {"present", "writable"}) : v \in {0, 3, 5}, n \in {1, 3}}
    \union {R(v, 60 + v, 2, {"present"}) : v \in {2, 6}}
    \union {R(1, 1, 2, {})}

Aligned == {2 * k : k \in 1 .. 6}
Unaligned == {2, 5, 7, 9, 11, 13}
=============================================================================
