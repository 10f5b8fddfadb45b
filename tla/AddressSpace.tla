---------------------------- MODULE AddressSpace ----------------------------
(***************************************************************************)
(* What the callers of map_pages() (src/include/mm/vmm.h) count on: page   *)
(* after page of the range that was asked for is mapped to its own frame,  *)
(* and no other page changes. No tables, no allocation.                    *)
(***************************************************************************)
EXTENDS Integers

CONSTANTS
  Virts,     \* virtual pages
  Requests,  \* [virt, phys, pages, flags]: the calls
  Forced,    \* flags that every page gets
  Unmapped   \* what a page that is not mapped is mapped to

VARIABLES
  space,     \* virtual page -> [to, flags], or Unmapped
  todo       \* what is left of the call in progress

spaceVars == <<space, todo>>

Nothing == [virt |-> 0, phys |-> 0, pages |-> 0, flags |-> {}]

(* Without the present flag a page is not mapped, whatever else it says.   *)
Page(phys, flags) ==
  IF "present" \in flags THEN [to |-> phys, flags |-> flags] ELSE Unmapped

Ask == /\ todo.pages = 0
       /\ todo' \in Requests
       /\ UNCHANGED space

MapOne ==
  /\ todo.pages > 0
  /\ space' = [space EXCEPT ![todo.virt] = Page(todo.phys, todo.flags \union Forced)]
  /\ todo' = [todo EXCEPT !.virt = todo.virt + 1, !.phys = todo.phys + 1,
                          !.pages = todo.pages - 1]

SpaceInit == space = [v \in Virts |-> Unmapped] /\ todo = Nothing

SpaceSpec == SpaceInit /\ [][Ask \/ MapOne]_spaceVars
=============================================================================
