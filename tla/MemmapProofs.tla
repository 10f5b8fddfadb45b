---------------------------- MODULE MemmapProofs ----------------------------
(***************************************************************************)
(* Proofs about get_memmap(): how much the firmware's map may grow while   *)
(* it is read (module MemmapFetch), and, for maps of every length and      *)
(* every size of descriptor, that the whole function does what MemmapFetch *)
(* says and that its two loops keep what the firmware's map says (module   *)
(* MemmapTranslate).                                                       *)
(***************************************************************************)
EXTENDS MemmapTranslate, TLAPS

(* A buffer that exists holds size descriptors, except between a failed    *)
(* check and the next fetch; the check cannot fail for its length when the *)
(* two descriptors that were added cover the growth around it.             *)
BInv ==
  /\ pc \in Calls /\ growth \in Growths
  /\ fw \in Nat /\ size \in Nat /\ written \in Nat
  /\ efi_map = NoBuffer \/ efi_map \in Nat
  /\ efi_map # NoBuffer => written <= efi_map
  /\ pc \in {"size", "alloc"} => efi_map = NoBuffer
  /\ pc = "fetch" => efi_map \in {NoBuffer, size}
  /\ pc = "grow"  => fw <= size + growth.event
  /\ pc = "check" => efi_map \in {NoBuffer, size} /\ fw <= size

LEMMA InitBInv == Init => BInv
BY FetchAssumption DEF Init, BInv, Calls, NoBuffer

LEMMA NextBInv ==
  ASSUME \A g \in Growths : g.event + g.realloc <= 2
  PROVE  BInv /\ [Next]_vars => BInv'
<1>1. SUFFICES ASSUME BInv, [Next]_vars  PROVE BInv'
  OBVIOUS
<1> USE FetchAssumption DEF BInv, Calls, NoBuffer
<1>2. CASE AskSize
  BY <1>1, <1>2 DEF AskSize, GetMemoryMap, MapChanges
<1>3. CASE Allocate
  BY <1>1, <1>3 DEF Allocate, MapChanges
<1>4. CASE Fetch
  BY <1>1, <1>4 DEF Fetch, GetMemoryMap, MapChanges
<1>5. CASE Grow
  BY <1>1, <1>5 DEF Grow, MapChanges
<1>6. CASE Check
  BY <1>1, <1>6 DEF Check, GetMemoryMap, MapChanges
<1>7. CASE Leave \/ Loops \/ Use
  BY <1>1, <1>7 DEF Leave, Loops, Use
<1>8. CASE Done \/ UNCHANGED vars
  BY <1>1, <1>8 DEF Done, vars
<1>9. QED
  BY <1>1, <1>2, <1>3, <1>4, <1>5, <1>6, <1>7, <1>8 DEF Next

(* The firmware never writes past the buffer if a reallocation, with the   *)
(* events around it, adds at most two descriptors to the map.              *)
THEOREM FetchNeverOverruns ==
  ASSUME \A g \in Growths : g.event + g.realloc <= 2
  PROVE  Spec => []NoOverrun
<1>1. BInv => NoOverrun
  BY DEF BInv, NoOverrun
<1>2. BInv /\ [Next]_vars => BInv'
  BY NextBInv
<1>3. QED
  BY <1>1, <1>2, InitBInv, PTL DEF Spec

-----------------------------------------------------------------------------
(* Without events, a second round is entered only with a null pointer, and *)
(* its fetch ends the call; and what the loops read was written by a call  *)
(* that succeeded.                                                         *)
CInv ==
  /\ BInv
  /\ growth.event = 0 =>
       /\ pc \in {"size", "alloc", "grow", "check"} => tries = 0
       /\ pc = "fetch" /\ efi_map = NoBuffer => fw <= size /\ tries = 1
       /\ pc = "fetch" /\ efi_map # NoBuffer => tries = 0
       /\ pc = "loops" => status = "success" /\ efi_map # NoBuffer /\ written = size
  /\ MapIsComplete

LEMMA InitCInv == Init => CInv
BY InitBInv DEF Init, CInv, MapIsComplete

LEMMA NextCInv ==
  ASSUME \A g \in Growths : g.event + g.realloc <= 2, MAX_TRIES > 1
  PROVE  CInv /\ [Next]_vars => CInv'
<1>1. SUFFICES ASSUME CInv, [Next]_vars  PROVE CInv'
  OBVIOUS
<1>2. BInv'
  BY <1>1, NextBInv, FetchAssumption DEF CInv
<1> USE FetchAssumption DEF CInv, BInv, MapIsComplete, Calls, NoBuffer
<1>3. CASE AskSize
  BY <1>1, <1>2, <1>3 DEF AskSize, GetMemoryMap, MapChanges
<1>4. CASE Allocate
  BY <1>1, <1>2, <1>4 DEF Allocate, MapChanges
<1>5. CASE Fetch
  BY <1>1, <1>2, <1>5 DEF Fetch, GetMemoryMap, MapChanges
<1>6. CASE Grow
  BY <1>1, <1>2, <1>6 DEF Grow, MapChanges
<1>7. CASE Check
  BY <1>1, <1>2, <1>7 DEF Check, GetMemoryMap, MapChanges
<1>8. CASE Leave \/ Loops \/ Use
  BY <1>1, <1>2, <1>8 DEF Leave, Loops, Use
<1>9. CASE Done \/ UNCHANGED vars
  BY <1>1, <1>2, <1>9 DEF Done, vars
<1>10. QED
  BY <1>1, <1>3, <1>4, <1>5, <1>6, <1>7, <1>8, <1>9 DEF Next

(* What is translated is the firmware's whole map, when no event changes   *)
(* the map and the loop may take a second round.                           *)
THEOREM FetchIsComplete ==
  ASSUME \A g \in Growths : g.event + g.realloc <= 2, MAX_TRIES > 1
  PROVE  Spec => []MapIsComplete
<1>1. CInv => MapIsComplete
  BY DEF CInv
<1>2. CInv /\ [Next]_vars => CInv'
  BY NextCInv
<1>3. QED
  BY <1>1, <1>2, InitCInv, PTL DEF Spec

-----------------------------------------------------------------------------
(* Without events one buffer is owned from the allocation to the end of    *)
(* the loop: when a reallocation fails, which leaves the buffer behind,    *)
(* the fetch that follows ends the call.                                   *)
OInv ==
  /\ CInv
  /\ pc # "done" => result = 0
  /\ growth.event = 0 =>
       /\ pc \in {"size", "alloc"} => owned = 0
       /\ pc \in {"fetch", "grow", "check", "use", "loops"} => owned = 1
       /\ pc = "grow" => efi_map # NoBuffer
       /\ pc = "done" /\ result > 0 => status = "success" /\ written = result
  /\ NothingLeftOnSuccess

LEMMA InitOInv == Init => OInv
BY InitCInv DEF Init, OInv, NothingLeftOnSuccess

LEMMA NextOInv ==
  ASSUME \A g \in Growths : g.event + g.realloc <= 2, MAX_TRIES > 1
  PROVE  OInv /\ [Next]_vars => OInv'
<1>1. SUFFICES ASSUME OInv, [Next]_vars  PROVE OInv'
  OBVIOUS
<1>2. CInv'
  BY <1>1, NextCInv DEF OInv
<1> USE FetchAssumption DEF OInv, CInv, BInv, MapIsComplete, NothingLeftOnSuccess, Calls, NoBuffer
<1>3. CASE AskSize
  BY <1>1, <1>2, <1>3 DEF AskSize, GetMemoryMap, MapChanges
<1>4. CASE Allocate
  BY <1>1, <1>2, <1>4 DEF Allocate, MapChanges
<1>5. CASE Fetch
  BY <1>1, <1>2, <1>5 DEF Fetch, GetMemoryMap, MapChanges
<1>6. CASE Grow
  BY <1>1, <1>2, <1>6 DEF Grow, MapChanges
<1>7. CASE Check
  BY <1>1, <1>2, <1>7 DEF Check, GetMemoryMap, MapChanges
<1>8. CASE Leave \/ Loops \/ Use
  BY <1>1, <1>2, <1>8 DEF Leave, Loops, Use
<1>9. CASE Done \/ UNCHANGED vars
  BY <1>1, <1>2, <1>9 DEF Done, vars
<1>10. QED
  BY <1>1, <1>3, <1>4, <1>5, <1>6, <1>7, <1>8, <1>9 DEF Next

LEMMA OInvariant ==
  ASSUME \A g \in Growths : g.event + g.realloc <= 2, MAX_TRIES > 1
  PROVE  Spec => []OInv
<1>1. OInv /\ [Next]_vars => OInv'
  BY NextOInv
<1>2. QED
  BY <1>1, InitOInv, PTL DEF Spec

(* A map that the caller gets leaves no firmware buffer behind, under the  *)
(* same conditions: NothingLeftOnSuccess.                                  *)
THEOREM FetchLeavesNothing ==
  ASSUME \A g \in Growths : g.event + g.realloc <= 2, MAX_TRIES > 1
  PROVE  Spec => []NothingLeftOnSuccess
<1>1. OInv => NothingLeftOnSuccess
  BY DEF OInv
<1>2. Spec => []OInv
  BY OInvariant
<1>3. QED
  BY <1>1, <1>2, PTL

-----------------------------------------------------------------------------
(* The argument of GetMemoryMap() stays within the map and the two spare   *)
(* descriptors, however the map changes.                                   *)
SizeInv ==
  /\ pc \in Calls
  /\ fw \in 1 .. MaxDesc
  /\ pc = "size" => size = 0
  /\ pc # "size" => size \in 1 .. MaxDesc + 2
  /\ pc = "grow" => size <= MaxDesc

LEMMA SizeInvariant == Spec => []SizeInv
<1> USE FetchAssumption DEF SizeInv, Calls
<1>1. Init => SizeInv
  BY DEF Init
<1>2. SizeInv /\ [Next]_vars => SizeInv'
  <2>1. SUFFICES ASSUME SizeInv, [Next]_vars  PROVE SizeInv'
    OBVIOUS
  <2>2. CASE AskSize
    BY <2>1, <2>2 DEF AskSize, GetMemoryMap, MapChanges
  <2>3. CASE Allocate
    BY <2>1, <2>3 DEF Allocate, MapChanges
  <2>4. CASE Fetch
    BY <2>1, <2>4 DEF Fetch, GetMemoryMap, MapChanges
  <2>5. CASE Grow
    BY <2>1, <2>5 DEF Grow, MapChanges
  <2>6. CASE Check
    BY <2>1, <2>6 DEF Check, GetMemoryMap, MapChanges
  <2>7. CASE Leave \/ Loops \/ Use \/ Done \/ UNCHANGED vars
    BY <2>1, <2>7 DEF Leave, Loops, Use, Done, vars
  <2>8. QED
    BY <2>1, <2>2, <2>3, <2>4, <2>5, <2>6, <2>7 DEF Next
<1>3. QED
  BY <1>1, <1>2, PTL DEF Spec

-----------------------------------------------------------------------------
get_vars == <<fetch_vars, translate_vars>>

(* The loops are the steps Loops of the fetch: get_memmap() implements     *)
(* MemmapFetch, and so keeps its invariants.                               *)
THEOREM FetchIsRefined == GetSpec => Spec
<1>1. GetInit => Init
  BY DEF GetInit
<1>2. [GetNext]_get_vars => [Next]_vars
  <2>1. SUFFICES ASSUME [GetNext]_get_vars  PROVE [Next]_vars
    OBVIOUS
  <2>2. CASE FetchStep
    BY <2>2 DEF FetchStep, Next
  <2>3. CASE Enter
    BY <2>3 DEF Enter, Next
  <2>4. CASE MapEntry \/ AllocMap
    BY <2>4 DEF MapEntry, AllocMap, Next
  <2>5. CASE Return
    BY <2>5 DEF Return, Next
  <2>6. CASE TranslateEntry \/ Over \/ UNCHANGED get_vars
    BY <2>6 DEF TranslateEntry, Over, get_vars, fetch_vars
  <2>7. QED
    BY <2>1, <2>2, <2>3, <2>4, <2>5, <2>6 DEF GetNext
<1>3. QED
  BY <1>1, <1>2, PTL DEF GetSpec, Spec, get_vars

-----------------------------------------------------------------------------
(* What the loops have done when k descriptors are behind them. The cursor *)
(* of the second one stays at the first empty descriptor.                  *)
Span(k) == FramesOf(entries[k].start, entries[k].pages)

Identity(k) ==
  /\ pm \in [Frames -> SUBSET {"present", "writable", "nx"}]
  /\ \A j \in 1 .. k : \A f \in Span(j) : pm[f] = MapFlags(entries[j].type)

Translated(e) == [base |-> e.start, size |-> e.pages, type |-> efi_type_to_axboot(e.type)]

Cursor(k) ==
  /\ cur_entry \in 1 .. k + 1
  /\ \A j \in 1 .. cur_entry - 1 : entries[j].pages > 0
  /\ cur_entry = k + 1 \/ entries[cur_entry].pages = 0

Copied(k) ==
  /\ Cursor(k)
  /\ map = [j \in 1 .. Len(entries) |->
              IF j < cur_entry THEN Translated(entries[j]) ELSE Blank]

Phases == {"fetch", "map", "translate", "done", "fault"}

LoopInv ==
  /\ phase \in Phases
  /\ phase \in {"map", "translate"} => pc = "loops"
  /\ phase = "fetch" => result = 0 /\ pm = [f \in Frames |-> {}] /\ i = 0 /\ cur_entry = 1
  /\ phase # "done" => result = 0
  /\ phase = "done" /\ result > 0 => result = size
  /\ phase \in {"map", "translate"} \/ result > 0 =>
       /\ size \in 1 .. MaxDesc + 2
       /\ entries \in Contents[size] \union Junk[size]
       /\ status = "success" => entries \in Contents[size]
  /\ phase = "map" => /\ i \in 0 .. Len(entries) /\ cur_entry = i + 1
                      /\ status = "success" => Identity(i)
  /\ phase = "translate" => /\ i \in 0 .. Len(entries) /\ Copied(i)
                            /\ status = "success" => Identity(Len(entries))
  /\ phase = "done" /\ result > 0 => /\ Copied(Len(entries))
                                     /\ status = "success" => Identity(Len(entries))

(* What the buffer may hold.                                               *)
LEMMA ContentFacts ==
  ASSUME NEW n \in 1 .. MaxDesc + 2, NEW m \in Contents[n] \union Junk[n]
  PROVE  /\ Len(m) = n
         /\ \A k \in 1 .. n : /\ m[k].start \in Nat /\ m[k].pages \in Nat
                              /\ FramesOf(m[k].start, m[k].pages) \subseteq Frames
<1>1. /\ Len(m) = n /\ m \in Seq(Descriptors)
      /\ \A k \in 1 .. n : FramesOf(m[k].start, m[k].pages) \subseteq Frames
  BY TranslateAssumption
<1>2. \A k \in 1 .. n : m[k] \in Descriptors
  BY <1>1
<1>3. QED
  BY <1>1, <1>2 DEF Descriptors

LEMMA NoFrameTwice ==
  ASSUME NEW n \in 1 .. MaxDesc + 2, NEW m \in Contents[n]
  PROVE  \A j, k \in 1 .. n : j # k =>
           FramesOf(m[j].start, m[j].pages) \intersect FramesOf(m[k].start, m[k].pages) = {}
BY TranslateAssumption

LEMMA FlagsAreFlags == \A t : MapFlags(t) \in SUBSET {"present", "writable", "nx"}
BY DEF MapFlags

-----------------------------------------------------------------------------
LEMMA InitLoopInv == GetInit => LoopInv
BY DEF GetInit, Init, LoopInv, Phases

LEMMA FetchStepKeeps ==
  ASSUME LoopInv, FetchStep
  PROVE  LoopInv'
<1>1. result' = 0
  BY DEF FetchStep, LoopInv, AskSize, Allocate, Fetch, Grow, Check
<1>2. QED
  BY <1>1 DEF FetchStep, LoopInv, Phases

LEMMA EnterKeeps ==
  ASSUME LoopInv, SizeInv, Enter
  PROVE  LoopInv'
<1>1. /\ size' = size /\ size \in 1 .. MaxDesc + 2 /\ pc = "use" /\ pc' = "loops"
      /\ result' = result /\ status' = status
  BY DEF Enter, Leave, SizeInv
<1>2. /\ phase = "fetch" /\ UNCHANGED <<pm, i, cur_entry>>
      /\ result = 0 /\ i = 0 /\ cur_entry = 1 /\ pm = [f \in Frames |-> {}]
  BY DEF Enter, LoopInv
<1>3. CASE phase' = "fault"
  BY <1>1, <1>2, <1>3 DEF LoopInv, Phases
<1>4. CASE phase' = "map"
  <2>1. /\ entries' \in Contents[size] \union Junk[size]
        /\ status = "success" => entries' \in Contents[size]
    BY <1>4 DEF Enter
  <2>2. Len(entries') = size
    BY <1>1, <2>1, ContentFacts
  <2>3. Identity(0)'
    BY <1>2 DEF Identity
  <2>4. QED
    BY <1>1, <1>2, <1>4, <2>1, <2>2, <2>3 DEF LoopInv, Phases
<1>5. QED
  BY <1>3, <1>4 DEF Enter

LEMMA MapEntryKeeps ==
  ASSUME LoopInv, SizeInv, MapEntry
  PROVE  LoopInv'
<1>1. /\ phase = "map" /\ phase' = "map" /\ entries' = entries /\ i' = i + 1
      /\ cur_entry' = cur_entry + 1 /\ i < Len(entries)
      /\ UNCHANGED <<pc, size, status, result>> /\ pc = "loops" /\ result = 0
  BY DEF MapEntry, Loops, entry_count, LoopInv
<1>2. /\ i \in 0 .. Len(entries) /\ cur_entry = i + 1
      /\ size \in 1 .. MaxDesc + 2
      /\ entries \in Contents[size] \union Junk[size]
      /\ status = "success" => entries \in Contents[size] /\ Identity(i)
  BY <1>1 DEF LoopInv
<1>3. /\ Len(entries) = size
      /\ \A k \in 1 .. size : Span(k) \subseteq Frames
  BY <1>2, ContentFacts DEF Span
<1>4. pm' = [f \in Frames |-> IF f \in Span(i + 1) THEN MapFlags(entries[i + 1].type) ELSE pm[f]]
  BY <1>2 DEF MapEntry, d, Span
<1>5. ASSUME status = "success"  PROVE Identity(i)'
  <2>1. pm' \in [Frames -> SUBSET {"present", "writable", "nx"}]
    BY <1>2, <1>4, <1>5, FlagsAreFlags DEF Identity
  <2>2. ASSUME NEW j \in 1 .. i + 1, NEW f \in Span(j)
        PROVE  pm'[f] = MapFlags(entries[j].type)
    <3>1. j \in 1 .. size /\ i + 1 \in 1 .. size
      BY <1>1, <1>2, <1>3
    <3>2. f \in Frames
      BY <1>3, <3>1
    <3>3. CASE j = i + 1
      BY <1>4, <3>2, <3>3
    <3>4. CASE j # i + 1
      <4>1. f \notin Span(i + 1)
        BY <1>2, <1>5, <3>1, <3>4, NoFrameTwice DEF Span
      <4>2. j \in 1 .. i
        BY <1>2, <3>4
      <4>3. pm[f] = MapFlags(entries[j].type)
        BY <1>2, <1>5, <4>2 DEF Identity
      <4>4. QED
        BY <1>4, <3>2, <4>1, <4>3
    <3>5. QED
      BY <3>3, <3>4
  <2>3. \A k \in 1 .. i + 1 : \A f \in Span(k)' : pm'[f] = MapFlags(entries'[k].type)
    BY <1>1, <2>2 DEF Span
  <2>4. QED
    BY <1>1, <2>1, <2>3 DEF Identity
<1>6. status' = "success" => Identity(i)'
  BY <1>1, <1>5
<1>7. QED
  BY <1>1, <1>2, <1>3, <1>6 DEF LoopInv, Phases

LEMMA AllocMapKeeps ==
  ASSUME LoopInv, SizeInv, AllocMap
  PROVE  LoopInv'
<1>1. /\ phase = "map" /\ entries' = entries /\ pm' = pm /\ i' = 0 /\ cur_entry' = 1
      /\ i = Len(entries)
      /\ UNCHANGED <<pc, size, status, result>> /\ pc = "loops" /\ result = 0
  BY DEF AllocMap, Loops, entry_count, LoopInv
<1>2. /\ size \in 1 .. MaxDesc + 2
      /\ entries \in Contents[size] \union Junk[size]
      /\ status = "success" => entries \in Contents[size] /\ Identity(Len(entries))
  BY <1>1 DEF LoopInv
<1>3. Len(entries) \in Nat
  BY <1>2, ContentFacts
<1>4. status' = "success" => Identity(Len(entries))'
  BY <1>1, <1>2 DEF Identity, Span
<1>5. CASE phase' = "fault"
  BY <1>1, <1>5 DEF LoopInv, Phases
<1>6. CASE phase' = "translate" /\ map' = [k \in 1 .. entry_count |-> Blank]
  <2>1. Copied(0)'
    BY <1>1, <1>3, <1>6 DEF Copied, Cursor, entry_count
  <2>2. QED
    BY <1>1, <1>2, <1>3, <1>4, <1>6, <2>1 DEF LoopInv, Phases
<1>7. QED
  BY <1>5, <1>6 DEF AllocMap

LEMMA TranslateEntryKeeps ==
  ASSUME LoopInv, SizeInv, TranslateEntry
  PROVE  LoopInv'
<1>1. /\ phase = "translate" /\ phase' = "translate" /\ entries' = entries /\ pm' = pm
      /\ i' = i + 1 /\ i < Len(entries)
      /\ UNCHANGED <<pc, size, status, result>> /\ pc = "loops" /\ result = 0
  BY DEF TranslateEntry, entry_count, fetch_vars, vars, LoopInv
<1>2. /\ i \in 0 .. Len(entries) /\ Copied(i)
      /\ size \in 1 .. MaxDesc + 2
      /\ entries \in Contents[size] \union Junk[size]
      /\ status = "success" => entries \in Contents[size] /\ Identity(Len(entries))
  BY <1>1 DEF LoopInv
<1>3. Len(entries) = size /\ \A k \in 1 .. size : entries[k].pages \in Nat
  BY <1>2, ContentFacts
<1>4. /\ cur_entry \in 1 .. i + 1 /\ i + 1 \in 1 .. size /\ cur_entry \in 1 .. size
      /\ \A j \in 1 .. cur_entry - 1 : entries[j].pages > 0
      /\ cur_entry = i + 1 \/ entries[cur_entry].pages = 0
      /\ map = [j \in 1 .. size |-> IF j < cur_entry THEN Translated(entries[j]) ELSE Blank]
  BY <1>1, <1>2, <1>3 DEF Copied, Cursor
<1>5. Copied(i)'
  <2>1. CASE entries[cur_entry].pages = 0
    <3>1. map' = map /\ cur_entry' = cur_entry
      BY <2>1 DEF TranslateEntry, d
    <3>2. QED
      BY <1>1, <1>2, <1>3, <1>4, <2>1, <3>1 DEF Copied, Cursor, Translated
  <2>2. CASE entries[cur_entry].pages # 0
    <3>1. cur_entry = i + 1
      BY <1>4, <2>2
    <3>2. /\ map' = [map EXCEPT ![i + 1] = Translated(entries[i + 1])]
          /\ cur_entry' = i + 2
      BY <1>2, <2>2, <3>1 DEF TranslateEntry, d, Translated
    <3>3. map' = [j \in 1 .. size |-> IF j = i + 1 THEN Translated(entries[i + 1]) ELSE map[j]]
      BY <1>4, <3>2
    <3>4. \A j \in 1 .. size :
            (IF j = i + 1 THEN Translated(entries[i + 1]) ELSE map[j])
              = (IF j < i + 2 THEN Translated(entries[j]) ELSE Blank)
      <4>1. \A j \in 1 .. size : j < i + 2 <=> j = i + 1 \/ j < i + 1
        BY <1>2, <1>3
      <4>2. QED
        BY <1>4, <3>1, <4>1
    <3>5. map' = [j \in 1 .. size |-> IF j < i + 2 THEN Translated(entries[j]) ELSE Blank]
      BY <3>3, <3>4
    <3>6. \A e : Translated(e)' = Translated(e')
      BY DEF Translated
    <3>7. /\ map' = [j \in 1 .. Len(entries') |->
                       IF j < cur_entry' THEN Translated(entries[j])' ELSE Blank]
      BY <1>1, <1>3, <3>2, <3>5 DEF Translated
    <3>8. Cursor(i)'
      <4>1. entries[i + 1].pages > 0
        BY <1>3, <1>4, <2>2, <3>1
      <4>2. \A j \in 1 .. i + 1 : entries[j].pages > 0
        BY <1>2, <1>4, <3>1, <4>1
      <4>3. QED
        BY <1>1, <1>2, <3>2, <4>2 DEF Cursor
    <3>9. QED
      BY <1>1, <1>2, <3>7, <3>8 DEF Copied
  <2>3. QED
    BY <2>1, <2>2
<1>6. status' = "success" => Identity(Len(entries))'
  BY <1>1, <1>2 DEF Identity, Span
<1>7. QED
  BY <1>1, <1>2, <1>3, <1>5, <1>6 DEF LoopInv, Phases

LEMMA ReturnKeeps ==
  ASSUME LoopInv, SizeInv, Return
  PROVE  LoopInv'
<1>1. /\ phase = "translate" /\ phase' = "done" /\ i = Len(entries) /\ pc = "loops"
      /\ UNCHANGED <<entries, pm, map, cur_entry, status, size>> /\ result' = size
  BY DEF Return, Use, entry_count
<1>2. /\ Copied(Len(entries))
      /\ size \in 1 .. MaxDesc + 2
      /\ entries \in Contents[size] \union Junk[size]
      /\ status = "success" => entries \in Contents[size] /\ Identity(Len(entries))
  BY <1>1 DEF LoopInv
<1>3. /\ Copied(Len(entries))'
      /\ status' = "success" => Identity(Len(entries))'
  BY <1>1, <1>2 DEF Identity, Copied, Cursor, Span, Translated
<1>4. QED
  BY <1>1, <1>2, <1>3 DEF LoopInv, Phases

LEMMA NextLoopInv ==
  ASSUME LoopInv, SizeInv, [GetNext]_get_vars
  PROVE  LoopInv'
<1>1. CASE FetchStep
  BY <1>1, FetchStepKeeps
<1>2. CASE Over \/ UNCHANGED get_vars
  BY <1>2 DEF Over, get_vars, fetch_vars, vars, translate_vars, LoopInv, Identity, Copied, Cursor,
              Translated, Span
<1>3. QED
  BY <1>1, <1>2, EnterKeeps, MapEntryKeeps, AllocMapKeeps, TranslateEntryKeeps, ReturnKeeps
     DEF GetNext

LEMMA LoopInvariant == GetSpec => []LoopInv
<1>1. LoopInv /\ SizeInv /\ [GetNext]_get_vars => LoopInv'
  BY NextLoopInv
<1>2. GetSpec => []SizeInv
  BY FetchIsRefined, SizeInvariant, PTL
<1>3. QED
  BY <1>1, <1>2, InitLoopInv, PTL DEF GetSpec, get_vars

-----------------------------------------------------------------------------
(* The descriptors that were read are those behind the cursor, and entry k *)
(* of a map that is handed over is what descriptor k says; the other       *)
(* entries have no frames.                                                 *)
LEMMA HandedOver ==
  ASSUME LoopInv, Mapped
  PROVE  /\ Len(entries) = result /\ Len(map) = result /\ result \in Nat
         /\ Read \subseteq 1 .. result
         /\ \A k \in Read : FramesOf(map[k].base, map[k].size) = Span(k)
                            /\ map[k].type = efi_type_to_axboot(entries[k].type)
         /\ \A k \in 1 .. result : k \notin Read => FramesOf(map[k].base, map[k].size) = {}
         /\ status = "success" =>
              /\ entries \in Contents[result] /\ result \in 1 .. MaxDesc + 2
              /\ \A j, k \in 1 .. result : j # k => Span(j) \intersect Span(k) = {}
              /\ \A k \in 1 .. result : \A f \in Span(k) : pm[f] = MapFlags(entries[k].type)
<1>1. /\ phase = "done" /\ result = size /\ result \in 1 .. MaxDesc + 2
      /\ entries \in Contents[result] \union Junk[result]
      /\ Copied(Len(entries))
      /\ status = "success" => entries \in Contents[result] /\ Identity(Len(entries))
  BY DEF LoopInv, Mapped
<1>2. Len(entries) = result /\ \A k \in 1 .. result : entries[k].pages \in Nat
  BY <1>1, ContentFacts
<1>3. /\ cur_entry \in 1 .. result + 1
      /\ \A j \in 1 .. cur_entry - 1 : entries[j].pages > 0
      /\ cur_entry = result + 1 \/ entries[cur_entry].pages = 0
      /\ map = [j \in 1 .. result |-> IF j < cur_entry THEN Translated(entries[j]) ELSE Blank]
  BY <1>1, <1>2 DEF Copied, Cursor
<1>4. Read = 1 .. cur_entry - 1
  <2>1. \A k \in 1 .. cur_entry - 1 : k \in Read
    BY <1>1, <1>2, <1>3 DEF Read, entry_count
  <2>2. \A k \in Read : k \in 1 .. cur_entry - 1
    <3>1. SUFFICES ASSUME NEW k \in Read, k >= cur_entry  PROVE FALSE
      BY <1>1, <1>2, <1>3 DEF Read, entry_count
    <3>2. k \in 1 .. result /\ \A j \in 1 .. k : entries[j].pages > 0
      BY <1>2 DEF Read, entry_count
    <3>3. cur_entry \in 1 .. k /\ cur_entry # result + 1
      BY <1>1, <1>3, <3>1, <3>2
    <3>4. QED
      BY <1>3, <3>2, <3>3
  <2>3. QED
    BY <2>1, <2>2
<1>5. \A k \in Read : FramesOf(map[k].base, map[k].size) = Span(k)
                      /\ map[k].type = efi_type_to_axboot(entries[k].type)
  <2>1. \A k \in Read : map[k] = Translated(entries[k])
    BY <1>1, <1>3, <1>4
  <2>2. \A e : /\ Translated(e).base = e.start /\ Translated(e).size = e.pages
               /\ Translated(e).type = efi_type_to_axboot(e.type)
    BY DEF Translated
  <2>3. QED
    BY <2>1, <2>2 DEF Span
<1>6. \A k \in 1 .. result : k \notin Read => FramesOf(map[k].base, map[k].size) = {}
  <2>1. SUFFICES ASSUME NEW k \in 1 .. result, k \notin Read
                 PROVE  FramesOf(map[k].base, map[k].size) = {}
    OBVIOUS
  <2>2. map[k] = Blank
    BY <1>1, <1>3, <1>4, <2>1
  <2>3. QED
    BY <2>2 DEF Blank, FramesOf
<1>7. ASSUME status = "success"
      PROVE  /\ entries \in Contents[result]
             /\ \A j, k \in 1 .. result : j # k => Span(j) \intersect Span(k) = {}
             /\ \A k \in 1 .. result : \A f \in Span(k) : pm[f] = MapFlags(entries[k].type)
  BY <1>1, <1>2, <1>7, NoFrameTwice DEF Identity, Span
<1>8. Len(map) = result /\ Read \subseteq 1 .. result
  BY <1>1, <1>3, <1>4
<1>9. result \in Nat
  BY <1>1, FetchAssumption
<1>10. QED
  BY <1>1, <1>2, <1>5, <1>6, <1>7, <1>8, <1>9

LEMMA FrameTypes ==
  ASSUME LoopInv, Mapped, NEW f
  PROVE  /\ EfiTypeOf(f) = {entries[k].type : k \in {k \in 1 .. result : f \in Span(k)}}
         /\ TypeOf(f) = {efi_type_to_axboot(entries[k].type) : k \in {k \in Read : f \in Span(k)}}
<1>1. EfiTypeOf(f) = {entries[k].type : k \in {k \in 1 .. result : f \in Span(k)}}
  BY HandedOver DEF EfiTypeOf, entry_count, Span
<1>2. {k \in 1 .. Len(map) : f \in FramesOf(map[k].base, map[k].size)} = {k \in Read : f \in Span(k)}
  BY HandedOver
<1>3. QED
  BY <1>1, <1>2, HandedOver DEF TypeOf

(* A caller gets, of every frame, what the descriptors before the first    *)
(* empty one say: MapIsTranslated, for maps of every length, and for junk. *)
(* The assumption bears on its second conjunct only.                       *)
THEOREM TranslationIsFaithful ==
  ASSUME \A g \in Growths : g.event + g.realloc <= 2, MAX_TRIES > 1
  PROVE  GetSpec => []MapIsTranslated
<1>1. LoopInv /\ OInv => MapIsTranslated
  <2>1. SUFFICES ASSUME LoopInv, OInv, Mapped  PROVE MapIsTranslated
    BY DEF MapIsTranslated
  <2>2. Len(map) = result
    BY <2>1, HandedOver
  <2>3. growth.event = 0 => status = "success" /\ written = result
    BY <2>1 DEF OInv, Mapped
  <2>4. \A f \in Frames : TypeOf(f) =
          {efi_type_to_axboot(entries[k].type) : k \in {k \in Read :
             f \in FramesOf(entries[k].start, entries[k].pages)}}
    BY <2>1, FrameTypes DEF Span
  <2>5. QED
    BY <2>2, <2>3, <2>4 DEF MapIsTranslated
<1>2. GetSpec => []OInv
  BY FetchIsRefined, OInvariant, PTL
<1>3. QED
  BY <1>1, <1>2, LoopInvariant, PTL

(* Usable memory is mapped, and the memory of the runtime services is      *)
(* neither: UsableIsMapped, for maps of every length, however the map      *)
(* changed while it was fetched.                                           *)
THEOREM TablesAgree == GetSpec => []UsableIsMapped
<1>1. LoopInv => UsableIsMapped
  <2>1. SUFFICES ASSUME LoopInv, Mapped, status = "success", NEW f \in Frames
                 PROVE  /\ "Usable" \in TypeOf(f) /\ "PalCode" \notin EfiTypeOf(f) =>
                             {"present", "writable"} \subseteq pm[f]
                        /\ EfiTypeOf(f) \intersect {"RuntimeServicesCode", "RuntimeServicesData"} # {}
                             => "Usable" \notin TypeOf(f) /\ pm[f] = {}
    BY DEF UsableIsMapped
  <2>2. /\ \A k \in 1 .. result : f \in Span(k) => pm[f] = MapFlags(entries[k].type)
        /\ \A j, k \in 1 .. result : f \in Span(j) /\ f \in Span(k) => j = k
    BY <2>1, HandedOver
  <2>3. ASSUME "Usable" \in TypeOf(f), "PalCode" \notin EfiTypeOf(f)
        PROVE  {"present", "writable"} \subseteq pm[f]
    <3>1. PICK k \in Read : /\ f \in Span(k)
                           /\ efi_type_to_axboot(entries[k].type) = "Usable"
      BY <2>1, <2>3, FrameTypes
    <3>0. k \in 1 .. result
      BY <2>1, HandedOver
    <3>2. entries[k].type # "PalCode"
      BY <2>1, <2>3, <3>0, <3>1, FrameTypes
    <3>3. entries[k].type \in {"Persistent", "Conventional", "LoaderData",
                               "BootServicesCode", "BootServicesData"}
      BY <3>1, <3>2 DEF efi_type_to_axboot
    <3>4. {"present", "writable"} \subseteq MapFlags(entries[k].type)
      BY <3>3 DEF MapFlags
    <3>5. QED
      BY <2>2, <3>0, <3>1, <3>4
  <2>4. ASSUME EfiTypeOf(f) \intersect {"RuntimeServicesCode", "RuntimeServicesData"} # {}
        PROVE  "Usable" \notin TypeOf(f) /\ pm[f] = {}
    <3>1. PICK k \in 1 .. result :
            f \in Span(k) /\ entries[k].type \in {"RuntimeServicesCode", "RuntimeServicesData"}
      BY <2>1, <2>4, FrameTypes
    <3>2. /\ efi_type_to_axboot(entries[k].type) = "Firmware"
          /\ MapFlags(entries[k].type) = {}
      BY <3>1 DEF efi_type_to_axboot, MapFlags
    <3>3. \A j \in 1 .. result : f \in Span(j) => efi_type_to_axboot(entries[j].type) # "Usable"
      BY <2>2, <3>1, <3>2
    <3>4. "Usable" \notin TypeOf(f)
      BY <2>1, <3>3, FrameTypes, HandedOver
    <3>5. QED
      BY <2>2, <3>1, <3>2, <3>4
  <2>5. QED
    BY <2>3, <2>4
<1>2. QED
  BY <1>1, LoopInvariant, PTL
-----------------------------------------------------------------------------
(* Where the function is, whatever the firmware's map does: the rounds     *)
(* that are left while it fetches, and the counter of the loops.           *)
WInv ==
  /\ phase \in Phases
  /\ tries \in 0 .. MAX_TRIES
  /\ phase = "fetch" => pc \in Calls \ {"loops", "done"}
  /\ phase = "fetch" /\ pc # "use" => tries < MAX_TRIES
  /\ phase = "fetch" => i = 0
  /\ Len(entries) \in Nat /\ i \in 0 .. Len(entries)

LEMMA InitWInv == GetInit => WInv
BY FetchAssumption DEF GetInit, Init, WInv, Phases, Calls

LEMMA WorkIsDone ==
  ASSUME WInv, SizeInv, GetNext, get_vars' # get_vars
  PROVE  WInv' /\ Closer
<1> USE FetchAssumption DEF WInv, Phases, Calls
<1>1. CASE FetchStep
  <2>1. /\ phase = "fetch" /\ phase' = IF pc' = "done" THEN "done" ELSE "fetch"
        /\ entries' = entries /\ i' = i
        /\ AskSize \/ Allocate \/ Fetch \/ Grow \/ Check
    BY <1>1 DEF FetchStep
  <2>2. CASE AskSize
    BY <2>1, <2>2 DEF AskSize, Closer, Stage, Left, entry_count
  <2>3. CASE Allocate
    BY <2>1, <2>3 DEF Allocate, Closer, Stage, Left, entry_count
  <2>4. CASE Fetch
    BY <2>1, <2>4 DEF Fetch, Closer, Stage, Left, entry_count
  <2>5. CASE Grow
    BY <2>1, <2>5 DEF Grow, Closer, Stage, Left, entry_count
  <2>6. CASE Check
    BY <2>1, <2>6 DEF Check, Closer, Stage, Left, entry_count
  <2>7. QED
    BY <2>1, <2>2, <2>3, <2>4, <2>5, <2>6
<1>2. CASE Enter
  <2>1. /\ phase = "fetch" /\ i' = i /\ i = 0 /\ tries' = tries
        /\ size \in 1 .. MaxDesc + 2
    BY <1>2 DEF Enter, Leave, SizeInv
  <2>2. \/ phase' = "map" /\ entries' \in Contents[size] \union Junk[size]
        \/ phase' = "fault" /\ entries' = entries
    BY <1>2 DEF Enter
  <2>3. Len(entries') \in Nat
    BY <2>1, <2>2, ContentFacts
  <2>4. QED
    BY <2>1, <2>2, <2>3 DEF Closer, Stage, Left, entry_count
<1>3. CASE MapEntry
  BY <1>3 DEF MapEntry, Loops, Closer, Stage, Left, entry_count
<1>4. CASE AllocMap
  BY <1>4 DEF AllocMap, Loops, Closer, Stage, Left, entry_count
<1>5. CASE TranslateEntry
  BY <1>5 DEF TranslateEntry, fetch_vars, vars, Closer, Stage, Left, entry_count
<1>6. CASE Return
  BY <1>6 DEF Return, Use, Closer, Stage, Left, entry_count
<1>7. CASE Over
  BY <1>7 DEF Over, get_vars
<1>8. QED
  BY <1>1, <1>2, <1>3, <1>4, <1>5, <1>6, <1>7 DEF GetNext

(* GetAdvances: however the firmware's map grows or shrinks, and whatever  *)
(* it holds, get_memmap() takes no step that does not bring it closer to   *)
(* its end.                                                                *)
THEOREM GetEnds == GetSpec => GetAdvances
<1>1. WInv /\ SizeInv /\ [GetNext]_get_vars => WInv' /\ [Closer]_get_vars
  <2>1. CASE get_vars' = get_vars
    BY <2>1 DEF WInv, get_vars, fetch_vars, vars, translate_vars
  <2>2. CASE get_vars' # get_vars
    BY <2>2, WorkIsDone
  <2>3. QED
    BY <2>1, <2>2
<1>2. GetSpec => []SizeInv
  BY FetchIsRefined, SizeInvariant, PTL
<1>3. QED
  BY <1>1, <1>2, InitWInv, PTL DEF GetSpec, GetAdvances, get_vars
=============================================================================
