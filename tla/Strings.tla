------------------------------ MODULE Strings ------------------------------
(***************************************************************************)
(* src/common/lib/string.c. A string is a block of character codes, a      *)
(* sequence whose last cell is 0; At() counts its cells from 0. A loop is  *)
(* known by the offset at which it stops.                                  *)
(***************************************************************************)
EXTENDS Integers, Sequences, FiniteSets

CONSTANTS
  Chars,   \* character codes other than 0
  Delims,  \* those that part the fields for strtok()
  Size     \* bound: cells of a block

ASSUME StringsAssumption == Chars \subseteq 1 .. 255 /\ Delims \subseteq Chars /\ Size \in Nat \ {0}

Blocks == {b \in [1 .. Size -> Chars \union {0}] : b[Size] = 0}
Offsets == 0 .. Size - 1
At(s, i) == s[i + 1]
Put(s, i, c) == [s EXCEPT ![i + 1] = c]

-----------------------------------------------------------------------------
(* The functions, translated.                                              *)

(* Where a loop stops that begins at offset k and goes on at those in go.  *)
Stop(go, k) ==
  LET from[j \in 0 .. Size] == IF j \in go THEN from[j + 1] ELSE j
  IN  from[k]

(* The first n characters of src over those of dest.                       *)
Copy(dest, src, n) == [j \in 1 .. Size |-> IF j <= n THEN src[j] ELSE dest[j]]

(* The first character is not looked at.                                   *)
strlen(s) == Stop({k \in Offsets : At(s, k) # 0}, 1)

strcmp(s, t) ==
  LET e == Stop({k \in Offsets : At(s, k) # 0 /\ At(s, k) = At(t, k)}, 0)
  IN  At(s, e) - At(t, e)

memcmp(a, b, len) ==
  LET e == Stop({k \in Offsets : k < len /\ At(a, k) = At(b, k)}, 0)
  IN  IF e = len THEN 0 ELSE IF At(a, e) > At(b, e) THEN 1 ELSE -1

(* Mutant: room for n characters, and the terminator behind them.          *)
strncpy_full(dest, src, n) ==
  LET e == Stop({k \in Offsets : At(src, k) # 0 /\ k < n}, 0)
  IN  IF n = 0 THEN dest ELSE Put(Copy(dest, src, e), e, 0)

(* The block that dest is afterwards.                                      *)
strncpy(dest, src, n) ==
  LET e == Stop({k \in Offsets : At(src, k) # 0 /\ k < n - 1}, 0)
  IN  IF n = 0 THEN dest ELSE Put(Copy(dest, src, e), e, 0)

(* What is returned and what dest is afterwards. A char from 0x80 up is    *)
(* negative, and 0x80 or more as a wide one: it is stored, and ends it.    *)
mbstowcs(dest, src, len) ==
  LET e == Stop({k \in Offsets : k < len /\ At(src, k) # 0 /\ At(src, k) < 128}, 0)
  IN  IF e = len THEN [ret |-> len, dest |-> Copy(dest, src, len)]
      ELSE [ret |-> IF At(src, e) = 0 THEN e ELSE -1, dest |-> Copy(dest, src, e + 1)]

strspn(s, i, accept) == Stop({k \in Offsets : At(s, k) \in accept}, i) - i

strcspn(s, i, reject) == Stop({k \in Offsets : At(s, k) \notin reject \union {0}}, i) - i

(* A char is signed: what a code is as an int, and an int cut to a char.   *)
Char(code) == IF code < 128 THEN code ELSE code - 256
Cut(c) == Char(c % 256)

(* Each char is compared with c as it is given.                            *)
strchr(s, c) ==
  LET e == Stop({k \in Offsets : At(s, k) # 0 /\ Char(At(s, k)) # c}, 0)
  IN  IF At(s, e) = 0 THEN -1 ELSE e

(* The loop's last, when it has gone over k characters; c is cut to a char.*)
strrchr(s, c) ==
  LET met[k \in 0 .. Size] ==
        IF k = 0 THEN -1 ELSE IF Char(At(s, k - 1)) = Cut(c) THEN k - 1 ELSE met[k - 1]
  IN  met[Stop({k \in Offsets : At(s, k) # 0}, 0)]

-----------------------------------------------------------------------------
(* strtok(), whose position in a string outlives the call.                 *)
VARIABLES
  block,   \* the string that last points into, cut up so far
  text,    \* that string as it was given; any string before the first call
  last,    \* offset, or -1: NULL
  found,   \* the fields of it that were returned
  done     \* has a call that went on in it returned NULL?

string_vars == <<block, text, last, found, done>>

Text(s) == SubSeq(s, 1, (CHOOSE n \in 1 .. Size : s[n] = 0 /\ \A k \in 1 .. n - 1 : s[k] # 0) - 1)
From(s, i) == SubSeq(s, i + 1, Size)

StringInit == /\ block \in Blocks /\ text \in Blocks
              /\ last = -1 /\ found = << >> /\ done = FALSE

(* From offset k of b, a string that was given as t; got was found before. *)
strtok(b, k, t, got) ==
  LET s == k + strspn(b, k, Delims)
      end == s + strcspn(b, s, Delims)
  IN  /\ At(b, s) # 0
      /\ block' = Put(b, end, 0) /\ text' = t
      /\ last' = IF At(b, end) # 0 THEN end + 1 ELSE end
      /\ found' = Append(got, SubSeq(b, s + 1, end))
      /\ done' = FALSE

NoField(b, k) == At(b, k + strspn(b, k, Delims)) = 0

(* Any string may be given next, whether the last one was finished or not. *)
(* One without a field leaves everything as it was: the calls with NULL    *)
(* that follow go on in the string before it.                              *)
Start == \E b \in Blocks : \/ strtok(b, 0, b, << >>)
                           \/ NoField(b, 0) /\ UNCHANGED string_vars

Continue == \/ last # -1 /\ strtok(block, last, text, found)
            \/ /\ last # -1 => NoField(block, last)
               /\ done' = TRUE /\ UNCHANGED <<block, text, last, found>>

StringNext == Start \/ Continue

StringSpec == StringInit /\ [][StringNext]_string_vars

-----------------------------------------------------------------------------
(* What the functions are for, without a loop.                             *)
Sign(n) == IF n > 0 THEN 1 ELSE IF n < 0 THEN -1 ELSE 0

(* The sign of the first difference of two sequences of equal length.      *)
Order(a, b) ==
  LET diff == {k \in DOMAIN a : a[k] # b[k]} IN
  IF diff = {} THEN 0
  ELSE LET k == CHOOSE k \in diff : \A j \in diff : k <= j IN IF a[k] > b[k] THEN 1 ELSE -1

(* Text with as many zeros behind it as fill a block.                      *)
Padded(t) == [k \in 1 .. Size |-> IF k <= Len(t) THEN t[k] ELSE 0]

(* What is behind the first cell, as a block.                              *)
Behind(s) == [k \in 1 .. Size |-> IF k < Size THEN s[k + 1] ELSE 0]

(* The fields of a text, in the order of the places where they start.      *)
Kept(t) == {k \in DOMAIN t : t[k] \notin Delims}
Starts(t) == {k \in Kept(t) : k - 1 \notin Kept(t)}
FieldAt(t, k) ==
  SubSeq(t, k, CHOOSE e \in k .. Len(t) : (k .. e) \subseteq Kept(t) /\ e + 1 \notin Kept(t))
Rank(t, k) == Cardinality({j \in Starts(t) : j <= k})
Fields(t) == [n \in 1 .. Cardinality(Starts(t)) |->
                FieldAt(t, CHOOSE k \in Starts(t) : Rank(t, k) = n)]

Compared(b) ==
  /\ strlen(block) = 1 + Len(Text(Behind(block)))
  /\ block[1] # 0 => strlen(block) = Len(Text(block))
  /\ Sign(strcmp(block, b)) = Order(Padded(Text(block)), Padded(Text(b)))
  /\ \A len \in 0 .. Size :
       memcmp(block, b, len) = Order(SubSeq(block, 1, len), SubSeq(b, 1, len))
  /\ \A c \in Chars \union {Char(d) : d \in Chars} :
       LET here == {k \in DOMAIN Text(block) : Char(block[k]) = c}
           cut == {k \in DOMAIN Text(block) : Char(block[k]) = Cut(c)}
       IN  /\ IF here = {} THEN strchr(block, c) = -1
              ELSE strchr(block, c) + 1 \in here /\ \A k \in here : strchr(block, c) <= k - 1
           /\ IF cut = {} THEN strrchr(block, c) = -1
              ELSE strrchr(block, c) + 1 \in cut /\ \A k \in cut : k - 1 <= strrchr(block, c)

Copied(dest) ==
  \A n \in 0 .. Size :
    LET t == Text(block)
        kept == IF n = 0 THEN 0 ELSE IF Len(t) < n THEN Len(t) ELSE n - 1
        w == mbstowcs(dest, block, n)
        wide == {k \in 1 .. n : k <= Len(t) /\ t[k] >= 128}
    IN  /\ n > 0 => Text(strncpy(dest, block, n)) = SubSeq(t, 1, kept)
        /\ From(strncpy(dest, block, n), n) = From(dest, n)
        /\ From(w.dest, n) = From(dest, n)
        /\ w.ret = IF wide # {} THEN -1 ELSE IF Len(t) < n THEN Len(t) ELSE n
        /\ wide = {} /\ Len(t) < n => Text(w.dest) = t

Parted ==
  /\ done => found = IF last = -1 THEN << >> ELSE Fields(Text(text))
  /\ NoField(text, 0) => Fields(Text(text)) = << >>

(* What the functions do, for any two blocks. Comparisons order by the     *)
(* first difference; copies keep within the room they are told of and end  *)
(* in 0 if there is any. strchr() finds the first char that is the int it  *)
(* is given, so that no code from 0x80 up is found unless it is given as   *)
(* the negative char; strrchr() finds the last, of either form. strlen()   *)
(* takes the first character for one whatever it is: the length of an      *)
(* empty string is one more than that of what is behind it. strtok() finds *)
(* every field of a string in turn, also when it starts again before it is *)
(* done, in that string or another, or is given a string without a field   *)
(* between.                                                                *)
StringsAgree == Compared(text) /\ Copied(text) /\ Parted
=============================================================================
