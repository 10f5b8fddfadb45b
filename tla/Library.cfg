\* Files: callers pass NULL, as all of them do, or a buffer of their own.
\* Strings: one character of ASCII, the delimiter, and one beyond.
SPECIFICATION LibrarySpec
CONSTANTS
  DeviceLists <- MCDeviceLists
  ModeCounts = {1, 3}
  MaxTime = 2
  MaxKeys = 2
  MaxErrors = 1
  Files = {"f", "g"}
  MaxLen = 3
  Buffers = {"NULL", "caller's"}
  Addresses = {a1, a2, a3}
  Data = {d1, d2}
  NULL = NULL
  Indices = {0, 1, 2, 3}
  Chars = {44, 195}
  Delims = {44}
  Size = 5
INVARIANTS OnlyBadAxesTrap ScreenIsCurrent
INVARIANTS ReadAllOrNothing NothingLeft
INVARIANT StringsAgree
PROPERTIES EnterBoots ClockIsShown Returns ListSpec
