-------------------------------- MODULE Menu --------------------------------
(***************************************************************************)
(* The user's devices and the menu: the search for a pointer in            *)
(* uefi_entry() (src/platform/uefi/entry.c), get_framebuffer(),            *)
(* get_datetime(), get_mouse() and get_keypress() of src/platform/uefi,    *)
(* and ui_init() with tui_draw() of src/common/ui/ui.c.                    *)
(*                                                                         *)
(* A moment of the clock is a number; 0 is a struct datetime of zeros,     *)
(* which is no moment. A screen mode is described by its own number.       *)
(***************************************************************************)
EXTENDS Integers, Sequences

CONSTANTS
  DeviceLists,  \* resolutions [x, y] of the pointer devices, in order
  ModeCounts,   \* screen modes of the firmware
  MaxTime,      \* bound: the last moment of the clock
  MaxKeys,      \* bound: keys that the firmware holds
  MaxErrors     \* bound: how often reading a key fails

ASSUME MenuAssumption ==
  /\ \A list \in DeviceLists : list \in Seq([x : Nat, y : Nat])
  /\ ModeCounts \subseteq Nat \ {0}
  /\ MaxTime \in Nat \ {0} /\ MaxKeys \in Nat \ {0} /\ MaxErrors \in Nat

VARIABLES
  at,        \* the call that comes next, or where it ended
  devices,   \* the pointer devices
  i,         \* counter of the loops over devices and modes
  pointer,   \* gPointerProtocol: a device, or 0
  res,       \* mouse_resx and mouse_resy, of 16 bits
  gop,       \* the screen: had it been started, in which mode, of how many
  info,      \* the mode that mode_info describes
  modes,     \* available_modes
  missed,    \* did the query of the current mode fail in the loop?
  screen,    \* the mode whose size ui_init() takes the screen to have
  callback,  \* is ui_callback set?
  now,       \* the clock of the firmware
  keys,      \* keys that were pressed and not read
  errors,    \* failures of ReadKeyStroke()
  dt, last_dt, shown,  \* time as read, as last drawn, as on the screen
  me,        \* does the mouse event differ from ctx.last_mouse?
  event      \* what the round has found

pointer_vars == <<devices, pointer, res>>
screen_vars == <<gop, info, modes, missed, screen>>
clock_vars == <<dt, last_dt, shown>>
world_vars == <<now, keys, errors>>
vars == <<at, i, pointer_vars, screen_vars, callback, world_vars, clock_vars, me, event>>

Junk == 99  \* the size of a mode that was never listed

(* dt and me lie on the stack of ui_init(), which does not initialise them *)
Init ==
  /\ at = "pointer" /\ i = 1
  /\ devices \in DeviceLists
  /\ pointer = 0 /\ res = [x |-> 0, y |-> 0]
  /\ \E n \in ModeCounts :
       gop \in [started : BOOLEAN, mode : 0 .. n - 1, max : {n}]
  /\ info = Junk /\ modes = << >> /\ missed = FALSE /\ screen = Junk
  /\ callback = FALSE
  /\ now = 1 /\ keys = << >> /\ errors = 0
  /\ dt \in 0 .. MaxTime /\ last_dt = 0 /\ shown = 0
  /\ me \in BOOLEAN /\ event = {}

-----------------------------------------------------------------------------
(* uefi_entry(): the first pointer that can be opened and reset.           *)

(* Mutant: every resolution will do.                                       *)
Fits_any(d) == TRUE

Fits(d) == d.x < 65536

Handles == 5   \* the room of spp[], on the stack

(* Opening a device stores into spp[], whose end is not looked at: past it *)
(* lie other locals, and the loop may go on or fault.                      *)
TryDevice ==
  /\ at = "pointer" /\ i <= Len(devices)
  /\ \/ i' = i + 1 /\ UNCHANGED <<at, pointer, res>>   \* not opened, or not reset
     \/ LET d == devices[i] IN
        IF Fits(d)
        THEN /\ pointer' = i /\ res' = [x |-> d.x % 65536, y |-> d.y % 65536]
             /\ at' = "native" /\ i' = 0
        ELSE i' = i + 1 /\ UNCHANGED <<at, pointer, res>>
     \/ i > Handles /\ at' = "fault" /\ UNCHANGED <<i, pointer, res>>
  /\ UNCHANGED <<devices, screen_vars, callback, world_vars, clock_vars, me, event>>

NoDevice ==
  /\ at = "pointer" /\ i > Len(devices)
  /\ at' = "native" /\ i' = 0
  /\ UNCHANGED <<pointer_vars, screen_vars, callback, world_vars, clock_vars, me, event>>

-----------------------------------------------------------------------------
(* get_framebuffer(). A screen that has to be started gets mode 0 and no   *)
(* list of modes. Any other error leaves ui_init() spinning; without a     *)
(* protocol, or without memory for the list, address 0 is used.            *)
QueryNative ==
  /\ at = "native"
  /\ \/ /\ gop.started
        /\ info' = gop.mode /\ at' = "modes" /\ UNCHANGED gop
     \/ /\ ~gop.started
        /\ gop' = [gop EXCEPT !.mode = 0] /\ at' = "unlisted"
        /\ UNCHANGED info
     \/ at' \in {"halt", "fault"} /\ UNCHANGED <<gop, info>>
  /\ UNCHANGED <<i, pointer_vars, modes, missed, screen, callback, world_vars,
                 clock_vars, me, event>>

(* Mutant: a mode that cannot be queried is not listed.                    *)
QueryMode_skips ==
  /\ at = "modes" /\ i < gop.max
  /\ \/ info' = i /\ modes' = Append(modes, i) /\ UNCHANGED missed
     \/ missed' = (missed \/ i = gop.mode) /\ UNCHANGED <<info, modes>>
  /\ i' = i + 1
  /\ UNCHANGED <<at, pointer_vars, gop, screen, callback, world_vars, clock_vars, me, event>>

(* One mode of the list; if its query fails, mode_info is still the one    *)
(* before.                                                                 *)
QueryMode ==
  /\ at = "modes" /\ i < gop.max
  /\ \/ info' = i /\ UNCHANGED missed
     \/ missed' = (missed \/ i = gop.mode) /\ UNCHANGED info
  /\ modes' = Append(modes, info') /\ i' = i + 1
  /\ UNCHANGED <<at, pointer_vars, gop, screen, callback, world_vars, clock_vars, me, event>>

(* ui_init() takes the size of the current mode, entry 0 if there is no    *)
(* list, and starts the text interface. Without one there is no callback.  *)
StartInterface ==
  /\ \/ at = "modes" /\ i = gop.max
     \/ at = "unlisted"
  /\ screen' = IF gop.mode < Len(modes) THEN modes[gop.mode + 1] ELSE Junk
  /\ callback' \in BOOLEAN
  /\ at' = "time"
  /\ i' = 0 /\ modes' = << >> /\ info' = Junk   \* not used any more
  /\ UNCHANGED <<pointer_vars, gop, missed, world_vars, clock_vars, me, event>>

-----------------------------------------------------------------------------
(* The rounds of ui_init().                                                *)

get_datetime ==
  /\ at = "time" /\ at' = "mouse"
  /\ dt' \in {now, dt}   \* a failure leaves what was there
  /\ event' = IF dt' # last_dt THEN {"time"} ELSE {}
  /\ UNCHANGED <<i, pointer_vars, screen_vars, callback, world_vars, last_dt, shown, me>>

(* Mutant: the event is set, not added.                                    *)
get_mouse_only ==
  /\ at = "mouse" /\ at' = "key"
  /\ me' \in (IF pointer = 0 THEN {me} ELSE BOOLEAN)
  /\ event' = IF me' THEN {"mouse"} ELSE event
  /\ UNCHANGED <<i, pointer_vars, screen_vars, callback, world_vars, clock_vars>>

(* The movement is divided by the resolution. Nothing ever sets            *)
(* last_mouse, so a mouse away from where it began is an event each round. *)
get_mouse ==
  /\ at = "mouse"
  /\ me' \in (IF pointer = 0 THEN {me} ELSE BOOLEAN)
  /\ event' = IF me' THEN event \union {"mouse"} ELSE event
  /\ at' = IF pointer # 0 /\ 0 \in {res.x, res.y} THEN "trap" ELSE "key"
  /\ UNCHANGED <<i, pointer_vars, screen_vars, callback, world_vars, clock_vars>>

(* Mutant: keys are looked at when there is nothing else to do.            *)
get_keypress_idle ==
  /\ at = "key"
  /\ IF event = {} /\ keys # << >>
     THEN at' = (IF Head(keys) = "enter" THEN "booted" ELSE "dispatch") /\ keys' = Tail(keys)
     ELSE at' = "dispatch" /\ UNCHANGED keys
  /\ UNCHANGED <<i, pointer_vars, screen_vars, callback, now, errors, clock_vars, me, event>>

(* One key per round. An arrow is an event; Enter boots the selection,     *)
(* whatever else has happened.                                             *)
get_keypress ==
  /\ at = "key"
  /\ \/ keys = << >> /\ at' = "dispatch" /\ UNCHANGED <<keys, errors, event>>
     \/ /\ keys # << >> /\ keys' = Tail(keys)
        /\ at' = IF Head(keys) = "enter" THEN "booted" ELSE "dispatch"
        /\ event' = IF Head(keys) = "arrow" THEN event \union {"arrow"} ELSE event
        /\ UNCHANGED errors
     \/ /\ errors < MaxErrors /\ errors' = errors + 1
        /\ at' = "dispatch" /\ UNCHANGED <<keys, event>>
  /\ UNCHANGED <<i, pointer_vars, screen_vars, callback, now, clock_vars, me>>

(* tui_draw() knows what to do with a new time only. Without a callback    *)
(* an event is a call of address 0, and without an event the processor is  *)
(* halted until the next interrupt.                                        *)
Dispatch ==
  /\ at = "dispatch"
  /\ at' = IF event = {} THEN "hlt" ELSE IF callback THEN "time" ELSE "fault"
  /\ IF callback /\ "time" \in event THEN shown' = dt /\ last_dt' = dt
                                     ELSE UNCHANGED <<shown, last_dt>>
  /\ event' = {}
  /\ UNCHANGED <<i, pointer_vars, screen_vars, callback, world_vars, dt, me>>

(* The timer of the firmware.                                              *)
Interrupt ==
  /\ at = "hlt" /\ at' = "time"
  /\ UNCHANGED <<i, pointer_vars, screen_vars, callback, world_vars, clock_vars, me, event>>

Rounds == {"time", "mouse", "key", "dispatch", "hlt"}

(* The clock goes on, and the user presses a key, at any moment.           *)
Clock ==
  /\ at \in Rounds /\ now < MaxTime /\ now' = now + 1
  /\ UNCHANGED <<at, i, pointer_vars, screen_vars, callback, keys, errors, clock_vars, me, event>>

Press ==
  /\ at \in Rounds /\ Len(keys) < MaxKeys
  /\ \E k \in {"enter", "arrow", "other"} : keys' = Append(keys, k)
  /\ UNCHANGED <<at, i, pointer_vars, screen_vars, callback, now, errors, clock_vars, me, event>>

Ended == at \in {"booted", "halt", "fault", "trap"} /\ UNCHANGED vars

uefi_entry == TryDevice \/ NoDevice
get_framebuffer == QueryNative \/ QueryMode
ui_init == StartInterface \/ get_datetime \/ get_mouse \/ get_keypress \/ Dispatch
Loader == uefi_entry \/ get_framebuffer \/ ui_init

Next == Loader \/ Interrupt \/ Clock \/ Press \/ Ended

Spec == Init /\ [][Next]_vars

(* The loader's thread runs whenever it can, and timer interrupts go on;   *)
(* clock and user need not do anything.                                    *)
FairSpec == Spec /\ WF_vars(Loader) /\ WF_vars(Interrupt)

-----------------------------------------------------------------------------
(* A movement of the mouse is divided by zero only when the device that    *)
(* was found has no horizontal axis, or a vertical resolution of which 16  *)
(* bits keep nothing: the test in front of the cut sees to every other     *)
(* device, wherever it stands in the list.                                 *)
OnlyBadAxesTrap ==
  at = "trap" => devices[pointer].x = 0 \/ devices[pointer].y % 65536 = 0

(* The interface has the size of the mode the screen is in, whichever      *)
(* other modes could not be queried, if the screen had been started.       *)
ScreenIsCurrent ==
  at \in Rounds /\ gop.started /\ ~missed => screen = gop.mode

(* Who presses Enter gets the selection booted, whatever mouse and clock   *)
(* do meanwhile and even if the key comes between the reading of keys and  *)
(* the halt, unless the mouse traps.                                       *)
EnterBoots ==
  (callback /\ "enter" \in {keys[k] : k \in DOMAIN keys}) ~> (at \in {"booted", "trap"})

(* A time that was read is shown, or followed by another, even when some   *)
(* other event comes in every round, unless the mouse traps.               *)
ClockIsShown ==
  \A t \in 1 .. MaxTime :
    (at \in Rounds /\ callback /\ dt = t) ~> (shown = t \/ dt # t \/ at \in {"booted", "trap"})
=============================================================================
