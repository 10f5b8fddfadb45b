----------------------------- MODULE MCLibrary -----------------------------
(* The menu with the user's devices, files, lists and strings, one at a    *)
(* time: they share nothing, and those that are not looked at stay in one  *)
(* initial state.                                                          *)
EXTENDS Menu, Sfs, Lists, Strings

VARIABLE part

(* Pointer devices: none, or more than spp[] has room for: some that do    *)
(* not fit, 65536 being zero in 16 bits and 65537 not; some that lack an   *)
(* axis or whose vertical resolution is cut to zero; and one that fits.    *)
MCDeviceLists ==
  {<< >>,
   <<[x |-> 65536, y |-> 1], [x |-> 65537, y |-> 65535], [x |-> 0, y |-> 9],
     [x |-> 9, y |-> 0], [x |-> 9, y |-> 65536], [x |-> 65536, y |-> 9],
     [x |-> 65535, y |-> 1]>>}

LibraryInit ==
  /\ part \in {"menu", "file", "list", "string"}
  /\ Init
  /\ part # "menu" => /\ devices = << >> /\ gop = [started |-> TRUE, mode |-> 0, max |-> 1]
                      /\ dt = 0 /\ ~me
  /\ SfsInit
  /\ part # "file" => /\ disk = [f \in Files |-> Absent]
                      /\ file = CHOOSE f \in Files : TRUE
  /\ ListInit
  /\ StringInit
  /\ part # "string" => block = [k \in 1 .. Size |-> 0] /\ text = block

Only(p) ==
  /\ part = p /\ UNCHANGED part
  /\ p # "menu" => UNCHANGED vars
  /\ p # "file" => UNCHANGED sfs_vars
  /\ p # "list" => UNCHANGED list_vars
  /\ p # "string" => UNCHANGED string_vars

LibraryNext ==
  \/ Next /\ Only("menu")
  \/ SfsNext /\ Only("file")
  \/ ListNext /\ Only("list")
  \/ StringNext /\ Only("string")

library_vars == <<part, vars, sfs_vars, list_vars, string_vars>>

(* The fairness of FairSpec and of FairSfsSpec.                            *)
LibrarySpec ==
  /\ LibraryInit /\ [][LibraryNext]_library_vars
  /\ WF_library_vars(Loader /\ Only("menu"))
  /\ WF_library_vars(Interrupt /\ Only("menu"))
  /\ WF_library_vars(SfsStep /\ Only("file"))
=============================================================================
