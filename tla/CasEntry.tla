------------------------------- MODULE CasEntry -------------------------------
(***************************************************************************)
(* What the cache promises about one entry (README.ct-lock-helper.rst,     *)
(* atomic_compile's docstring): it is absent or whole, and a reader that   *)
(* opened it keeps a whole file.  There is no action that makes it torn.   *)
(***************************************************************************)
CONSTANT Readers

VARIABLES entry,   \* "absent", "whole", or "torn" (which never happens)
          reading  \* what each reader has open: "none", "whole" or "torn"

vars == <<entry, reading>>

TypeOK == /\ entry \in {"absent", "whole", "torn"}
          /\ reading \in [Readers -> {"none", "whole", "torn"}]

Init == entry = "absent" /\ reading = [r \in Readers |-> "none"]

Publish == entry' = "whole" /\ UNCHANGED reading

Evict == entry' = "absent" /\ UNCHANGED reading

Open(r) == /\ entry = "whole"
           /\ reading' = [reading EXCEPT ![r] = "whole"]
           /\ UNCHANGED entry

Close(r) == reading' = [reading EXCEPT ![r] = "none"] /\ UNCHANGED entry

Next == Publish \/ Evict \/ \E r \in Readers : Open(r) \/ Close(r)

Spec == Init /\ [][Next]_vars
==============================================================================
