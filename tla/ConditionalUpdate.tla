--------------------------- MODULE ConditionalUpdate ---------------------------
(***************************************************************************)
(* One writer updating a shared resource without overwriting what it has   *)
(* not read: it reads a version, and replaces the resource only while that *)
(* is still the current version.  A writer that could read no version may  *)
(* write unconditionally.  Abstract specification of EditCommand.          *)
(***************************************************************************)
EXTENDS Naturals

VARIABLES version,   \* the current version of the resource
          known,     \* the version the writer has read, 0 when none
          ours       \* the version the writer wrote last, 0 when none

vars == <<version, known, ours>>

Init == version \in Nat /\ known = 0 /\ ours = 0

OthersWrite == version' > version /\ UNCHANGED <<known, ours>>

Read == known' \in {0, version} /\ UNCHANGED <<version, ours>>

Write ==
  /\ known \in {0, version}
  /\ version' > version
  /\ ours' = version'
  /\ UNCHANGED known

Forget == known' = 0 /\ ours' = 0 /\ UNCHANGED version

Next == OthersWrite \/ Read \/ Write \/ Forget

Spec == Init /\ [][Next]_vars
================================================================================
