----------------------------- MODULE AtomicEntry -----------------------------
(***************************************************************************)
(* What docs/PROVENANCE.md promises of a content-addressed cache entry:    *)
(* it is absent until, in one step, it is there with the locked bytes;     *)
(* from then on nobody ever sees anything else under its name.             *)
(***************************************************************************)
VARIABLE entry

Init == entry \in {"absent", "intact"}

Publish == entry' = "intact"

Next == Publish

Spec == Init /\ [][Next]_entry
==============================================================================
