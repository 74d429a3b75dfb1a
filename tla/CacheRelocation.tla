---------------------------- MODULE CacheRelocation ----------------------------
(***************************************************************************)
(* scripts/cache_relocation.sh and its caller scripts/build_guest_fft.sh   *)
(* (lines 6-42): a toolchain whose files embed the path it was installed   *)
(* under, in a cache directory that is moved about with its checkout.      *)
(*                                                                         *)
(* Installing is external.  An installer empties the cache (see            *)
(* cache_has_only_relocation_stamp), puts the parts there in an order of   *)
(* its own and then, if it knows of the stamp, calls                       *)
(* stamp_relocatable_cache; the command in README.md does not.  Builds,    *)
(* installations, moves and checkouts are not run at the same time, but    *)
(* each build and each installation may be killed between any two steps.   *)
(***************************************************************************)
EXTENDS Naturals

CONSTANTS Place,      \* paths the checkout may stand at
          Schema,     \* cache schemas of the script's versions
          Parts,      \* length of the caller's list of sensitive artifacts
          Bin,        \* where bin stands in it
          None

\* The artifacts in the order of the list.  What stands before bin (.mambarc) no
\* run of the compiler needs.
Part  == 1 .. Parts
Label == Place \X Schema

ASSUME PartsAssumption == Parts \in Nat /\ Bin \in Part
ASSUME NoneAssumption == None \notin Label

VARIABLES
    place,      \* where the checkout is
    schema,     \* the schema of the script checked out
    parts,      \* what each part was installed for
    stamp,      \* .neptune-cache-location
    pc,         \* what is going on in the checkout
    index,      \* the next artifact of the guard's loop
    documented  \* history: the toolchain is the one README.md told to install

vars == <<place, schema, parts, stamp, pc, index, documented>>

Location == {"idle", "guard", "remove", "stamp", "find", "run", "refused",
             "install", "stampInstalled"}

TypeOK ==
    /\ place \in Place
    /\ schema \in Schema
    /\ parts \in [Part -> Label \cup {None}]
    /\ stamp \in Label \cup {None}
    /\ pc \in Location
    /\ index \in 1 .. Parts + 1
    /\ documented \in BOOLEAN

Here == <<place, schema>>

Present == {i \in Part : parts[i] # None}

Init ==
    /\ place \in Place /\ schema \in Schema
    /\ parts = [i \in Part |-> None]
    /\ stamp = None
    /\ pc = "idle"
    /\ index = 1
    /\ documented = FALSE
-------------------------------------------------------------------------------
(* build_guest_fft.sh *)

Build ==
    /\ pc \in {"idle", "refused"}
    /\ pc' = "guard"
    /\ UNCHANGED <<place, schema, parts, stamp, index, documented>>

\* Fault: a cache is stamped before it is cleared.
GuardStampsFirst ==
    /\ pc = "guard"
    /\ index' = 1
    /\ stamp' = Here
    /\ pc' = IF stamp # Here /\ Present # {} THEN "remove" ELSE "find"
    /\ UNCHANGED <<place, schema, parts, documented>>

\* guard_relocatable_cache up to its decision: the cache is cleared if its
\* stamp is not of this place and schema and there is something to clear.
Guard ==
    /\ pc = "guard"
    /\ index' = 1
    /\ pc' = IF stamp # Here /\ Present # {} THEN "remove" ELSE "stamp"
    /\ UNCHANGED <<place, schema, parts, stamp, documented>>

\* Fault: the artifacts are discarded in the opposite order.
DiscardPartBackwards ==
    /\ pc = "remove"
    /\ index \in Part
    /\ parts' = [parts EXCEPT ![Parts + 1 - index] = None]
    /\ index' = index + 1
    /\ UNCHANGED <<place, schema, stamp, pc, documented>>

\* Fault: the loop shifts its arguments twice.
DiscardEveryOtherPart ==
    /\ pc = "remove"
    /\ index \in Part
    /\ parts' = [parts EXCEPT ![index] = None]
    /\ index' = index + 2
    /\ UNCHANGED <<place, schema, stamp, pc, documented>>

\* rm -rf of one artifact.
DiscardPart ==
    /\ pc = "remove"
    /\ index \in Part
    /\ parts' = [parts EXCEPT ![index] = None]
    /\ index' = index + 1
    /\ UNCHANGED <<place, schema, stamp, pc, documented>>

Discarded ==
    /\ pc = "remove"
    /\ index = Parts + 1
    /\ pc' = "stamp"
    /\ UNCHANGED <<place, schema, parts, stamp, index, documented>>

\* stamp_relocatable_cache: the stamp is replaced by a rename.
WriteStamp ==
    /\ pc \in {"stamp", "stampInstalled"}
    /\ stamp' = Here
    /\ pc' = IF pc = "stamp" THEN "find" ELSE "idle"
    /\ documented' = (documented /\ pc = "stamp")
    /\ UNCHANGED <<place, schema, parts, index>>

\* `[ ! -x "$ZIG" ]': refuse with exit 2, or run the compiler.
FindZig ==
    /\ pc = "find"
    /\ pc' = IF parts[Bin] = None THEN "refused" ELSE "run"
    /\ UNCHANGED <<place, schema, parts, stamp, index, documented>>

Compile ==
    /\ pc = "run"
    /\ pc' = "idle"
    /\ UNCHANGED <<place, schema, parts, stamp, index, documented>>
-------------------------------------------------------------------------------
(* The user, external. *)

\* An installer that finds no payload takes the directory away and starts.
Install ==
    /\ pc \in {"idle", "refused"}
    /\ Present = {}
    /\ stamp' = None
    /\ documented' = FALSE
    /\ pc' = "install"
    /\ UNCHANGED <<place, schema, parts, index>>

InstallPart(i) ==
    /\ pc = "install"
    /\ parts[i] = None
    /\ parts' = [parts EXCEPT ![i] = Here]
    /\ UNCHANGED <<place, schema, stamp, pc, index, documented>>

\* The installation is complete: it is stamped next or, as README.md has it,
\* it is not.
Installed ==
    /\ pc = "install"
    /\ Present = Part
    /\ \/ pc' = "stampInstalled" /\ documented' = FALSE
       \/ pc' = "idle" /\ documented' = TRUE
    /\ UNCHANGED <<place, schema, parts, stamp, index>>

\* The build or the installation is killed, or one of its commands fails.
Kill ==
    /\ pc \notin {"idle", "refused"}
    /\ pc' = "idle"
    /\ documented' = FALSE
    /\ UNCHANGED <<place, schema, parts, stamp, index>>

\* The checkout is moved (or copied, and the copy is the one looked at).
Move(to) ==
    /\ pc \in {"idle", "refused"}
    /\ place' = to
    /\ pc' = "idle"
    /\ documented' = FALSE
    /\ UNCHANGED <<schema, parts, stamp, index>>

\* Another version of the scripts is checked out.
Checkout(version) ==
    /\ pc \in {"idle", "refused"}
    /\ schema' = version
    /\ pc' = "idle"
    /\ documented' = FALSE
    /\ UNCHANGED <<place, parts, stamp, index>>

Script == Build \/ Guard \/ DiscardPart \/ Discarded \/ WriteStamp \/ FindZig \/ Compile

User ==
    \/ Install \/ Installed \/ Kill
    \/ \E i \in Part : InstallPart(i)
    \/ \E to \in Place : Move(to)
    \/ \E version \in Schema : Checkout(version)

Next == Script \/ User

Spec == Init /\ [][Next]_vars
-------------------------------------------------------------------------------
\* A stamp vouches for everything in the cache, at every moment a build or an
\* installation could be killed at: no artifact is of another place or schema
\* than the stamp says.
StampVouches == stamp # None => \A i \in Present : parts[i] = stamp

\* The compiler is never run out of a toolchain that was installed elsewhere or
\* for another schema, or of one that half an invalidation or half an
\* installation left: bin goes before what it needs.
RunsOnlyWholeToolchain == pc = "run" => \A i \in Bin .. Parts : parts[i] = Here

\* README.md, lines 65-68: "Either install the pinned compiler into the default
\* prefix: mamba create -y -p .cache/fft-toolchain zig=0.14.1".  A build that
\* follows finds it.
DocumentedInstallServes == pc = "refused" => ~documented
===============================================================================
