----------------------------- MODULE FrameSource -----------------------------
(***************************************************************************)
(* What the spectrum streamer promises about the metadata it stamps on its *)
(* frames, with no mention of how it finds out that the radio was retuned: *)
(* each frame carries a configuration and an epoch, and the epoch advances *)
(* by at most MaxStep (modulo the width of the packet field) from one      *)
(* frame to the next, staying put only when the configuration does.  A     *)
(* receiver may therefore average consecutive frames of one epoch.         *)
(***************************************************************************)
EXTENDS Naturals

CONSTANTS Config,       \* radio configurations
          Unset,        \* the configuration of a frame nobody has captured
          EpochModulus, \* number of values of the epoch field
          MaxStep       \* how far the epoch may move between two frames

VARIABLES delivered,    \* whether there is a frame yet
          frame         \* the latest frame's metadata

Epoch == 0 .. EpochModulus - 1

\* Unsigned addition in the width of the epoch field.
Advance(epoch, steps) ==
    IF epoch + steps < EpochModulus THEN epoch + steps
                                    ELSE epoch + steps - EpochModulus

Init ==
    /\ delivered = FALSE
    /\ frame = [config |-> Unset, epoch |-> 0]

Deliver ==
    /\ delivered' = TRUE
    /\ \E config \in Config, steps \in 0 .. MaxStep :
          /\ frame' = [config |-> config, epoch |-> Advance(frame.epoch, steps)]
          /\ (delivered /\ steps = 0) => config = frame.config

Next == Deliver

Spec == Init /\ [][Next]_<<delivered, frame>>
==============================================================================
