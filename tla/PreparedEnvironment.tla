------------------------- MODULE PreparedEnvironment -------------------------
(***************************************************************************)
(* What one preparation promises its caller, without remote calls, lost    *)
(* answers or crashes: an image is built, one Environment of that image is *)
(* adopted and never exchanged, and an ended preparation stays ended.      *)
(***************************************************************************)
CONSTANTS EnvironmentId, NoEnvironment

VARIABLES stage,     \* how far the preparation is
          adopted,   \* its Environment
          images     \* has the image been built?

vars == <<stage, adopted, images>>

Init == stage = "building" /\ adopted = NoEnvironment /\ images = FALSE

Ended == stage \in {"ready", "given up"}

\* The environment: the build service delivers.
Deliver == images' = TRUE /\ UNCHANGED <<stage, adopted>>

Build == stage = "building" /\ images /\ stage' = "built" /\ UNCHANGED <<adopted, images>>

Adopt(e) ==
    /\ stage = "built" /\ adopted = NoEnvironment
    /\ stage' = "adopted" /\ adopted' = e
    /\ UNCHANGED images

Publish == stage = "adopted" /\ stage' = "ready" /\ UNCHANGED <<adopted, images>>

GiveUp == ~Ended /\ stage' = "given up" /\ UNCHANGED <<adopted, images>>

Next == Deliver \/ Build \/ Publish \/ GiveUp \/ \E e \in EnvironmentId : Adopt(e)

Spec == Init /\ [][Next]_vars
==============================================================================
