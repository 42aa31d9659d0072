------------------------- MODULE MCScheduleService -------------------------
(***************************************************************************)
(* One schedule and one request, with the faults of each run.              *)
(***************************************************************************)
EXTENDS ScheduleService

CONSTANTS s1, k1

MCOne == {s1}
MCRequest == {k1}
MCForbid == {"Forbid"}
MCEither == {"Forbid", "Allow"}
MCUnlimited == {NoLimit}
MCLimited == {1, NoLimit}
MCLimits == {1, 2}
MCNever == {NoTime}
MCExpires == {1, NoTime}

\* A rejected, unclear or unrecorded dispatch is among what "api" allows.
MCFaultsSafety == {"api", "crash", "operator", "edit", "delete"}
MCFaultsRecover == {"crash", "unknown", "close", "gaveUp"}
MCFaultsLive == {"unknown"}
=============================================================================
