------------------------ MODULE MCReleaseCandidate -------------------------
(***************************************************************************)
(* One platform beside the gates, two gates, two cells, three attempts;    *)
(* cells that are conclusive, empty, cut short, or take over an outcome.   *)
(* A fetch changes nothing another one reads, so one is enough.            *)
(***************************************************************************)
EXTENDS ReleaseCandidate

CONSTANTS q1, linux

MCDecisions ==
  {{"killed", "discharged"}, {}, {"killed", "timed out"}, {"survived", "stored"}}
=============================================================================
