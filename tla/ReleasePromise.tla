--------------------------- MODULE ReleasePromise --------------------------
(***************************************************************************)
(* What the release process promises about one version, whatever runs,     *)
(* answers and people do: a candidate is complete before its archives      *)
(* reach a registry, a complete candidate's tag names its source, and one  *)
(* candidate is published, once, after both registries hold its archives.  *)
(***************************************************************************)
CONSTANTS Candidates, Source, Archive, Registries, None, Alien

VARIABLES
  tagged,     \* the commit the tag names
  complete,   \* candidates a release holds every asset of
  archives,   \* of each registry, the digest of the version's archive
  published   \* the candidate of the published release

promise == <<tagged, complete, archives, published>>

Init ==
  /\ tagged = None /\ complete = {} /\ published = None
  /\ archives = [g \in Registries |-> None]

Tag ==
  /\ tagged = None /\ tagged' # None
  /\ UNCHANGED <<complete, archives, published>>

Complete(c) ==
  /\ tagged = Source[c]
  /\ complete' = complete \cup {c}
  /\ UNCHANGED <<tagged, archives, published>>

Hold(g) ==
  /\ archives[g] = None
  /\ \/ archives' = [archives EXCEPT ![g] = Alien]
     \/ \E c \in complete : archives' = [archives EXCEPT ![g] = Archive[g][c]]
  /\ UNCHANGED <<tagged, complete, published>>

Publish(c) ==
  /\ published = None /\ c \in complete
  /\ \A g \in Registries : archives[g] = Archive[g][c]
  /\ published' = c
  /\ UNCHANGED <<tagged, complete, archives>>

Next ==
  \/ Tag
  \/ \E c \in Candidates : Complete(c) \/ Publish(c)
  \/ \E g \in Registries : Hold(g)

Spec == Init /\ [][Next]_promise
=============================================================================
