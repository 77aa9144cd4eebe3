-------------------------- MODULE MCArtifactVersions --------------------------
(* ArtifactVersions on a small plan whose stories are all of one feature,   *)
(* which makes them, like the epics, interchangeable.                       *)
EXTENDS ArtifactVersions, TLC

OneFeature == [s \in Stories |-> "feature"]
Permuted == Permutations(Clients) \cup Permutations(Epics) \cup Permutations(Stories)
=============================================================================
