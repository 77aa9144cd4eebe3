---------------------------- MODULE MCProjectState ----------------------------
(***************************************************************************)
(* What is kept of a project, in three views that share no variable: the   *)
(* lists of a workflow with their versions, its status, and its project's  *)
(* keys in Redis.  A behaviour looks at one of them, with all its          *)
(* requests, and leaves the others as they begin.                          *)
(***************************************************************************)
EXTENDS MCArtifactVersions, StoryService, ProjectCache

VARIABLE turn

projectVars == <<vars, serviceVars, cacheVars, turn>>

Versions(A) == turn = "versions" /\ A /\ UNCHANGED <<serviceVars, cacheVars, turn>>
Serves(A) == turn = "status" /\ A /\ UNCHANGED <<vars, cacheVars, turn>>
Caches(A) == turn = "cache" /\ A /\ UNCHANGED <<vars, serviceVars, turn>>

ProjectInit ==
    /\ turn \in {"versions", "status", "cache"}
    /\ Init /\ ServiceInit /\ CacheInit

ProjectSpec == ProjectInit /\ [][Versions(Next) \/ Serves(ServiceNext) \/ Caches(CacheNext)]_projectVars

\* Users differ in nothing but their names either.
AllPermuted == Permuted \cup Permutations(Users)
=============================================================================
