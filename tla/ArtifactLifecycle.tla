-------------------------- MODULE ArtifactLifecycle --------------------------
(***************************************************************************)
(* What recording promises about its artifacts, whatever its threads do and *)
(* however often the process dies (design 8.2, 8.3, 9 and 15 of             *)
(* docs/designs/src_nodus_vision_phase_5_...):                              *)
(*   - an identity is staged once, by one start request, and never reused;  *)
(*   - it is published by one step, as a whole, with every admitted frame;  *)
(*   - what has been published never changes again.                         *)
(***************************************************************************)
EXTENDS Naturals, Sequences

CONSTANTS Identities, Nobody

VARIABLES
  stage,      \* stage[r] \in {"absent", "staging", "finalized"}
  owner,      \* owner[r]: the start request that staged r, once it is recorded
  published   \* published[r]: the artifact that readers of finalized/ see

artifactVars == <<stage, owner, published>>

LifecycleInit ==
  /\ stage = [r \in Identities |-> "absent"]
  /\ owner = [r \in Identities |-> Nobody]
  /\ published = [r \in Identities |-> Nobody]

\* A directory is made.  A failure or a crash may come before its start
\* request is recorded: the identity is then spent without an owner.
Stage(r) ==
  /\ stage[r] = "absent"
  /\ stage' = [stage EXCEPT ![r] = "staging"]
  /\ \A s \in Identities \ {r} : owner'[s] = owner[s]
  /\ UNCHANGED published

\* Nothing is missing from a published artifact.
Whole(a) == a.admitted = Len(a.frames) /\ a.owner # Nobody

Publish(r) ==
  /\ stage[r] = "staging"
  /\ stage' = [stage EXCEPT ![r] = "finalized"]
  /\ Whole(published'[r])
  /\ published'[r].owner = owner[r]
  /\ \A s \in Identities \ {r} : published'[s] = published[s]
  /\ UNCHANGED owner

LifecycleNext == \E r \in Identities : Stage(r) \/ Publish(r)

LifecycleSpec == LifecycleInit /\ [][LifecycleNext]_artifactVars
=============================================================================
