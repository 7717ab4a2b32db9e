----------------------------- MODULE Versioning -----------------------------
(***************************************************************************)
(* versioning/: the code version a run is stamped with, and what a worker  *)
(* does about a run of another version.                                    *)
(*                                                                         *)
(* A deployment is what the stamp can be taken from: the commit of the     *)
(* process's working directory, a dev string, and the source of the        *)
(* registered functions.  None stands for what is not there.               *)
(***************************************************************************)

None == "none"

\* a dirty tree has the commit of the tree it was edited from
stamp_code_version(deployment) ==
  CASE deployment.commit # None -> <<"git", deployment.commit>>
    [] deployment.commit = None /\ deployment.dev # None -> <<"dev", deployment.dev>>
    [] OTHER -> <<"src", deployment.source>>

VersionMismatchPolicy == {"off", "warn", "strict"}

is_version_mismatch(stamped, current) == stamped # current

\* check_resume_version does not raise
MayResume(stamped, current, policy) ==
  is_version_mismatch(stamped, current) => policy # "strict"
=============================================================================
