---------------------------- MODULE MCImageBuild ----------------------------
(***************************************************************************)
(* ImageBuild with the two stages of the README, the second built on the   *)
(* first, and the older provisioner under the name of the first stage.     *)
(***************************************************************************)
EXTENDS ImageBuild

MCNames == {"base", "tenstorrent", "tt-metal"}

Job(base, name, script) == [base |-> base, name |-> name, script |-> script]

MCJobs ==
  {Job("base", "tenstorrent", "kernel"), Job("tenstorrent", "tt-metal", "metal"),
   Job("base", "tenstorrent", "guest")}
=============================================================================
