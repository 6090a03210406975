------------------------- MODULE MCAssetPreparation -------------------------
(* Instances of AssetPreparation for TLC. *)
EXTENDS AssetPreparation

MCJobs      == AllJobs
MCBuildJobs == {j \in AllJobs : AssetOf(j) \in Images}

\* What an earlier installation may lack: each way the tasks depend on each other
\* or compete, without the product of all of them.
MCFound ==
  {(Assets \cup {"kernel"}) \ missing : missing \in
     {{"converter", "rootfs"}, {"kernel", "attack"}, {"base", "extra"}}}
=============================================================================
