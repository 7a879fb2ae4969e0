--------------------------- MODULE MCDownloadQueue ---------------------------
(* Instances of DownloadQueue for TLC. *)
EXTENDS DownloadQueue, TLC

\* Every job has a folder of its own, named like the job.
OwnDirs == Jobs
OwnDir == [j \in Jobs |-> j]

\* All jobs target one folder.
OneDirs == {"dir"}
OneDir == [j \in Jobs |-> "dir"]

\* Jobs are interchangeable in both layouts.
JobSymmetry == Permutations(Jobs)

AllTokens == Jobs
LiveOps   == {"enqueue", "cancel", "crash"}
HazardOps == {"enqueue", "pause", "resume", "cancel", "retry", "crash", "shutdown"}
AllOps    == {"enqueue", "pause", "resume", "cancel", "retry", "remove",
              "startNow", "force", "reorder", "crash", "shutdown"}
=============================================================================
