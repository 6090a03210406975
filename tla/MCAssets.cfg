SPECIFICATION FairSpec
CONSTANTS
  Jobs <- MCJobs
  BuildJobs <- MCBuildJobs
  Tasks = {"defaults", "attack", "worker"}
  MaxBoots = 2
  Found <- MCFound
  MaxMishaps = 1
  Faults = {"job_fail", "slow", "rm_fail", "lost", "convert_fail", "db_busy", "shutdown", "crash", "builder_crash"}
INVARIANTS
  TypeOK
  DockerIsTidy
  ClientsCleanUp
  FilesAreWhole
  BuiltIsOffered
PROPERTIES
  PreparationEnds
CHECK_DEADLOCK FALSE
