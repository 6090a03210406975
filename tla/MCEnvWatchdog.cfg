SPECIFICATION FairSpec
CONSTANTS
  e1 = e1  e2 = e2  e3 = e3  e4 = e4
  alice = alice   root = root  web = web  kali = kali
  NoEnv = NoEnv  NoImage = NoImage
  Envs = {e1, e2}
  Users = {alice}
  Admins = {}
  Images = {web, kali}
  IPs = {1, 2}
  UserOf <- AliceOnly
  ImageOf <- WebThenKali
  AttackEnvs = {e2}
  Unlimited = {e2}
  MaxPerUser = 2
  MaxTotal = 2
  Paths = {"stop_env", "extend"}
  Faults = {"boot_fail", "db_busy", "vm_dies", "crash"}
PROPERTIES
  RunningRowEnds
  AbandonedRowEnds
