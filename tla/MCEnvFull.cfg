SPECIFICATION Spec
CONSTANTS
  e1 = e1  e2 = e2  e3 = e3  e4 = e4
  alice = alice   root = root  web = web  kali = kali
  NoEnv = NoEnv  NoImage = NoImage
  Envs = {e1, e2}
  Users = {alice}
  Admins = {}
  Images = {web}
  IPs = {1, 2}
  UserOf <- AliceOnly
  ImageOf <- WebOnly
  AttackEnvs = {}
  Unlimited = {}
  MaxPerUser = 2
  MaxTotal = 2
  Paths = {"stop_env", "force_stop", "update_image", "delete_image"}
  Faults = {"boot_fail", "stop_fail", "db_busy", "vm_dies", "crash", "slow_launch"}
INVARIANTS
  TypeOK
  UniqueIpUnlessEarly
  OneGuestPerIp
  LiveVmIsReachable
  DeletedImageIsQuiet
  StoppingRowIsDead
SYMMETRY TwinRequests
