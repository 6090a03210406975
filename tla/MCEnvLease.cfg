SPECIFICATION Spec
CONSTANTS
  e1 = e1  e2 = e2  e3 = e3  e4 = e4
  alice = alice   root = root  web = web  kali = kali
  NoEnv = NoEnv  NoImage = NoImage
  Envs = {e1, e2, e3, e4}
  Users = {alice, root}
  Admins = {root}
  Images = {web, kali}
  IPs = {1, 2, 3}
  UserOf <- AliceAndRoot
  ImageOf <- WebsThenKalis
  AttackEnvs = {e3, e4}
  Unlimited = {}
  MaxPerUser = 1
  MaxTotal = 1
  Paths = {"stop_env"}
  Faults = {"stop_fail", "db_busy", "crash"}
INVARIANTS
  UniqueIp
  QuotasUnlessEarly
  OneAttackMachinePerUser
PROPERTIES
  ImplementsLeases
SYMMETRY BothTwins
