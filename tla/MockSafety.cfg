SPECIFICATION FairSpec
CONSTANTS
    h1 = h1  h2 = h2  s1 = s1  s2 = s2  db1 = db1  db2 = db2
    u1 = u1  u2 = u2  u3 = u3
    alice = alice  carol = carol  admin = admin
    Hosts <- MCHosts
    Services <- MCServices
    Children <- MCChildren
    Units <- MCUnits
    Clients <- MCClients
    ServiceOf <- MCServiceOf
    UnitsOf <- MCUnitsOf
    HostOf <- MCHostOf
    Users <- MCUsers
    AdminName = admin
    UserOf <- MCUserOf
    OwnerOf <- MCOwnerOf
    SeedSize <- MCSeedSize
    SeedBackups <- MCSeedBackups
    CpuCapacity <- MCCpu
    DiskCapacity <- MCDisk
    DiskOther <- MCOther
    Changes <- MCChanges
    Images = {new, newer}
    SeedImage = seed
    TaskIds = {t1, t2}
    CpuLimit = 2
    DiskLimit = 3
INVARIANTS
    TypeOK
    TasksAgree
    UnitsHoldAnUpgrade
    SizesSpeakForAll
    CheckedFits
    HintsFollowTasks
    SeenAlike
PROPERTIES
    DbaasSpec
    TasksEnd
