------------------------------ MODULE MockStore ------------------------------
(***************************************************************************)
(* The mock DBAAS (mock-server): services made of child services, whose    *)
(* units sit on hosts and hold a size and an image; checks before a        *)
(* change; changes of size; and tasks that worker threads carry out.       *)
(*                                                                         *)
(* Requests run in a thread pool and each task has a thread of its own,    *)
(* but every access to the data is a section under the store's one lock:   *)
(* a section is one action.  Between a check and the change it was made    *)
(* for, between the record of a task and the start of its thread, and      *)
(* between two units of an upgrade, everything else may happen.            *)
(*                                                                         *)
(* Memory is checked and changed as the cpu is and is left out; so are     *)
(* platformAuto and the other fields that are only stored and shown.  A    *)
(* version goes with its image.  The seed files give every host one disk.  *)
(***************************************************************************)
EXTENDS DbaasAccess, Integers, Sequences, FiniteSets, Functions

CONSTANTS
    Hosts, Children, Units, Images,
    Clients,        \* SUBSET Headers, who makes requests
    TaskIds,        \* random, never drawn twice
    ServiceOf,      \* [Children -> Services]
    UnitsOf,        \* [Children -> Seq(Units)], in the order of the seed
    HostOf,         \* [Units -> Hosts]
    SeedSize,       \* [Units -> Sizes]
    SeedImage,
    SeedBackups,    \* SUBSET Units, with a seed backup that says running
    CpuCapacity,    \* [Hosts -> Nat]
    DiskCapacity,   \* [Hosts -> Nat]
    DiskOther,      \* [Hosts -> Nat], what else is on the disk
    CpuLimit, DiskLimit,
    Changes         \* the changes of size that clients check and make

Volumes == {"data", "log"}
Sizes   == [cpu : Nat, data : Nat, log : Nat]
Amounts == {"cpu"} \cup Volumes

UnitSet(k) == Range(UnitsOf[k])
UnitsOn(h) == {u \in Units : HostOf[u] = h}

\* Units of one child service are named in sequence and the seed's choose_host
\* adds up the letters of the name, so they come to sit on different hosts.
Spread ==
    \A k \in Children : \A i, j \in DOMAIN UnitsOf[k] :
        i # j => HostOf[UnitsOf[k][i]] # HostOf[UnitsOf[k][j]]

\* make_unit gives the units of one child service the same size.
SameSize == \A k \in Children : \A u, v \in UnitSet(k) : SeedSize[u] = SeedSize[v]

\* Units are records inside their child service.
Owned == \A k, l \in Children : k # l => UnitSet(k) \cap UnitSet(l) = {}

\* What the loader checks (_validate_relationships): every unit is on a known
\* host, every child service in a service, and every volume has a size.
ValidSeed ==
    /\ HostOf \in [Units -> Hosts] /\ ServiceOf \in [Children -> Services]
    /\ IsFiniteSet(Units) /\ UnitsOf \in [Children -> Seq(Units)]
    /\ SeedSize \in [Units -> Sizes] /\ SeedImage \notin Images

ASSUME SeedAssumption == ValidSeed /\ Owned /\ Spread /\ SameSize
ASSUME ClientsAssumption == Clients \subseteq Headers
ASSUME HostsAssumption ==
    /\ CpuCapacity \in [Hosts -> Nat] /\ DiskCapacity \in [Hosts -> Nat]
    /\ DiskOther \in [Hosts -> Nat]

\* A request names a child service and the amounts it changes; 0 stands for an
\* amount it leaves out (the request models want the others greater than 0).
\* Cpu and volumes have a request each.
ASSUME ChangesAssumption ==
    /\ Changes \subseteq [of : Children, cpu : Nat, data : Nat, log : Nat]
    /\ \A ch \in Changes : ch.cpu # 0 => ch.data = 0 /\ ch.log = 0

VARIABLES
    size,       \* [Units -> Sizes]
    image,      \* [Units -> Images \cup {SeedImage}]
    allocated,  \* [Hosts -> Nat], the cpu of a host as last summed up
    used,       \* [Hosts -> Nat], its disk as last summed up
    task,       \* [TaskIds -> Tasks]
    backup,     \* [TaskIds -> [Units -> BackupStates]], a task's records
    worker,     \* [TaskIds -> WorkerStates], a task's thread
    position,   \* [TaskIds -> Nat], of the unit the thread turns to next
    \* History
    gone        \* [TaskIds -> Statuses], of a task that a restart wiped

stored == <<size, image, allocated, used>>
tasks  == <<task, backup, worker, position>>
vars   == <<stored, tasks, gone>>

Statuses     == {"NONE", "RUNNING", "SUCCESS", "FAILED"}
BackupStates == {"none", "running", "succeeded", "failed"}
WorkerStates == {"none", "awaited", "on", "over"}
Tasks  == [kind : {"none", "upgrade", "backup"}, status : Statuses,
           service : Services \cup {"none"},
           units : Seq(Units), image : Images \cup {SeedImage}]

NoTask    == [kind |-> "none", status |-> "NONE", service |-> "none",
              units |-> <<>>, image |-> SeedImage]
NoBackups == [u \in Units |-> "none"]

-----------------------------------------------------------------------------
(* Sums over the hosts                                                      *)

SmallerOf(a, b) == IF a < b THEN a ELSE b

CpuOn(sizes, h)     == SumFunctionOnSet([u \in Units |-> sizes[u].cpu], UnitsOn(h))
VolumesOn(sizes, h) ==
    SumFunctionOnSet([u \in Units |-> sizes[u].data + sizes[u].log], UnitsOn(h))

\* The usedGB that the generator writes to hosts.json has the volumes in it.
SeedUsed(h) == SmallerOf(DiskCapacity[h], DiskOther[h] + VolumesOn(SeedSize, h))

\* _refresh_platform_aggregates: usedGB of the seed, and the volumes added.
Allocated(sizes) == [h \in Hosts |-> SmallerOf(CpuCapacity[h], CpuOn(sizes, h))]
DiskUsed(sizes)  ==
    [h \in Hosts |-> SmallerOf(DiskCapacity[h], SeedUsed(h) + VolumesOn(sizes, h))]

-----------------------------------------------------------------------------
(* Changes of size                                                          *)

OfResources(ch) == ch.cpu # 0
OfStorage(ch)   == ch.cpu = 0

\* Faulty: the other units of the host are forgotten.
ErrorsAlone(ch) ==
    \/ ch.cpu > CpuLimit
    \/ \E u \in UnitSet(ch.of) : ch.cpu > CpuCapacity[HostOf[u]]

\* What precheck_service_resource_update reports (_resource_capacity_errors),
\* one unit at a time.
ResourceErrors(ch) ==
    \/ ch.cpu > CpuLimit
    \/ \E u \in UnitSet(ch.of) :
          CpuOn(size, HostOf[u]) - size[u].cpu + ch.cpu > CpuCapacity[HostOf[u]]

\* What precheck_service_storage_update reports (_storage_capacity_errors), one
\* volume of one unit at a time.
StorageErrors(ch) ==
    \/ ch.data > DiskLimit \/ ch.log > DiskLimit
    \/ \E u \in UnitSet(ch.of), v \in Volumes :
          ch[v] # 0 /\ used[HostOf[u]] - size[u][v] + ch[v] > DiskCapacity[HostOf[u]]

\* The two checks of a change; neither of them changes anything.
Precheck(ch) == IF OfResources(ch) THEN ResourceErrors(ch) ELSE StorageErrors(ch)

\* All units of the child service take the amounts of the change.
Changed(ch) ==
    [u \in Units |-> IF u \notin UnitSet(ch.of) THEN size[u]
                     ELSE [a \in Amounts |-> IF ch[a] = 0 THEN size[u][a] ELSE ch[a]]]

\* Faulty: only the first unit of the child service is changed.
UpdateFirst(c, ch) ==
    /\ OfResources(ch) /\ MayUse(c, ServiceOf[ch.of])
    /\ size' = [size EXCEPT ![UnitsOf[ch.of][1]].cpu = ch.cpu]
    /\ UNCHANGED <<image, allocated, used, tasks, gone>>

\* update_service_resources asks for no check and sums nothing up.
UpdateResources(c, ch) ==
    /\ OfResources(ch) /\ MayUse(c, ServiceOf[ch.of])
    /\ size' = Changed(ch)
    /\ UNCHANGED <<image, allocated, used, tasks, gone>>

\* update_service_storage
UpdateStorage(c, ch) ==
    /\ OfStorage(ch) /\ MayUse(c, ServiceOf[ch.of])
    /\ size' = Changed(ch)
    /\ allocated' = Allocated(size') /\ used' = DiskUsed(size')
    /\ UNCHANGED <<image, tasks, gone>>

-----------------------------------------------------------------------------
(* Tasks                                                                    *)

\* The units of a backup: those of the whole service, or the one that is named.
UnitsOfService(s) == UNION {UnitSet(k) : k \in {k \in Children : ServiceOf[k] = s}}
BackupUnits(s)    == {UnitsOfService(s)} \cup {{u} : u \in UnitsOfService(s)}

\* Faulty: only a backup of the very same target counts.
RunningExact(target) ==
    {u \in target : u \in SeedBackups
        \/ \E t \in TaskIds : {v \in Units : backup[t][v] = "running"} = target}

\* _running_backups_for_resolved_target, for a service or one of its units:
\* the seed's records and those of tasks.
RunningBackups(target) ==
    {u \in target : u \in SeedBackups \/ \E t \in TaskIds : backup[t][u] = "running"}

Record(t, rec) ==
    /\ task[t].kind = "none" /\ gone[t] = "NONE"
    /\ task' = [task EXCEPT ![t] = rec]

\* create_service_image_upgrade_task: all units of a child service, or some of
\* them in the order of the request.
CreateUpgrade(c, t, k, units, new) ==
    /\ MayUse(c, ServiceOf[k])
    /\ Record(t, [kind |-> "upgrade", status |-> "RUNNING", service |-> ServiceOf[k],
                  units |-> units, image |-> new])
    /\ worker' = [worker EXCEPT ![t] = "awaited"]
    /\ UNCHANGED <<stored, backup, position, gone>>

\* create_service_backup_task: the task and its records in one section; a
\* backup that runs already is no obstacle.
CreateBackup(c, t, s, units) ==
    /\ MayUse(c, s)
    /\ Record(t, [NoTask EXCEPT !.kind = "backup", !.status = "RUNNING", !.service = s])
    /\ backup' = [backup EXCEPT ![t] = [u \in Units |-> IF u \in units THEN "running" ELSE "none"]]
    /\ worker' = [worker EXCEPT ![t] = "awaited"]
    /\ UNCHANGED <<stored, position, gone>>

\* Faulty: the thread does not come to run and nobody is told.
StartLost(t) ==
    /\ worker[t] = "awaited"
    /\ worker' = [worker EXCEPT ![t] = "over"]
    /\ UNCHANGED <<stored, task, backup, position, gone>>

\* _start_task_worker, after the section.
StartWorker(t) ==
    /\ worker[t] = "awaited"
    /\ worker' = [worker EXCEPT ![t] = "on"]
    /\ UNCHANGED <<stored, task, backup, position, gone>>

\* The next unit of an upgrade takes the image.
UpgradeUnit(t) ==
    /\ worker[t] = "on" /\ task[t].kind = "upgrade"
    /\ position[t] <= Len(task[t].units)
    /\ image' = [image EXCEPT ![task[t].units[position[t]]] = task[t].image]
    /\ position' = [position EXCEPT ![t] = @ + 1]
    /\ UNCHANGED <<size, allocated, used, task, backup, worker, gone>>

\* Faulty: the records take the word of the task.
EndTaskAlike(t, status, record) ==
    /\ task' = [task EXCEPT ![t].status = status]
    /\ backup' = [backup EXCEPT ![t] =
                     [u \in Units |-> IF @[u] = "none" THEN "none" ELSE status]]
    /\ worker' = [worker EXCEPT ![t] = "over"]
    /\ UNCHANGED <<stored, position, gone>>

\* The records of a task end with it, in one section.
EndTask(t, status, record) ==
    /\ task' = [task EXCEPT ![t].status = status]
    /\ backup' = [backup EXCEPT ![t] =
                     [u \in Units |-> IF @[u] = "none" THEN "none" ELSE record]]
    /\ worker' = [worker EXCEPT ![t] = "over"]
    /\ UNCHANGED <<stored, position, gone>>

\* Faulty: success while units are still to be done.
FinishEarly(t) ==
    /\ worker[t] = "on"
    /\ EndTask(t, "SUCCESS", "succeeded")

\* All units have the image, or the time of the backup is over.
FinishTask(t) ==
    /\ worker[t] = "on"
    /\ task[t].kind = "upgrade" => position[t] > Len(task[t].units)
    /\ EndTask(t, "SUCCESS", "succeeded")

\* Faulty: a failure is noted for any task, ended or not.
FailAny(t) ==
    /\ worker[t] \in {"on", "over"}
    /\ EndTask(t, "FAILED", "failed")

\* Faulty: a failed upgrade is undone, to the image of the seed.
FailUndone(t) ==
    /\ worker[t] = "on"
    /\ task' = [task EXCEPT ![t].status = "FAILED"]
    /\ worker' = [worker EXCEPT ![t] = "over"]
    /\ image' = [u \in Units |-> IF u \in Range(task[t].units) THEN SeedImage ELSE image[u]]
    /\ UNCHANGED <<size, allocated, used, backup, position, gone>>

\* _mark_task_failed: an exception in the thread ends the task, and what it
\* has upgraded stays upgraded.
FailTask(t) ==
    /\ worker[t] = "on"
    /\ EndTask(t, "FAILED", "failed")

-----------------------------------------------------------------------------
(* What clients are shown; reading changes nothing                          *)

\* _find_unit_by_name, find_unit_bindings
ServiceOfUnit ==
    [u \in UNION {UnitSet(k) : k \in Children} |->
        ServiceOf[CHOOSE k \in Children : u \in UnitSet(k)]]

\* get_task, after ensure_task_access
TaskShown(h, t) ==
    task[t].kind # "none" /\ Known(h) /\ (IsAdmin(h) \/ MayUse(h, task[t].service))

\* list_backups: the records of tasks, each under the service of its unit.
BackupsShown(h) ==
    {r \in TaskIds \X Units : backup[r[1]][r[2]] # "none" /\ BackupListed(h, ServiceOfUnit[r[2]])}

\* describe_backup_task_capabilities: what runs on a service or on one unit of
\* it.  The target is resolved first, and the service it comes to decides who
\* is told.
BackupHints(h, s, target) == IF MayUse(h, s) THEN RunningBackups(target) ELSE {}

-----------------------------------------------------------------------------

NoTasks == [t \in TaskIds |-> NoTask]

\* reload: the seed files, summed up, and no task.
Init ==
    /\ size = SeedSize /\ image = [u \in Units |-> SeedImage]
    /\ allocated = Allocated(SeedSize) /\ used = DiskUsed(SeedSize)
    /\ task = NoTasks /\ backup = [t \in TaskIds |-> NoBackups]
    /\ worker = [t \in TaskIds |-> "none"] /\ position = [t \in TaskIds |-> 1]
    /\ gone = [t \in TaskIds |-> "NONE"]

\* The server starts again: of what happened nothing was written down.
Restart ==
    /\ size' = SeedSize /\ image' = [u \in Units |-> SeedImage]
    /\ allocated' = Allocated(SeedSize) /\ used' = DiskUsed(SeedSize)
    /\ task' = NoTasks /\ backup' = [t \in TaskIds |-> NoBackups]
    /\ worker' = [t \in TaskIds |-> "none"] /\ position' = [t \in TaskIds |-> 1]
    /\ gone' = [t \in TaskIds |-> IF task[t].kind = "none" THEN gone[t] ELSE task[t].status]

ChangeRequest(c) == \E ch \in Changes : UpdateResources(c, ch) \/ UpdateStorage(c, ch)

TaskRequest(c) ==
    \E t \in TaskIds :
        \/ \E k \in Children, new \in Images :
              \E units \in {UnitsOf[k]} \cup {<<u>> : u \in UnitSet(k)} :
                  CreateUpgrade(c, t, k, units, new)
        \/ \E s \in Services : \E units \in BackupUnits(s) : CreateBackup(c, t, s, units)

Work(t) == StartWorker(t) \/ UpgradeUnit(t) \/ FinishTask(t) \/ FailTask(t)

Next ==
    \/ \E c \in Clients : ChangeRequest(c) \/ TaskRequest(c)
    \/ \E t \in TaskIds : Work(t)
    \/ Restart

Spec == Init /\ [][Next]_vars

\* A thread is started, and goes on until its task has ended.
FairSpec == Spec /\ \A t \in TaskIds : WF_vars(Work(t))

-----------------------------------------------------------------------------
(* Properties                                                               *)

TypeOK ==
    /\ size \in [Units -> Sizes] /\ image \in [Units -> Images \cup {SeedImage}]
    /\ task \in [TaskIds -> Tasks] /\ backup \in [TaskIds -> [Units -> BackupStates]]
    /\ worker \in [TaskIds -> WorkerStates] /\ position \in [TaskIds -> Nat \ {0}]
    /\ gone \in [TaskIds -> Statuses]

\* How a task and its records say the same.
Outcomes == {<<"RUNNING", "running">>, <<"SUCCESS", "succeeded">>, <<"FAILED", "failed">>}

\* The pieces of one task are written in different sections of different
\* threads and never tell different stories: the records of a backup say what
\* its task says, an upgrade that ended well has been at all its units, and a
\* task runs as long as its thread has not come to an end.
TasksAgree ==
    \A t \in TaskIds :
        /\ \A u \in Units : backup[t][u] # "none" =>
              task[t].kind = "backup" /\ <<task[t].status, backup[t][u]>> \in Outcomes
        /\ task[t].kind = "upgrade" /\ task[t].status = "SUCCESS" =>
              position[t] = Len(task[t].units) + 1
        /\ task[t].status = "RUNNING" <=> worker[t] \in {"awaited", "on"}

\* Whatever upgrades overlap, fail half way or are overtaken by others, a unit
\* holds the image of an upgrade that has come to it, and that of the seed as
\* long as none has.
HasBeenAt(t) == {task[t].units[i] : i \in 1..(position[t] - 1)}

UnitsHoldAnUpgrade ==
    \A u \in Units :
        LET came == {t \in TaskIds : u \in HasBeenAt(t)}
        IN  image[u] \in (IF came = {} THEN {SeedImage} ELSE {task[t].image : t \in came})

\* The first unit of a child service speaks for all of them when a client asks
\* for the current size, and the disks of the hosts show the volumes as they
\* are.
SizesSpeakForAll ==
    /\ \A k \in Children : \A u, v \in UnitSet(k) : size[u] = size[v]
    /\ used = DiskUsed(size)

\* A change that a check finds nothing against fits, if nothing comes between
\* the two: no host gives more cpu than it has, and no disk becomes overfull,
\* or fuller if it is.  The checks look at one unit at a time, and for the
\* disks at the sums of the last change of a volume.  A change of both volumes
\* is left out: each of them is checked alone, although they share the disk.
DiskTotal(sizes, h) == SeedUsed(h) + VolumesOn(sizes, h)

CheckedFits ==
    \A ch \in Changes : \A u \in UnitSet(ch.of) : LET h == HostOf[u] IN
        /\ OfResources(ch) /\ ~Precheck(ch) =>
              CpuOn(Changed(ch), h) <= CpuCapacity[h]
        /\ OfStorage(ch) /\ ~(ch.data # 0 /\ ch.log # 0) /\ ~Precheck(ch) =>
              \/ DiskTotal(Changed(ch), h) <= DiskCapacity[h]
              \/ DiskTotal(Changed(ch), h) <= DiskTotal(size, h)

\* A client is told that backups run on what it asks about exactly while a
\* task backs up one of its units (or the seed says so, for ever), and only if
\* the service is its own.
HintsFollowTasks ==
    \A s \in Services : \A target \in BackupUnits(s) :
        LET runs == \/ target \cap SeedBackups # {}
                    \/ \E t \in TaskIds : task[t].status = "RUNNING"
                                            /\ \E u \in target : backup[t][u] # "none"
        IN  \A h \in Headers : BackupHints(h, s, target) # {} <=> MayUse(h, s) /\ runs

\* Who may see what is decided by six routes in as many ways: by the service
\* that a task names, the owner that a backup record carries, the accounts of
\* the service a unit is found in, the filters of two lists, and the service
\* that a target comes to.  They agree on every unit a task is about: who is
\* shown the task is shown the service, the metrics of the unit and the record
\* of its backup, and is told of it while it runs; everybody else sees nothing.
Concerns(t) == Range(task[t].units) \cup {u \in Units : backup[t][u] # "none"}

SeenAlike ==
    \A t \in TaskIds : \A u \in Concerns(t), h \in Headers :
        LET s     == ServiceOfUnit[u]
            shown == TaskShown(h, t)
        IN  /\ shown <=> s \in ServicesListed(h, NoUser)
            /\ shown <=> HistoryShown(h, s)
            /\ shown <=> s \in MetricServices(h, "none")
            /\ backup[t][u] # "none" => (shown <=> <<t, u>> \in BackupsShown(h))
            /\ backup[t][u] = "running" => (shown <=> u \in BackupHints(h, s, {u}))

\* What clients rely on (DbaasTasks).  To them a task that a restart wiped
\* stays as it was last: the store does not know it any more.
Names == [NONE |-> "none", RUNNING |-> "running", SUCCESS |-> "succeeded", FAILED |-> "failed"]

Remote(t) == Names[IF task[t].kind = "none" THEN gone[t] ELSE task[t].status]

Dbaas == INSTANCE DbaasTasks WITH Tasks <- TaskIds, remote <- [t \in TaskIds |-> Remote(t)]

DbaasSpec == Dbaas!Spec

\* Every task ends, unless a restart wipes it.
TasksEnd == \A t \in TaskIds : task[t].status = "RUNNING" ~> task[t].status # "RUNNING"

=============================================================================
