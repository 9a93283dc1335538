------------------------------- MODULE MockProofs -------------------------------
(***************************************************************************)
(* Proofs about MockStore, for any seed as SeedAssumption has it, any      *)
(* clients and any tasks: the records of one task agree although they are  *)
(* written in sections of different threads, a change that was checked     *)
(* fits its hosts, clients are shown the same wherever they look, and the  *)
(* store implements what clients rely on.                                  *)
(*                                                                         *)
(* The argument: a task that was not created has left no trace, a thread   *)
(* is there as long as its task runs, its position never leaves the units  *)
(* of the task by more than one (Told), and what a task is about belongs   *)
(* to the service that it names (Placed).                                  *)
(*                                                                         *)
(* What a sum over the units of a host is follows by the smallest set of   *)
(* units for which it would not be so: the strict subsets of a finite set  *)
(* are well founded (SmallestSubset).                                      *)
(***************************************************************************)
EXTENDS MockStore, FiniteSetTheorems, WellFoundedInduction, TLAPS

Told(t) ==
    /\ task[t].kind = "none" <=> task[t].status = "NONE"
    /\ task[t].kind # "upgrade" => position[t] = 1
    /\ task[t].kind = "upgrade" => position[t] <= Len(task[t].units) + 1
    /\ \A u \in Units : backup[t][u] # "none" =>
          task[t].kind = "backup" /\ <<task[t].status, backup[t][u]>> \in Outcomes
    /\ task[t].kind = "upgrade" /\ task[t].status = "SUCCESS" =>
          position[t] = Len(task[t].units) + 1
    /\ task[t].status = "RUNNING" <=> worker[t] \in {"awaited", "on"}
    /\ task[t].kind # "none" => gone[t] = "NONE"

IInv == \A t \in TaskIds : Told(t)

\* What a task is about belongs to the service it names.
Placed(t) ==
    \A u \in Concerns(t) :
        /\ task[t].kind # "none" /\ task[t].service \in Services
        /\ u \in UnitsOfService(task[t].service)

AllPlaced == \A t \in TaskIds : Placed(t)

-----------------------------------------------------------------------------
(* Types                                                                    *)

LEMMA NoTaskTyped ==
    NoTask \in Tasks /\ NoTask.kind = "none" /\ NoTask.status = "NONE"
      /\ NoTask.units = <<>>
  BY DEF NoTask, Tasks, Statuses

LEMMA ChangedTyped ==
    ASSUME TypeOK, NEW ch \in Changes
    PROVE  Changed(ch) \in [Units -> Sizes]
  BY ChangesAssumption DEF TypeOK, Changed, Sizes, Amounts, Volumes

\* Every step leaves the sizes, the images and the tasks well typed.
LEMMA TypeStep ==
    ASSUME TypeOK, [Next]_vars
    PROVE  TypeOK'
<1> USE DEF TypeOK, stored, tasks
<1>1. ASSUME NEW c \in Clients, NEW ch \in Changes, UpdateResources(c, ch) \/ UpdateStorage(c, ch)
      PROVE  TypeOK'
  BY <1>1, ChangedTyped DEF UpdateResources, UpdateStorage
<1>2. ASSUME NEW c \in Clients, NEW t \in TaskIds, NEW k \in Children, NEW new \in Images,
             NEW units \in {UnitsOf[k]} \cup {<<u>> : u \in UnitSet(k)},
             CreateUpgrade(c, t, k, units, new)
      PROVE  TypeOK'
  <2>1. units \in Seq(Units)
    <3>1. UnitsOf[k] \in Seq(Units)
      BY SeedAssumption DEF ValidSeed
    <3>2. ASSUME NEW u \in UnitSet(k) PROVE u \in Units
      <4>1. PICK i \in DOMAIN UnitsOf[k] : u = UnitsOf[k][i]
        BY Zenon DEF UnitSet, Range
      <4> QED
        BY <3>1, <4>1
    <3>3. \A u \in Units : <<u>> \in Seq(Units)
      OBVIOUS
    <3> QED
      BY <3>1, <3>2, <3>3
  <2> DEFINE rec == [kind |-> "upgrade", status |-> "RUNNING", service |-> ServiceOf[k],
                     units |-> units, image |-> new]
  <2>2. rec \in Tasks
    BY <2>1, SeedAssumption DEF Tasks, Statuses, ValidSeed
  <2>3. task' = [task EXCEPT ![t] = rec] /\ worker' = [worker EXCEPT ![t] = "awaited"]
    BY <1>2 DEF CreateUpgrade, Record
  <2> HIDE DEF rec
  <2>4. task' \in [TaskIds -> Tasks] /\ worker' \in [TaskIds -> WorkerStates]
    BY <2>2, <2>3 DEF WorkerStates
  <2> QED
    BY <1>2, <2>4 DEF CreateUpgrade
<1>3. ASSUME NEW c \in Clients, NEW t \in TaskIds, NEW s \in Services,
             NEW units \in BackupUnits(s), CreateBackup(c, t, s, units)
      PROVE  TypeOK'
  <2> DEFINE rec == [NoTask EXCEPT !.kind = "backup", !.status = "RUNNING", !.service = s]
             records == [u \in Units |-> IF u \in units THEN "running" ELSE "none"]
  <2>1. rec \in Tasks /\ records \in [Units -> BackupStates]
    BY NoTaskTyped DEF Tasks, Statuses, BackupStates
  <2>2. /\ task' = [task EXCEPT ![t] = rec] /\ worker' = [worker EXCEPT ![t] = "awaited"]
        /\ backup' = [backup EXCEPT ![t] = records]
    BY <1>3 DEF CreateBackup, Record
  <2> HIDE DEF rec, records
  <2>3. /\ task' \in [TaskIds -> Tasks] /\ worker' \in [TaskIds -> WorkerStates]
        /\ backup' \in [TaskIds -> [Units -> BackupStates]]
    BY <2>1, <2>2 DEF WorkerStates
  <2> QED
    BY <1>3, <2>3 DEF CreateBackup
<1>4. ASSUME NEW t \in TaskIds, StartWorker(t)
      PROVE  TypeOK'
  BY <1>4 DEF StartWorker, WorkerStates
<1>5. ASSUME NEW t \in TaskIds, UpgradeUnit(t)
      PROVE  TypeOK'
  <2>1. position' \in [TaskIds -> Nat \ {0}]
    BY <1>5 DEF UpgradeUnit
  <2>2. task[t].image \in Images \cup {SeedImage}
    BY DEF Tasks
  <2>3. image' \in [Units -> Images \cup {SeedImage}]
    BY <1>5, <2>2 DEF UpgradeUnit
  <2> QED
    BY <1>5, <2>1, <2>3 DEF UpgradeUnit
<1>6. ASSUME NEW t \in TaskIds, FinishTask(t) \/ FailTask(t)
      PROVE  TypeOK'
  <2>1. PICK status \in {"SUCCESS", "FAILED"}, record \in {"succeeded", "failed"} :
           EndTask(t, status, record)
    BY <1>6 DEF FinishTask, FailTask
  <2> DEFINE rec == [task[t] EXCEPT !.status = status]
             records == [u \in Units |-> IF backup[t][u] = "none" THEN "none" ELSE record]
  <2>2. rec \in Tasks /\ records \in [Units -> BackupStates]
    <3>1. status \in Statuses /\ task[t] \in Tasks
      BY DEF Statuses
    <3>2. rec \in Tasks
      BY <3>1 DEF Tasks
    <3> QED
      BY <3>2 DEF BackupStates
  <2>3. /\ task' = [task EXCEPT ![t] = rec] /\ worker' = [worker EXCEPT ![t] = "over"]
        /\ backup' = [backup EXCEPT ![t] = records]
    BY <2>1 DEF EndTask
  <2> HIDE DEF rec, records
  <2>4. /\ task' \in [TaskIds -> Tasks] /\ worker' \in [TaskIds -> WorkerStates]
        /\ backup' \in [TaskIds -> [Units -> BackupStates]]
    BY <2>2, <2>3 DEF WorkerStates
  <2> QED
    BY <2>1, <2>4 DEF EndTask
<1>7. CASE Restart
  <2>1. gone' \in [TaskIds -> Statuses]
    BY <1>7 DEF Restart, Tasks
  <2> QED
    BY <1>7, <2>1, NoTaskTyped, SeedAssumption
       DEF Restart, NoTasks, NoBackups, BackupStates, WorkerStates, ValidSeed
<1>8. CASE UNCHANGED vars
  BY <1>8 DEF vars
<1> QED
  BY <1>1, <1>2, <1>3, <1>4, <1>5, <1>6, <1>7, <1>8 DEF Next, ChangeRequest, TaskRequest, Work

\* The seed is well typed.
LEMMA TypeInit == Init => TypeOK
  BY NoTaskTyped, SeedAssumption
     DEF Init, TypeOK, NoTasks, NoBackups, BackupStates, WorkerStates, ValidSeed, Statuses

-----------------------------------------------------------------------------
(* Sums                                                                     *)

\* A set of subsets of a finite set has one that is smallest.
LEMMA SmallestSubset ==
    ASSUME NEW S, IsFiniteSet(S), NEW B \in SUBSET (SUBSET S), B # {}
    PROVE  \E T \in B : \A R \in B : R \subseteq T => R = T
<1>1. IsWellFoundedOn(StrictSubsetOrdering(S), SUBSET S)
  BY FS_StrictSubsetOrderingWellFounded, FS_FiniteSubsetsOfFinite
<1>2. \E T \in B : \A R \in B : ~(<<R, T>> \in StrictSubsetOrdering(S))
  BY <1>1, WFMin
<1>3. \A R, T \in B : R \subseteq T /\ R # T => <<R, T>> \in StrictSubsetOrdering(S)
  BY DEF StrictSubsetOrdering
<1> QED
  BY <1>2, <1>3

Pick(s) == CHOOSE x \in s : TRUE

\* g sums f up over the subsets of S, in the way of MapThenFoldSet.
SumsUp(g, f, S) ==
    g = [s \in SUBSET S |-> IF s = {} THEN 0 ELSE f[Pick(s)] + g[s \ {Pick(s)}]]

LEMMA SumDef ==
    ASSUME NEW f, NEW S
    PROVE  SumFunctionOnSet(f, S) = (CHOOSE g : SumsUp(g, f, S))[S]
  BY DEF SumFunctionOnSet, FoldFunctionOnSet, MapThenFoldSet, SumsUp, Pick

LEMMA PickIn ==
    ASSUME NEW s, s # {}
    PROVE  Pick(s) \in s /\ s \ {Pick(s)} \subseteq s /\ s \ {Pick(s)} # s
  BY DEF Pick

LEMMA SumsUpOnce ==
    ASSUME NEW S, IsFiniteSet(S), NEW f, NEW g, NEW h, SumsUp(g, f, S), SumsUp(h, f, S)
    PROVE  g = h
<1> DEFINE B == {s \in SUBSET S : g[s] # h[s]}
<1>1. ASSUME B # {} PROVE FALSE
  <2>1. PICK s \in B : \A r \in B : r \subseteq s => r = s
    <3>1. B \in SUBSET (SUBSET S)
      OBVIOUS
    <3> HIDE DEF B
    <3> QED
      BY <1>1, <3>1, SmallestSubset
  <2>2. CASE s = {}
    BY <2>2 DEF SumsUp
  <2>3. CASE s # {}
    <3>1. g[s \ {Pick(s)}] = h[s \ {Pick(s)}]
      BY <2>1, <2>3, PickIn
    <3> QED
      BY <2>1, <2>3, <3>1 DEF SumsUp
  <2> QED
    BY <2>2, <2>3
<1>2. \A s \in SUBSET S : g[s] = h[s]
  BY <1>1
<1> QED
  BY <1>2 DEF SumsUp

\* The equation of the sum.
SumsRight(f, S) ==
    SumFunctionOnSet(f, S) =
        IF S = {} THEN 0 ELSE f[Pick(S)] + SumFunctionOnSet(f, S \ {Pick(S)})

LEMMA SumsUpSome ==
    ASSUME NEW S, IsFiniteSet(S), NEW f
    PROVE  (\E g : SumsUp(g, f, S)) /\ SumsRight(f, S)
<1> DEFINE Sum(s) == SumFunctionOnSet(f, s)
           Good(s) == (\E g : SumsUp(g, f, s)) /\ SumsRight(f, s)
           B == {s \in SUBSET S : ~Good(s)}
<1>1. ASSUME NEW T \in SUBSET S, \A s \in SUBSET T : s # T => Good(s)
      PROVE  Good(T)
  <2> DEFINE g == [s \in SUBSET T |->
                      IF s = {} THEN 0 ELSE f[Pick(s)] + Sum(s \ {Pick(s)})]
  <2>1. \A s \in SUBSET T : s # T => g[s] = Sum(s)
    BY <1>1 DEF SumsRight
  <2>2. ASSUME NEW s \in SUBSET T, s # {}
        PROVE  g[s] = f[Pick(s)] + g[s \ {Pick(s)}]
    <3>1. s \ {Pick(s)} \in SUBSET T /\ s \ {Pick(s)} # T
      BY <2>2, PickIn
    <3>2. g[s \ {Pick(s)}] = Sum(s \ {Pick(s)})
      BY <2>1, <3>1
    <3> QED
      BY <2>2, <3>2
  <2>3. SumsUp(g, f, T)
    <3>1. \A s \in SUBSET T : g[s] = IF s = {} THEN 0 ELSE f[Pick(s)] + g[s \ {Pick(s)}]
      BY <2>2
    <3>2. g = [s \in SUBSET T |-> g[s]]
      OBVIOUS
    <3> HIDE DEF g
    <3> QED
      BY <3>1, <3>2 DEF SumsUp
  <2>4. IsFiniteSet(T)
    BY FS_Subset
  <2>5. (CHOOSE h : SumsUp(h, f, T)) = g
    <3> HIDE DEF g
    <3> QED
      BY <2>3, <2>4, SumsUpOnce
  <2>6. Sum(T) = g[T]
    BY <2>5, SumDef
  <2>7. SumsRight(f, T)
    BY <2>6 DEF SumsRight
  <2> QED
    BY <2>3, <2>7
<1>2. ASSUME B # {} PROVE FALSE
  <2> HIDE DEF Good
  <2>1. PICK T \in B : \A s \in B : s \subseteq T => s = T
    <3>1. B \in SUBSET (SUBSET S)
      OBVIOUS
    <3> HIDE DEF B
    <3> QED
      BY <1>2, <3>1, SmallestSubset
  <2>2. \A s \in SUBSET T : s # T => Good(s)
    BY <2>1
  <2> QED
    BY <1>1, <2>1, <2>2
<1> HIDE DEF Good
<1>3. Good(S)
  BY <1>2
<1> QED
  BY <1>3 DEF Good

LEMMA SumNat ==
    ASSUME NEW S, IsFiniteSet(S), NEW f, \A x \in S : f[x] \in Nat
    PROVE  SumFunctionOnSet(f, S) \in Nat
<1> DEFINE B == {s \in SUBSET S : SumFunctionOnSet(f, s) \notin Nat}
<1>1. ASSUME B # {} PROVE FALSE
  <2>1. PICK s \in B : \A r \in B : r \subseteq s => r = s
    <3>1. B \in SUBSET (SUBSET S)
      OBVIOUS
    <3> HIDE DEF B
    <3> QED
      BY <1>1, <3>1, SmallestSubset
  <2>2. IsFiniteSet(s)
    BY FS_Subset
  <2>3. CASE s = {}
    <3>1. SumFunctionOnSet(f, s) = 0
      BY <2>2, <2>3, SumsUpSome DEF SumsRight
    <3> QED
      BY <2>1, <3>1
  <2>4. CASE s # {}
    <3>1. SumFunctionOnSet(f, s) = f[Pick(s)] + SumFunctionOnSet(f, s \ {Pick(s)})
      BY <2>2, <2>4, SumsUpSome DEF SumsRight
    <3>2. SumFunctionOnSet(f, s \ {Pick(s)}) \in Nat /\ f[Pick(s)] \in Nat
      BY <2>1, <2>4, PickIn
    <3> QED
      BY <2>1, <3>1, <3>2
  <2> QED
    BY <2>3, <2>4
<1> QED
  BY <1>1

\* One summand may be taken out of a sum.
LEMMA SumWithout ==
    ASSUME NEW S, IsFiniteSet(S), NEW f, \A x \in S : f[x] \in Nat, NEW a \in S
    PROVE  SumFunctionOnSet(f, S) = f[a] + SumFunctionOnSet(f, S \ {a})
<1> DEFINE Sum(s) == SumFunctionOnSet(f, s)
           B == {s \in SUBSET S : \E x \in s : Sum(s) # f[x] + Sum(s \ {x})}
<1>1. ASSUME NEW s \in SUBSET S PROVE IsFiniteSet(s) /\ Sum(s) \in Nat
  BY FS_Subset, SumNat
<1>2. ASSUME B # {} PROVE FALSE
  <2>1. PICK s \in B : \A r \in B : r \subseteq s => r = s
    <3>1. B \in SUBSET (SUBSET S)
      OBVIOUS
    <3> HIDE DEF B
    <3> QED
      BY <1>2, <3>1, SmallestSubset
  <2>2. PICK x \in s : Sum(s) # f[x] + Sum(s \ {x})
    BY <2>1
  <2> DEFINE p == Pick(s)
             rest == (s \ {p}) \ {x}
  <2>3. p \in s /\ Sum(s) = f[p] + Sum(s \ {p})
    BY <1>1, <2>2, PickIn, SumsUpSome DEF SumsRight
  <2>4. p # x
    BY <2>2, <2>3
  <2>5. \A r \in SUBSET s : \A y \in r : r # s => Sum(r) = f[y] + Sum(r \ {y})
    BY <2>1
  <2> HIDE DEF Sum, p
  <2>6. Sum(s \ {p}) = f[x] + Sum(rest)
    BY <2>2, <2>3, <2>4, <2>5
  <2>7. Sum(s \ {x}) = f[p] + Sum(rest)
    <3>1. (s \ {x}) \ {p} = rest /\ s \ {x} \in SUBSET s /\ s \ {x} # s /\ p \in s \ {x}
      BY <2>2, <2>3, <2>4
    <3> QED
      BY <2>5, <3>1
  <2>8. Sum(rest) \in Nat /\ f[x] \in Nat /\ f[p] \in Nat
    BY <1>1, <2>1, <2>2, <2>3
  <2> QED
    BY <2>2, <2>3, <2>6, <2>7, <2>8
<1>3. \A x \in S : Sum(S) = f[x] + Sum(S \ {x})
  BY <1>2
<1> QED
  BY <1>3

\* A sum depends on its summands only.
LEMMA SumSame ==
    ASSUME NEW S, IsFiniteSet(S), NEW f, NEW g, \A x \in S : f[x] = g[x]
    PROVE  SumFunctionOnSet(f, S) = SumFunctionOnSet(g, S)
<1> DEFINE B == {s \in SUBSET S : SumFunctionOnSet(f, s) # SumFunctionOnSet(g, s)}
<1>1. ASSUME B # {} PROVE FALSE
  <2>1. PICK s \in B : \A r \in B : r \subseteq s => r = s
    <3>1. B \in SUBSET (SUBSET S)
      OBVIOUS
    <3> HIDE DEF B
    <3> QED
      BY <1>1, <3>1, SmallestSubset
  <2>2. SumsRight(f, s) /\ SumsRight(g, s)
    BY <2>1, FS_Subset, SumsUpSome
  <2>3. CASE s = {}
    BY <2>1, <2>2, <2>3 DEF SumsRight
  <2>4. CASE s # {}
    <3>1. Pick(s) \in S /\ SumFunctionOnSet(f, s \ {Pick(s)}) = SumFunctionOnSet(g, s \ {Pick(s)})
      BY <2>1, <2>4, PickIn
    <3> QED
      BY <2>1, <2>2, <2>4, <3>1 DEF SumsRight
  <2> QED
    BY <2>3, <2>4
<1> QED
  BY <1>1
-----------------------------------------------------------------------------
(* Sizes                                                                    *)

LEMMA UnitsKnown ==
    ASSUME NEW k \in Children, NEW u \in UnitSet(k)
    PROVE  u \in Units /\ \E i \in DOMAIN UnitsOf[k] : u = UnitsOf[k][i]
<1>1. UnitsOf[k] \in Seq(Units)
  BY SeedAssumption DEF ValidSeed
<1>2. PICK i \in DOMAIN UnitsOf[k] : u = UnitsOf[k][i]
  BY Zenon DEF UnitSet, Range
<1> QED
  BY <1>1, <1>2

\* Two units of a child service do not share a host.
LEMMA OneOnHost ==
    ASSUME NEW k \in Children, NEW u \in UnitSet(k), NEW v \in UnitSet(k), HostOf[u] = HostOf[v]
    PROVE  u = v
<1>1. PICK i \in DOMAIN UnitsOf[k] : u = UnitsOf[k][i]
  BY UnitsKnown
<1>2. PICK j \in DOMAIN UnitsOf[k] : v = UnitsOf[k][j]
  BY UnitsKnown
<1>3. i = j
  BY <1>1, <1>2, SeedAssumption DEF Spread
<1> QED
  BY <1>1, <1>2, <1>3

\* What a host sums up is a number, and moves with the one unit that differs.
LEMMA HostSum ==
    ASSUME NEW h, NEW f \in [Units -> Nat]
    PROVE  /\ SumFunctionOnSet(f, UnitsOn(h)) \in Nat
           /\ \A g \in [Units -> Nat], u \in UnitsOn(h) :
                 (\A v \in UnitsOn(h) \ {u} : f[v] = g[v]) =>
                    SumFunctionOnSet(g, UnitsOn(h)) = SumFunctionOnSet(f, UnitsOn(h)) - f[u] + g[u]
<1>1. UnitsOn(h) \subseteq Units /\ IsFiniteSet(UnitsOn(h))
  BY SeedAssumption, FS_Subset DEF UnitsOn, ValidSeed
<1>2. SumFunctionOnSet(f, UnitsOn(h)) \in Nat
  BY <1>1, SumNat
<1>3. ASSUME NEW g \in [Units -> Nat], NEW u \in UnitsOn(h),
             \A v \in UnitsOn(h) \ {u} : f[v] = g[v]
      PROVE  SumFunctionOnSet(g, UnitsOn(h)) = SumFunctionOnSet(f, UnitsOn(h)) - f[u] + g[u]
  <2> DEFINE rest == UnitsOn(h) \ {u}
  <2>1. IsFiniteSet(rest) /\ rest \subseteq Units
    BY <1>1, FS_Subset
  <2>2. /\ SumFunctionOnSet(f, UnitsOn(h)) = f[u] + SumFunctionOnSet(f, rest)
        /\ SumFunctionOnSet(g, UnitsOn(h)) = g[u] + SumFunctionOnSet(g, rest)
    BY <1>1, SumWithout
  <2>3. SumFunctionOnSet(f, rest) = SumFunctionOnSet(g, rest)
    BY <1>3, <2>1, SumSame
  <2>4. SumFunctionOnSet(f, rest) \in Nat /\ f[u] \in Nat /\ g[u] \in Nat
    BY <1>1, <2>1, SumNat
  <2> QED
    BY <2>2, <2>3, <2>4
<1> QED
  BY <1>2, <1>3

\* A change of volumes moves the cpu of no unit, and the other way round.
LEMMA ChangedUnit ==
    ASSUME TypeOK, NEW ch \in Changes, NEW u \in Units
    PROVE  /\ Changed(ch)[u] \in Sizes /\ size[u] \in Sizes
           /\ u \notin UnitSet(ch.of) => Changed(ch)[u] = size[u]
           /\ u \in UnitSet(ch.of) =>
                 \A a \in Amounts : Changed(ch)[u][a] = IF ch[a] = 0 THEN size[u][a] ELSE ch[a]
           /\ OfResources(ch) => Changed(ch)[u].data = size[u].data /\ Changed(ch)[u].log = size[u].log
<1>1. Changed(ch)[u] \in Sizes /\ size[u] \in Sizes
  BY ChangedTyped DEF TypeOK
<1>2. u \notin UnitSet(ch.of) => Changed(ch)[u] = size[u]
  BY DEF Changed
<1>3. u \in UnitSet(ch.of) =>
         \A a \in Amounts : Changed(ch)[u][a] = IF ch[a] = 0 THEN size[u][a] ELSE ch[a]
  BY DEF Changed
<1>4. OfResources(ch) => Changed(ch)[u].data = size[u].data /\ Changed(ch)[u].log = size[u].log
  BY <1>2, <1>3, ChangesAssumption DEF OfResources, Amounts, Volumes
<1> QED
  BY <1>1, <1>2, <1>3, <1>4

\* The units of a child service stay alike, and the disks are summed up again
\* whenever a volume has changed.
LEMMA SizesStep ==
    ASSUME TypeOK, SizesSpeakForAll, [Next]_vars
    PROVE  SizesSpeakForAll'
<1> USE DEF stored, tasks
<1> DEFINE Alike(sizes) == \A k \in Children : \A u, v \in UnitSet(k) : sizes[u] = sizes[v]
<1>1. Alike(size) /\ used = DiskUsed(size)
  BY DEF SizesSpeakForAll
<1>2. Alike(size') /\ used' = DiskUsed(size') => SizesSpeakForAll'
  BY DEF SizesSpeakForAll, DiskUsed, VolumesOn
<1>3. ASSUME NEW ch \in Changes PROVE Alike(Changed(ch))
  <2> SUFFICES ASSUME NEW k \in Children, NEW u \in UnitSet(k), NEW v \in UnitSet(k)
               PROVE  Changed(ch)[u] = Changed(ch)[v]
    OBVIOUS
  <2>1. u \in Units /\ v \in Units /\ size[u] = size[v]
    BY <1>1, UnitsKnown
  <2>2. u \in UnitSet(ch.of) <=> v \in UnitSet(ch.of)
    BY SeedAssumption, ChangesAssumption DEF Owned
  <2> QED
    BY <2>1, <2>2 DEF Changed
<1>4. ASSUME NEW c \in Clients, NEW ch \in Changes, UpdateResources(c, ch)
      PROVE  SizesSpeakForAll'
  <2>1. OfResources(ch) /\ size' = Changed(ch) /\ used' = used
    BY <1>4 DEF UpdateResources
  <2>2. [u \in Units |-> Changed(ch)[u].data + Changed(ch)[u].log]
           = [u \in Units |-> size[u].data + size[u].log]
    BY <2>1, ChangedUnit
  <2>3. DiskUsed(Changed(ch)) = DiskUsed(size)
    BY <2>2, Zenon DEF DiskUsed, VolumesOn
  <2> QED
    BY <1>1, <1>2, <1>3, <2>1, <2>3, Zenon
<1>5. ASSUME NEW c \in Clients, NEW ch \in Changes, UpdateStorage(c, ch)
      PROVE  SizesSpeakForAll'
  <2>1. size' = Changed(ch) /\ used' = DiskUsed(size')
    BY <1>5 DEF UpdateStorage
  <2> QED
    BY <1>2, <1>3, <2>1, Zenon
<1>6. CASE UNCHANGED <<size, used>>
  BY <1>1, <1>2, <1>6, Zenon
<1>7. CASE Restart
  <2>1. size' = SeedSize /\ used' = DiskUsed(SeedSize)
    BY <1>7 DEF Restart
  <2>2. Alike(SeedSize)
    BY SeedAssumption DEF SameSize
  <2> QED
    BY <1>2, <2>1, <2>2, Zenon
<1>8. ASSUME NEW c \in Clients, TaskRequest(c) PROVE UNCHANGED <<size, used>>
  BY <1>8 DEF TaskRequest, CreateUpgrade, CreateBackup
<1>9. ASSUME NEW t \in TaskIds, Work(t) PROVE UNCHANGED <<size, used>>
  BY <1>9 DEF Work, StartWorker, UpgradeUnit, FinishTask, FailTask, EndTask
<1>10. CASE UNCHANGED vars
  BY <1>6, <1>10 DEF vars
<1> QED
  BY <1>4, <1>5, <1>6, <1>7, <1>8, <1>9, <1>10 DEF Next, ChangeRequest

\* A check that finds nothing has looked at all there is on the hosts.
LEMMA ChecksSuffice ==
    ASSUME TypeOK, SizesSpeakForAll
    PROVE  CheckedFits
<1> SUFFICES ASSUME NEW ch \in Changes, NEW u \in UnitSet(ch.of), ~Precheck(ch)
             PROVE  LET h == HostOf[u] IN
                    /\ OfResources(ch) => CpuOn(Changed(ch), h) <= CpuCapacity[h]
                    /\ OfStorage(ch) /\ ~(ch.data # 0 /\ ch.log # 0) =>
                          \/ DiskTotal(Changed(ch), h) <= DiskCapacity[h]
                          \/ DiskTotal(Changed(ch), h) <= DiskTotal(size, h)
  BY DEF CheckedFits
<1> DEFINE h == HostOf[u]
           old == [v \in Units |-> size[v].cpu]
           new == [v \in Units |-> Changed(ch)[v].cpu]
           oldVolumes == [v \in Units |-> size[v].data + size[v].log]
           newVolumes == [v \in Units |-> Changed(ch)[v].data + Changed(ch)[v].log]
<1>1. /\ ch \in [of : Children, cpu : Nat, data : Nat, log : Nat]
      /\ u \in Units /\ u \in UnitsOn(h) /\ h \in Hosts
  BY ChangesAssumption, UnitsKnown, SeedAssumption DEF UnitsOn, ValidSeed
<1>2. \A v \in UnitsOn(h) \ {u} : v \in Units /\ v \notin UnitSet(ch.of)
  BY <1>1, OneOnHost DEF UnitsOn
<1>3. /\ old \in [Units -> Nat] /\ new \in [Units -> Nat]
      /\ oldVolumes \in [Units -> Nat] /\ newVolumes \in [Units -> Nat]
  BY ChangedUnit DEF Sizes
<1>4. \A v \in UnitsOn(h) \ {u} : old[v] = new[v] /\ oldVolumes[v] = newVolumes[v]
  BY <1>2, ChangedUnit
<1>5. /\ CpuOn(size, h) \in Nat /\ VolumesOn(size, h) \in Nat
      /\ CpuOn(Changed(ch), h) = CpuOn(size, h) - old[u] + new[u]
      /\ VolumesOn(Changed(ch), h) = VolumesOn(size, h) - oldVolumes[u] + newVolumes[u]
  <2> HIDE DEF old, new, oldVolumes, newVolumes, h
  <2>1. /\ CpuOn(size, h) = SumFunctionOnSet(old, UnitsOn(h))
        /\ CpuOn(Changed(ch), h) = SumFunctionOnSet(new, UnitsOn(h))
        /\ VolumesOn(size, h) = SumFunctionOnSet(oldVolumes, UnitsOn(h))
        /\ VolumesOn(Changed(ch), h) = SumFunctionOnSet(newVolumes, UnitsOn(h))
    BY Zenon DEF CpuOn, VolumesOn, old, new, oldVolumes, newVolumes
  <2> QED
    BY <1>1, <1>3, <1>4, <2>1, HostSum
<1>6. ASSUME OfResources(ch)
      PROVE  CpuOn(Changed(ch), h) <= CpuCapacity[h]
  <2>1. CpuOn(size, h) - size[u].cpu + ch.cpu <= CpuCapacity[h]
    BY <1>1, <1>5, <1>6, ChangedUnit, HostsAssumption DEF Precheck, ResourceErrors, Sizes
  <2>2. new[u] = ch.cpu /\ old[u] = size[u].cpu
    BY <1>1, <1>6, ChangedUnit DEF OfResources, Amounts
  <2> QED
    BY <1>5, <2>1, <2>2
<1>7. ASSUME OfStorage(ch), NEW w \in Volumes, NEW x \in Volumes, w # x, ch[x] = 0
      PROVE  \/ DiskTotal(Changed(ch), h) <= DiskCapacity[h]
             \/ DiskTotal(Changed(ch), h) <= DiskTotal(size, h)
  <2>1. used[h] = SmallerOf(DiskCapacity[h], DiskTotal(size, h))
    BY <1>1 DEF SizesSpeakForAll, DiskUsed, DiskTotal
  <2>2. DiskCapacity[h] \in Nat /\ SeedUsed(h) \in Nat
    <3>1. [v \in Units |-> SeedSize[v].data + SeedSize[v].log] \in [Units -> Nat]
      BY SeedAssumption DEF ValidSeed, Sizes
    <3>2. VolumesOn(SeedSize, h) \in Nat
      BY <3>1, HostSum DEF VolumesOn
    <3> QED
      BY <1>1, <3>2, HostsAssumption DEF SeedUsed, SmallerOf
  <2>3. /\ size[u][w] \in Nat /\ size[u][x] \in Nat /\ ch[w] \in Nat
        /\ oldVolumes[u] = size[u][w] + size[u][x]
        /\ newVolumes[u] = (IF ch[w] = 0 THEN size[u][w] ELSE ch[w]) + size[u][x]
    BY <1>1, <1>7, ChangedUnit DEF Volumes, Amounts, Sizes
  <2>4. CASE ch[w] = 0
    BY <1>5, <2>2, <2>3, <2>4 DEF DiskTotal
  <2>5. CASE ch[w] # 0
    <3>1. used[h] - size[u][w] + ch[w] <= DiskCapacity[h]
      <4>1. ~StorageErrors(ch)
        BY <1>7 DEF Precheck, OfResources, OfStorage
      <4>2. used[h] \in Nat
        BY <1>5, <2>1, <2>2 DEF SmallerOf, DiskTotal
      <4> QED
        BY <1>7, <2>2, <2>3, <2>5, <4>1, <4>2 DEF StorageErrors
    <3>2. DiskTotal(Changed(ch), h) = DiskTotal(size, h) - size[u][w] + ch[w]
      BY <1>5, <2>2, <2>3, <2>5 DEF DiskTotal
    <3>3. DiskTotal(size, h) \in Nat
      BY <1>5, <2>2 DEF DiskTotal
    <3> QED
      BY <2>1, <2>2, <2>3, <3>1, <3>2, <3>3 DEF SmallerOf
  <2> QED
    BY <2>4, <2>5
<1>8. ASSUME OfStorage(ch), ~(ch.data # 0 /\ ch.log # 0)
      PROVE  \/ DiskTotal(Changed(ch), h) <= DiskCapacity[h]
             \/ DiskTotal(Changed(ch), h) <= DiskTotal(size, h)
  BY <1>7, <1>8 DEF Volumes
<1> QED
  BY <1>6, <1>8

-----------------------------------------------------------------------------
(* One task                                                                 *)

\* A task that nothing happens to tells what it told.
LEMMA SameTold ==
    ASSUME NEW t \in TaskIds, Told(t), task'[t] = task[t], backup'[t] = backup[t],
           worker'[t] = worker[t], position'[t] = position[t], gone'[t] = gone[t]
    PROVE  Told(t)'
  BY DEF Told

\* A task is recorded, started, carried out and ended; the others are as before.
LEMMA CreateTold ==
    ASSUME TypeOK, IInv, NEW t \in TaskIds, NEW rec \in Tasks, rec.kind \in {"upgrade", "backup"},
           rec.status = "RUNNING", Record(t, rec),
           worker' = [worker EXCEPT ![t] = "awaited"],
           backup' = backup \/ (rec.kind = "backup" /\
               \E units : backup' = [backup EXCEPT
                  ![t] = [u \in Units |-> IF u \in units THEN "running" ELSE "none"]]),
           UNCHANGED <<position, gone>>
    PROVE  IInv'
<1>1. /\ task[t].kind = "none" /\ gone[t] = "NONE"
      /\ task'[t] = rec /\ worker'[t] = "awaited" /\ position'[t] = position[t]
      /\ gone'[t] = gone[t]
      /\ \A s \in TaskIds : s # t => /\ task'[s] = task[s] /\ backup'[s] = backup[s]
                                     /\ worker'[s] = worker[s] /\ position'[s] = position[s]
                                     /\ gone'[s] = gone[s]
  BY DEF TypeOK, Record
<1>2. position[t] = 1 /\ \A u \in Units : backup[t][u] = "none"
  BY <1>1 DEF IInv, Told, Outcomes
<1>3. \A u \in Units : backup'[t][u] = "none" \/ (rec.kind = "backup" /\ backup'[t][u] = "running")
  BY <1>2 DEF TypeOK
<1>4. Len(rec.units) \in Nat
  BY DEF Tasks
<1>5. Told(t)'
  BY <1>1, <1>2, <1>3, <1>4 DEF Told, Outcomes
<1> QED
  BY <1>1, <1>5, SameTold DEF IInv

LEMMA EndTold ==
    ASSUME TypeOK, IInv, NEW t \in TaskIds,
           NEW status \in {"SUCCESS", "FAILED"}, NEW record,
           record = IF status = "SUCCESS" THEN "succeeded" ELSE "failed",
           worker[t] = "on", EndTask(t, status, record),
           status = "SUCCESS" /\ task[t].kind = "upgrade" => position[t] > Len(task[t].units)
    PROVE  IInv'
<1>1. /\ task' = [task EXCEPT ![t].status = status]
      /\ backup' = [backup EXCEPT ![t] =
                       [u \in Units |-> IF @[u] = "none" THEN "none" ELSE record]]
      /\ worker' = [worker EXCEPT ![t] = "over"]
      /\ UNCHANGED <<position, gone>>
  BY DEF EndTask
<1>2. \A s \in TaskIds : s # t => /\ task'[s] = task[s] /\ backup'[s] = backup[s]
                                  /\ worker'[s] = worker[s] /\ position'[s] = position[s]
                                  /\ gone'[s] = gone[s]
  BY <1>1 DEF TypeOK
<1>3. /\ task'[t].kind = task[t].kind /\ task'[t].units = task[t].units
      /\ task'[t].status = status /\ worker'[t] = "over" /\ position'[t] = position[t]
      /\ gone'[t] = gone[t]
  BY <1>1 DEF TypeOK, Tasks
<1>4. \A u \in Units : backup'[t][u] = IF backup[t][u] = "none" THEN "none" ELSE record
  BY <1>1 DEF TypeOK
<1>5. Told(t) /\ task[t].status = "RUNNING" /\ task[t].kind # "none"
  BY DEF IInv, Told
<1>6. position[t] \in Nat /\ Len(task[t].units) \in Nat
  BY DEF TypeOK, Tasks
<1>7. Told(t)'
  BY <1>3, <1>4, <1>5, <1>6 DEF Told, Outcomes
<1> QED
  BY <1>2, <1>7, SameTold DEF IInv

\* Every step leaves the pieces of a task in agreement.
LEMMA ToldStep ==
    ASSUME TypeOK, TypeOK', IInv, [Next]_vars
    PROVE  IInv'
<1> USE DEF stored, tasks
<1>1. ASSUME NEW c \in Clients, NEW ch \in Changes, UpdateResources(c, ch) \/ UpdateStorage(c, ch)
      PROVE  IInv'
  BY <1>1, SameTold DEF IInv, UpdateResources, UpdateStorage
<1>2. ASSUME NEW c \in Clients, NEW t \in TaskIds, NEW k \in Children, NEW new \in Images,
             NEW units \in {UnitsOf[k]} \cup {<<u>> : u \in UnitSet(k)},
             CreateUpgrade(c, t, k, units, new)
      PROVE  IInv'
  <2> DEFINE rec == [kind |-> "upgrade", status |-> "RUNNING", service |-> ServiceOf[k],
                     units |-> units, image |-> new]
  <2>1. task'[t] = rec /\ Record(t, rec)
    BY <1>2 DEF CreateUpgrade, Record, TypeOK
  <2>2. rec \in Tasks
    BY <2>1 DEF TypeOK
  <2>3. rec.kind = "upgrade" /\ rec.status = "RUNNING"
    OBVIOUS
  <2> HIDE DEF rec
  <2> QED
    BY <1>2, <2>1, <2>2, <2>3, CreateTold DEF CreateUpgrade
<1>3. ASSUME NEW c \in Clients, NEW t \in TaskIds, NEW s \in Services,
             NEW units \in BackupUnits(s), CreateBackup(c, t, s, units)
      PROVE  IInv'
  <2> DEFINE rec == [NoTask EXCEPT !.kind = "backup", !.status = "RUNNING", !.service = s]
  <2>1. rec \in Tasks /\ rec.kind = "backup" /\ rec.status = "RUNNING"
    BY NoTaskTyped DEF Tasks, Statuses
  <2>2. Record(t, rec)
    BY <1>3 DEF CreateBackup
  <2> HIDE DEF rec
  <2> QED
    BY <1>3, <2>1, <2>2, CreateTold DEF CreateBackup
<1>4. ASSUME NEW t \in TaskIds, StartWorker(t)
      PROVE  IInv'
  <2>1. Told(t)'
    BY <1>4 DEF StartWorker, IInv, Told, TypeOK
  <2>2. ASSUME NEW s \in TaskIds, s # t PROVE Told(s)'
    BY <1>4, <2>2, SameTold DEF StartWorker, IInv, TypeOK
  <2> QED
    BY <2>1, <2>2 DEF IInv
<1>5. ASSUME NEW t \in TaskIds, UpgradeUnit(t)
      PROVE  IInv'
  <2>1. /\ position'[t] = position[t] + 1 /\ position[t] <= Len(task[t].units)
        /\ task[t].kind = "upgrade" /\ worker[t] = "on"
        /\ UNCHANGED <<task, backup, worker, gone>>
        /\ \A s \in TaskIds : s # t => position'[s] = position[s]
    BY <1>5 DEF UpgradeUnit, TypeOK
  <2>2. position[t] \in Nat /\ Len(task[t].units) \in Nat
    BY DEF TypeOK, Tasks
  <2>3. Told(t)'
    BY <2>1, <2>2 DEF IInv, Told
  <2>4. ASSUME NEW s \in TaskIds, s # t PROVE Told(s)'
    BY <2>1, <2>4, SameTold DEF IInv
  <2> QED
    BY <2>3, <2>4 DEF IInv
<1>6. ASSUME NEW t \in TaskIds, FinishTask(t)
      PROVE  IInv'
  BY <1>6, EndTold DEF FinishTask
<1>7. ASSUME NEW t \in TaskIds, FailTask(t)
      PROVE  IInv'
  BY <1>7, EndTold DEF FailTask
<1>8. CASE Restart
  <2>1. ASSUME NEW t \in TaskIds
        PROVE  /\ task'[t] = NoTask /\ worker'[t] = "none" /\ position'[t] = 1
               /\ \A u \in Units : backup'[t][u] = "none"
    BY <1>8 DEF Restart, NoTasks, NoBackups
  <2> QED
    BY <2>1, NoTaskTyped DEF IInv, Told
<1>9. CASE UNCHANGED vars
  BY <1>9, SameTold DEF IInv, vars
<1> QED
  BY <1>1, <1>2, <1>3, <1>4, <1>5, <1>6, <1>7, <1>8, <1>9
     DEF Next, ChangeRequest, TaskRequest, Work

LEMMA ToldInit == Init => IInv
  BY NoTaskTyped DEF Init, IInv, Told, NoTasks, NoBackups

-----------------------------------------------------------------------------
(* Images                                                                   *)

\* The units that an upgrade has come to.
LEMMA CameTo ==
    ASSUME TypeOK, TypeOK', IInv, UnitsHoldAnUpgrade, [Next]_vars
    PROVE  UnitsHoldAnUpgrade'
<1> DEFINE Came(u) == {t \in TaskIds : u \in HasBeenAt(t)}
           Good(u) == image[u] \in (IF Came(u) = {} THEN {SeedImage}
                                    ELSE {task[t].image : t \in Came(u)})
<1> USE DEF stored, tasks
<1>1. UnitsHoldAnUpgrade <=> \A u \in Units : Good(u)
  BY DEF UnitsHoldAnUpgrade
<1>2. UnitsHoldAnUpgrade' <=> \A u \in Units : Good(u)'
  BY DEF UnitsHoldAnUpgrade
<1>3. CASE /\ UNCHANGED image
           /\ \A t \in TaskIds : /\ HasBeenAt(t)' = HasBeenAt(t)
                                 /\ HasBeenAt(t) # {} => task'[t].image = task[t].image
  <2>1. ASSUME NEW u \in Units PROVE Good(u)'
    <3>1. Came(u)' = Came(u) /\ Good(u)
      BY <1>1, <1>3
    <3>2. \A t \in Came(u) : task'[t].image = task[t].image
      BY <1>3
    <3> QED
      BY <1>3, <3>1, <3>2
  <2> QED
    BY <1>2, <2>1
<1>4. ASSUME NEW t \in TaskIds, UpgradeUnit(t)
      PROVE  UnitsHoldAnUpgrade'
  <2> DEFINE here == task[t].units[position[t]]
  <2>1. /\ position[t] \in Nat \ {0} /\ position[t] <= Len(task[t].units)
        /\ position' = [position EXCEPT ![t] = @ + 1] /\ UNCHANGED task
        /\ image' = [image EXCEPT ![here] = task[t].image]
    BY <1>4 DEF UpgradeUnit, TypeOK
  <2>2. HasBeenAt(t)' = HasBeenAt(t) \cup {here}
    <3>1. position'[t] = position[t] + 1
      BY <2>1 DEF TypeOK
    <3>2. 1..(position'[t] - 1) = 1..(position[t] - 1) \cup {position[t]}
      BY <2>1, <3>1
    <3> QED
      BY <2>1, <3>2 DEF HasBeenAt
  <2>3. \A s \in TaskIds : s # t => HasBeenAt(s)' = HasBeenAt(s)
    BY <2>1 DEF HasBeenAt, TypeOK
  <2>4. ASSUME NEW u \in Units PROVE Good(u)'
    <3>1. CASE u = here
      <4>1. t \in Came(u)' /\ image'[u] = task'[t].image
        BY <2>1, <2>2, <3>1 DEF TypeOK
      <4> QED
        BY <4>1
    <3>2. CASE u # here
      <4>1. Came(u)' = Came(u) /\ image'[u] = image[u]
        BY <2>1, <2>2, <2>3, <3>2 DEF TypeOK
      <4>2. Good(u) /\ \A s \in TaskIds : task'[s].image = task[s].image
        BY <1>1, <2>1
      <4> HIDE DEF here
      <4> QED
        BY <4>1, <4>2
    <3> QED
      BY <3>1, <3>2
  <2> QED
    BY <1>2, <2>4
<1>5. CASE Restart
  <2>1. \A t \in TaskIds : HasBeenAt(t)' = {}
    BY <1>5 DEF Restart, HasBeenAt
  <2>2. ASSUME NEW u \in Units PROVE Good(u)'
    <3>1. Came(u)' = {} /\ image'[u] = SeedImage
      BY <1>5, <2>1 DEF Restart
    <3> QED
      BY <3>1
  <2> QED
    BY <1>2, <2>2
<1>6. ASSUME UNCHANGED <<image, position>>,
             \A t \in TaskIds : position[t] # 1 =>
                task'[t].units = task[t].units /\ task'[t].image = task[t].image
      PROVE  UnitsHoldAnUpgrade'
  <2>1. ASSUME NEW t \in TaskIds
        PROVE  /\ HasBeenAt(t)' = HasBeenAt(t)
               /\ HasBeenAt(t) # {} => task'[t].image = task[t].image
    <3>1. CASE position[t] = 1
      BY <1>6, <3>1 DEF HasBeenAt
    <3>2. CASE position[t] # 1
      BY <1>6, <3>2 DEF HasBeenAt
    <3> QED
      BY <3>1, <3>2
  <2> QED
    BY <1>3, <1>6, <2>1
<1>7. CASE UNCHANGED <<image, position, task>>
  BY <1>6, <1>7
<1>8. ASSUME NEW t \in TaskIds, NEW rec, Record(t, rec), UNCHANGED <<image, position>>
      PROVE  UnitsHoldAnUpgrade'
  <2>1. position[t] = 1
    BY <1>8 DEF Record, IInv, Told
  <2>2. \A s \in TaskIds : s # t => task'[s] = task[s]
    BY <1>8 DEF Record, TypeOK
  <2> QED
    BY <1>6, <1>8, <2>1, <2>2
<1>9. ASSUME NEW t \in TaskIds, FinishTask(t) \/ FailTask(t)
      PROVE  UnitsHoldAnUpgrade'
  <2>1. PICK status \in {"SUCCESS", "FAILED"} : task' = [task EXCEPT ![t].status = status]
    BY <1>9 DEF FinishTask, FailTask, EndTask
  <2>2. \A s \in TaskIds : task'[s].units = task[s].units /\ task'[s].image = task[s].image
    BY <2>1 DEF TypeOK, Tasks
  <2> QED
    BY <1>6, <1>9, <2>2 DEF FinishTask, FailTask, EndTask
<1>10. ASSUME NEW c \in Clients, ChangeRequest(c) PROVE UnitsHoldAnUpgrade'
  BY <1>7, <1>10 DEF ChangeRequest, UpdateResources, UpdateStorage
<1>11. ASSUME NEW c \in Clients, TaskRequest(c) PROVE UnitsHoldAnUpgrade'
  BY <1>8, <1>11 DEF TaskRequest, CreateUpgrade, CreateBackup
<1>12. ASSUME NEW t \in TaskIds, Work(t) PROVE UnitsHoldAnUpgrade'
  BY <1>4, <1>7, <1>9, <1>12 DEF Work, StartWorker
<1>13. CASE UNCHANGED vars
  BY <1>7, <1>13 DEF vars
<1> QED
  BY <1>5, <1>10, <1>11, <1>12, <1>13 DEF Next

-----------------------------------------------------------------------------
(* Who is shown what                                                        *)

\* Whom the server takes each of the agent's headers for.
Caller(h, role, user) ==
    /\ h \in Headers
    /\ CurrentUser[h].role = role /\ CurrentUser[h].user = user
    /\ Known(h) <=> role # "none"
    /\ IsAdmin(h) <=> role = "admin"

LEMMA CallersKnown ==
    /\ \A id \in Identities :
          /\ id.user \in Users /\ id.role \in {"admin", "user"}
          /\ id.role = "user" => Caller(IdentityHeaders(id), "user", id.user)
          /\ id.role = "admin" /\ id.user = AdminName => Caller(IdentityHeaders(id), "none", NoUser)
          /\ id.role = "admin" /\ id.user # AdminName => Caller(IdentityHeaders(id), "admin", NoUser)
    /\ Caller(SystemHeaders, "admin", NoUser)
    /\ \A user \in Users : Caller(UserHeaders(user), "user", user)
<1>1. ASSUME NEW h \in Headers, NEW role, NEW user,
             CurrentUser[h] = [role |-> role, user |-> user],
             role = "none" => user = NoUser
      PROVE  Caller(h, role, user)
  <2>1. CurrentUser[h].role = role /\ CurrentUser[h].user = user
    BY <1>1
  <2>2. Unauthorized.role = "none"
    BY DEF Unauthorized
  <2>3. role # "none" => CurrentUser[h] # Unauthorized
    BY <2>1, <2>2
  <2>4. role = "none" => CurrentUser[h] = Unauthorized
    BY <1>1 DEF Unauthorized
  <2> QED
    BY <2>1, <2>3, <2>4 DEF Caller, Known, IsAdmin
<1>2. ASSUME NEW id \in Identities
      PROVE  /\ id.user \in Users /\ id.role \in {"admin", "user"}
             /\ IdentityHeaders(id) \in Headers
             /\ IdentityHeaders(id).token = id.role /\ IdentityHeaders(id).role = id.role
             /\ IdentityHeaders(id).actor = id.user
  BY DEF Identities, IdentityHeaders, Headers
<1>3. ASSUME NEW id \in Identities
      PROVE  /\ id.role = "user" =>
                   CurrentUser[IdentityHeaders(id)] = [role |-> "user", user |-> id.user]
             /\ id.role = "admin" /\ id.user = AdminName =>
                   CurrentUser[IdentityHeaders(id)] = [role |-> "none", user |-> NoUser]
             /\ id.role = "admin" /\ id.user # AdminName =>
                   CurrentUser[IdentityHeaders(id)] = [role |-> "admin", user |-> NoUser]
  BY <1>2 DEF CurrentUser, AdminCall, Unauthorized
<1>4. SystemHeaders \in Headers /\ CurrentUser[SystemHeaders] = [role |-> "admin", user |-> NoUser]
  BY DEF Headers, CurrentUser, AdminCall, SystemHeaders
<1>5. ASSUME NEW user \in Users
      PROVE  /\ UserHeaders(user) \in Headers
             /\ CurrentUser[UserHeaders(user)] = [role |-> "user", user |-> user]
  BY DEF Headers, CurrentUser, AdminCall, UserHeaders
<1>6. ASSUME NEW id \in Identities
      PROVE  /\ id.role = "user" => Caller(IdentityHeaders(id), "user", id.user)
             /\ id.role = "admin" /\ id.user = AdminName =>
                   Caller(IdentityHeaders(id), "none", NoUser)
             /\ id.role = "admin" /\ id.user # AdminName =>
                   Caller(IdentityHeaders(id), "admin", NoUser)
  BY <1>1, <1>2, <1>3
<1> QED
  BY <1>1, <1>2, <1>4, <1>5, <1>6

\* Nobody is let in who is neither an administrator nor a user.
LEMMA CallerNamed ==
    ASSUME NEW h \in Headers
    PROVE  Known(h) /\ ~IsAdmin(h) => CurrentUser[h].user \in Users
<1>1. CASE \E id \in Identities : h = IdentityHeaders(id)
  BY <1>1, CallersKnown DEF Caller
<1>2. CASE h = SystemHeaders
  BY <1>2, CallersKnown DEF Caller
<1>3. CASE \E user \in Users : h = UserHeaders(user)
  BY <1>3, CallersKnown DEF Caller
<1> QED
  BY <1>1, <1>2, <1>3 DEF Headers

\* The routes put the same question in different words.
LEMMA RoutesAgree ==
    ASSUME NEW h \in Headers, NEW s \in Services
    PROVE  /\ MayUse(h, s) <=> s \in ServicesListed(h, NoUser)
           /\ MayUse(h, s) <=> HistoryShown(h, s)
           /\ MayUse(h, s) <=> BackupListed(h, s)
           /\ MayUse(h, s) <=> s \in MetricServices(h, "none")
<1>1. Known(h) /\ ~IsAdmin(h) => CurrentUser[h].user # NoUser
  BY CallerNamed, OwnersAssumption
<1> QED
  BY <1>1 DEF MayUse, ServicesListed, MayAskFor, HistoryShown, BackupListed,
              BackupMatchesUser, ServiceMatchesUser,
              MetricServices

\* A unit is found in the one service it belongs to.
LEMMA UnitPlaced ==
    ASSUME NEW s \in Services, NEW u \in UnitsOfService(s)
    PROVE  u \in Units /\ ServiceOfUnit[u] = s
<1>1. PICK k \in Children : ServiceOf[k] = s /\ u \in UnitSet(k)
  BY DEF UnitsOfService
<1>2. \A l \in Children : u \in UnitSet(l) => l = k
  BY <1>1, SeedAssumption DEF Owned
<1>3. (CHOOSE l \in Children : u \in UnitSet(l)) = k
  BY <1>1, <1>2
<1> QED
  BY <1>1, <1>3, UnitsKnown DEF ServiceOfUnit

\* What a task is about stays what it was, unless the task is made or wiped.
LEMMA SamePlaced ==
    ASSUME NEW t \in TaskIds, Placed(t), task'[t].units = task[t].units,
           task'[t].service = task[t].service, task'[t].kind = task[t].kind,
           \A u \in Units : backup'[t][u] # "none" => backup[t][u] # "none"
    PROVE  Placed(t)'
<1>1. Concerns(t)' \subseteq Concerns(t)
  BY DEF Concerns
<1> QED
  BY <1>1 DEF Placed, UnitsOfService

LEMMA PlacedInit == Init => AllPlaced
<1> SUFFICES ASSUME Init, NEW t \in TaskIds PROVE Concerns(t) = {}
  BY DEF AllPlaced, Placed
<1>1. task[t].units = <<>> /\ \A u \in Units : backup[t][u] = "none"
  BY NoTaskTyped DEF Init, NoTasks, NoBackups
<1> QED
  BY <1>1 DEF Concerns, Range

LEMMA PlacedStep ==
    ASSUME TypeOK, TypeOK', IInv, AllPlaced, [Next]_vars
    PROVE  AllPlaced'
<1> SUFFICES ASSUME NEW t \in TaskIds PROVE Placed(t)'
  BY DEF AllPlaced
<1>0. Placed(t)
  BY DEF AllPlaced
<1> USE DEF stored, tasks
<1>1. CASE UNCHANGED <<task, backup>>
  BY <1>0, <1>1, SamePlaced
<1>2. ASSUME NEW c \in Clients, NEW ch \in Changes, UpdateResources(c, ch) \/ UpdateStorage(c, ch)
      PROVE  Placed(t)'
  BY <1>1, <1>2 DEF UpdateResources, UpdateStorage
<1>3. ASSUME NEW c \in Clients, NEW r \in TaskIds, NEW k \in Children, NEW new \in Images,
             NEW units \in {UnitsOf[k]} \cup {<<u>> : u \in UnitSet(k)},
             CreateUpgrade(c, r, k, units, new)
      PROVE  Placed(t)'
  <2>1. CASE t # r
    BY <1>0, <1>3, <2>1, SamePlaced DEF CreateUpgrade, Record, TypeOK
  <2>2. CASE t = r
    <3>1. /\ task'[t].kind = "upgrade" /\ task'[t].service = ServiceOf[k]
          /\ task'[t].units = units /\ backup' = backup /\ task[t].kind = "none"
      BY <1>3, <2>2 DEF CreateUpgrade, Record, TypeOK
    <3>2. \A u \in Units : backup'[t][u] = "none"
      BY <3>1 DEF IInv, Told
    <3>3. Range(units) \subseteq UnitSet(k)
      BY DEF UnitSet, Range
    <3>4. UnitSet(k) \subseteq UnitsOfService(ServiceOf[k]) /\ ServiceOf[k] \in Services
      BY SeedAssumption DEF ValidSeed, UnitsOfService
    <3>5. Concerns(t)' \subseteq UnitSet(k)
      BY <3>1, <3>2, <3>3 DEF Concerns
    <3> QED
      BY <3>1, <3>4, <3>5 DEF Placed, UnitsOfService
  <2> QED
    BY <2>1, <2>2
<1>4. ASSUME NEW c \in Clients, NEW r \in TaskIds, NEW s \in Services,
             NEW units \in BackupUnits(s), CreateBackup(c, r, s, units)
      PROVE  Placed(t)'
  <2>1. CASE t # r
    BY <1>0, <1>4, <2>1, SamePlaced DEF CreateBackup, Record, TypeOK
  <2>2. CASE t = r
    <3> DEFINE rec == [NoTask EXCEPT !.kind = "backup", !.status = "RUNNING", !.service = s]
    <3>1. rec.kind = "backup" /\ rec.service = s /\ rec.units = <<>>
      BY DEF NoTask
    <3> HIDE DEF rec
    <3>2. task'[t] = rec /\ \A u \in Units : backup'[t][u] # "none" => u \in units
      BY <1>4, <2>2 DEF CreateBackup, Record, TypeOK, rec
    <3>3. units \subseteq UnitsOfService(s)
      BY DEF BackupUnits
    <3>4. Range(<<>>) = {}
      BY DEF Range
    <3>5. Concerns(t)' \subseteq units
      BY <3>1, <3>2, <3>4 DEF Concerns
    <3> QED
      BY <3>1, <3>2, <3>3, <3>5 DEF Placed, UnitsOfService
  <2> QED
    BY <2>1, <2>2
<1>5. ASSUME NEW r \in TaskIds, StartWorker(r) \/ UpgradeUnit(r)
      PROVE  Placed(t)'
  BY <1>1, <1>5 DEF StartWorker, UpgradeUnit
<1>6. ASSUME NEW r \in TaskIds, FinishTask(r) \/ FailTask(r)
      PROVE  Placed(t)'
  <2>1. PICK status \in {"SUCCESS", "FAILED"}, record \in {"succeeded", "failed"} :
           EndTask(r, status, record)
    BY <1>6 DEF FinishTask, FailTask
  <2>2. /\ task'[t].units = task[t].units /\ task'[t].service = task[t].service
        /\ task'[t].kind = task[t].kind
    BY <2>1 DEF EndTask, TypeOK, Tasks
  <2>3. \A u \in Units : backup'[t][u] # "none" => backup[t][u] # "none"
    BY <2>1 DEF EndTask, TypeOK
  <2> QED
    BY <1>0, <2>2, <2>3, SamePlaced
<1>7. CASE Restart
  <2>1. task'[t].units = <<>> /\ \A u \in Units : backup'[t][u] = "none"
    BY <1>7, NoTaskTyped DEF Restart, NoTasks, NoBackups
  <2>2. Concerns(t)' = {}
    BY <2>1 DEF Concerns, Range
  <2> QED
    BY <2>2 DEF Placed
<1>8. CASE UNCHANGED vars
  BY <1>1, <1>8 DEF vars
<1> QED
  BY <1>2, <1>3, <1>4, <1>5, <1>6, <1>7, <1>8 DEF Next, ChangeRequest, TaskRequest, Work

-----------------------------------------------------------------------------
(* Theorems                                                                 *)

\* Sizes, images, tasks and records are well typed, whatever requests and
\* threads overlap.
THEOREM TypeCorrect == Spec => []TypeOK
  BY TypeInit, TypeStep, PTL DEF Spec

\* The pieces of every task tell one story: status, records, thread and position.
THEOREM InvariantCorrect == Spec => []IInv
  BY TypeCorrect, ToldInit, ToldStep, PTL DEF Spec

\* What a task is about belongs to the service it names.
THEOREM PlacesCorrect == Spec => []AllPlaced
  BY TypeCorrect, InvariantCorrect, PlacedInit, PlacedStep, PTL DEF Spec

\* The records of a backup say what its task says, an upgrade that ended well
\* has been at all its units, and a task runs as long as its thread
\* (create_service_backup_task, _run_*_task, _mark_task_failed).
THEOREM AgreementCorrect == Spec => []TasksAgree
<1>1. IInv => TasksAgree
  BY DEF IInv, Told, TasksAgree
<1> QED
  BY <1>1, InvariantCorrect, PTL

\* A unit holds the image of an upgrade that has come to it, whatever upgrades
\* overlap, fail half way or are overtaken.
THEOREM ImagesCorrect == Spec => []UnitsHoldAnUpgrade
<1>1. Init => UnitsHoldAnUpgrade
  <2> SUFFICES ASSUME Init PROVE UnitsHoldAnUpgrade
    OBVIOUS
  <2>1. \A t \in TaskIds : HasBeenAt(t) = {}
    BY DEF Init, HasBeenAt
  <2>2. ASSUME NEW u \in Units
        PROVE  {t \in TaskIds : u \in HasBeenAt(t)} = {} /\ image[u] = SeedImage
    BY <2>1 DEF Init
  <2> QED
    BY <2>2 DEF UnitsHoldAnUpgrade
<1> QED
  BY <1>1, TypeCorrect, InvariantCorrect, CameTo, PTL DEF Spec

\* The units of a child service are alike at all times, so that the first one
\* speaks for all, and the disks of the hosts show the volumes as they are
\* (update_service_resources, update_service_storage).
THEOREM SizesCorrect == Spec => []SizesSpeakForAll
<1>1. Init => SizesSpeakForAll
  BY SeedAssumption DEF Init, SizesSpeakForAll, SameSize
<1> QED
  BY <1>1, TypeCorrect, SizesStep, PTL DEF Spec

\* A change that a check finds nothing against fits, whatever the seed, the
\* hosts and the changes before it (_resource_capacity_errors,
\* _storage_capacity_errors).
THEOREM ChecksCorrect == Spec => []CheckedFits
  BY TypeCorrect, SizesCorrect, ChecksSuffice, PTL

\* A client is told that backups run exactly while a task backs up one of the
\* units it asks about, or the seed says so.
THEOREM HintsCorrect == Spec => []HintsFollowTasks
<1>1. TypeOK /\ IInv => HintsFollowTasks
  <2> SUFFICES ASSUME TypeOK, IInv, NEW s \in Services, NEW target \in BackupUnits(s)
               PROVE  RunningBackups(target) # {} <=>
                         \/ target \cap SeedBackups # {}
                         \/ \E t \in TaskIds : task[t].status = "RUNNING"
                                                 /\ \E u \in target : backup[t][u] # "none"
    BY DEF HintsFollowTasks, BackupHints
  <2>1. target \subseteq Units
    <3>1. ASSUME NEW k \in Children, NEW u \in UnitSet(k) PROVE u \in Units
      <4>1. UnitsOf[k] \in Seq(Units)
        BY SeedAssumption DEF ValidSeed
      <4>2. PICK i \in DOMAIN UnitsOf[k] : u = UnitsOf[k][i]
        BY Zenon DEF UnitSet, Range
      <4> QED
        BY <4>1, <4>2
    <3>2. UnitsOfService(s) \subseteq Units
      BY <3>1 DEF UnitsOfService
    <3> QED
      BY <3>2 DEF BackupUnits
  <2>2. \A t \in TaskIds, u \in target :
           backup[t][u] = "running" <=> task[t].status = "RUNNING" /\ backup[t][u] # "none"
    BY <2>1 DEF IInv, Told, Outcomes
  <2> QED
    BY <2>2 DEF RunningBackups
<1> QED
  BY <1>1, TypeCorrect, InvariantCorrect, PTL

\* Six routes decide alike who is shown a task, the service it names, the
\* metrics of its units and their backup records, and who is told of a backup
\* while it runs (ensure_task_access, list_services, list_latest_metrics,
\* list_unit_metric_history, list_backups, describe_backup_task_capabilities).
THEOREM ViewsCorrect == Spec => []SeenAlike
<1>1. TypeOK /\ AllPlaced => SeenAlike
  <2> SUFFICES ASSUME TypeOK, AllPlaced, NEW h \in Headers, NEW t \in TaskIds,
                      NEW u \in Concerns(t)
               PROVE  LET s == ServiceOfUnit[u] IN
                      /\ TaskShown(h, t) <=> s \in ServicesListed(h, NoUser)
                      /\ TaskShown(h, t) <=> HistoryShown(h, s)
                      /\ TaskShown(h, t) <=> s \in MetricServices(h, "none")
                      /\ backup[t][u] # "none" =>
                            (TaskShown(h, t) <=> <<t, u>> \in BackupsShown(h))
                      /\ backup[t][u] = "running" =>
                            (TaskShown(h, t) <=> u \in BackupHints(h, s, {u}))
    BY DEF SeenAlike
  <2>1. task[t].kind # "none" /\ task[t].service \in Services
    BY DEF AllPlaced, Placed
  <2>2. ServiceOfUnit[u] = task[t].service /\ u \in Units
    BY <2>1, UnitPlaced DEF AllPlaced, Placed
  <2>3. TaskShown(h, t) <=> MayUse(h, task[t].service)
    BY <2>1 DEF TaskShown, MayUse
  <2>4. backup[t][u] # "none" =>
           (<<t, u>> \in BackupsShown(h) <=> BackupListed(h, ServiceOfUnit[u]))
    BY <2>2 DEF BackupsShown
  <2>5. backup[t][u] = "running" => u \in RunningBackups({u})
    BY DEF RunningBackups
  <2> QED
    BY <2>1, <2>2, <2>3, <2>4, <2>5, RoutesAgree DEF BackupHints
<1> QED
  BY <1>1, TypeCorrect, PlacesCorrect, PTL

\* Whoever renews a snapshot fetches the same for it: the loop, in the name of
\* the agent, and every administrator get the whole platform, and a user gets
\* the same own services from the list, filtered or not, and from the details
\* of the user (_headers_for_paths, list_services, get_user).
THEOREM SnapshotsAlike ==
    /\ \A id \in Identities : id.role = "admin" /\ id.user # AdminName =>
          /\ ServicesListed(IdentityHeaders(id), NoUser) = Services
          /\ ServicesListed(SystemHeaders, NoUser) = Services
    /\ \A id \in Identities : id.role = "user" =>
          LET listed == ServicesListed(UserHeaders(id.user), NoUser) IN
          /\ ServicesListed(IdentityHeaders(id), NoUser) = listed
          /\ ServicesListed(IdentityHeaders(id), id.user) = listed
          /\ UserServices(IdentityHeaders(id), id.user) = listed
<1>1. ASSUME NEW id \in Identities, id.role = "admin", id.user # AdminName
      PROVE  /\ ServicesListed(IdentityHeaders(id), NoUser) = Services
             /\ ServicesListed(SystemHeaders, NoUser) = Services
  BY <1>1, CallersKnown DEF Caller, ServicesListed, MayAskFor
<1>2. ASSUME NEW id \in Identities, id.role = "user"
      PROVE  LET listed == ServicesListed(UserHeaders(id.user), NoUser) IN
             /\ ServicesListed(IdentityHeaders(id), NoUser) = listed
             /\ ServicesListed(IdentityHeaders(id), id.user) = listed
             /\ UserServices(IdentityHeaders(id), id.user) = listed
  <2>1. IdentityHeaders(id) = UserHeaders(id.user)
    BY <1>2 DEF IdentityHeaders, UserHeaders
  <2>2. Caller(UserHeaders(id.user), "user", id.user)
    BY CallersKnown
  <2> QED
    BY <2>1, <2>2 DEF Caller, ServicesListed, MayAskFor, UserServices, MayAskAbout
<1> QED
  BY <1>1, <1>2

\* Whom the agent lets query the platform's data is let in by the server, and
\* nobody else is, but for an administrator without a name of his own: he
\* passes the agent and is turned away by the server (query_dbaas_host_data,
\* require_admin_user, get_current_user).
THEOREM PlatformGuarded ==
    \A id \in Identities :
        PlatformShown(IdentityHeaders(id)) <=> PlatformQueried(id) /\ id.user # AdminName
  BY CallersKnown DEF Caller, PlatformShown, PlatformQueried

\* The store implements what clients rely on (DbaasTasks): a task is accepted
\* once, runs, and ends once, for good; after a restart nobody hears of it.
THEOREM ContractImplemented == Spec => DbaasSpec
<1> DEFINE remote == [t \in TaskIds |-> Remote(t)]
<1>1. Init => Dbaas!Init
  BY NoTaskTyped DEF Init, Dbaas!Init, Remote, Names, NoTasks
<1>2. ASSUME TypeOK, TypeOK', IInv, IInv', Next
      PROVE  Dbaas!Next \/ UNCHANGED remote
  <2> USE DEF stored, tasks
  <2>1. ASSUME UNCHANGED <<task, gone>> PROVE UNCHANGED remote
    BY <2>1 DEF Remote
  <2>2. ASSUME NEW t \in TaskIds, NEW rec, Record(t, rec), rec.kind # "none",
               rec.status = "RUNNING", UNCHANGED gone
        PROVE  Dbaas!Next
    <3>1. /\ task[t].kind = "none" /\ gone[t] = "NONE" /\ task'[t] = rec
          /\ \A s \in TaskIds : s # t => task'[s] = task[s]
      BY <1>2, <2>2 DEF Record, TypeOK
    <3>2. Remote(t) = "none" /\ Remote(t)' = "running"
      BY <2>2, <3>1 DEF Remote, Names
    <3>3. \A s \in TaskIds : s # t => Remote(s)' = Remote(s)
      BY <2>2, <3>1 DEF Remote
    <3>4. remote' = [remote EXCEPT ![t] = "running"]
      BY <3>2, <3>3
    <3> QED
      BY <3>2, <3>4 DEF Dbaas!Next, Dbaas!Accept
  <2>3. ASSUME NEW t \in TaskIds, NEW status \in {"SUCCESS", "FAILED"}, worker[t] = "on",
               task' = [task EXCEPT ![t].status = status], UNCHANGED gone
        PROVE  Dbaas!Next
    <3>1. task[t].status = "RUNNING" /\ task[t].kind # "none"
      BY <1>2, <2>3 DEF IInv, Told
    <3>2. /\ task'[t].kind = task[t].kind /\ task'[t].status = status
          /\ \A s \in TaskIds : s # t => task'[s] = task[s]
      BY <1>2, <2>3 DEF TypeOK, Tasks
    <3>3. Remote(t) = "running" /\ Remote(t)' \in {"succeeded", "failed"}
      BY <3>1, <3>2 DEF Remote, Names
    <3>4. \A s \in TaskIds : s # t => Remote(s)' = Remote(s)
      BY <2>3, <3>2 DEF Remote
    <3>5. remote' = [remote EXCEPT ![t] = Remote(t)']
      BY <3>4
    <3> QED
      BY <3>3, <3>5 DEF Dbaas!Next, Dbaas!End
  <2>4. ASSUME NEW c \in Clients, ChangeRequest(c) PROVE UNCHANGED remote
    BY <2>1, <2>4 DEF ChangeRequest, UpdateResources, UpdateStorage
  <2>5. ASSUME NEW c \in Clients, TaskRequest(c) PROVE Dbaas!Next
    <3>1. \A s \in Services :
            /\ [NoTask EXCEPT !.kind = "backup", !.status = "RUNNING", !.service = s].kind = "backup"
            /\ [NoTask EXCEPT !.kind = "backup", !.status = "RUNNING", !.service = s].status = "RUNNING"
      BY DEF NoTask
    <3> QED
      BY <2>2, <2>5, <3>1 DEF TaskRequest, CreateUpgrade, CreateBackup
  <2>6. ASSUME NEW t \in TaskIds, Work(t) PROVE Dbaas!Next \/ UNCHANGED remote
    <3>1. CASE StartWorker(t) \/ UpgradeUnit(t)
      BY <2>1, <3>1 DEF StartWorker, UpgradeUnit
    <3>2. CASE FinishTask(t)
      BY <2>3, <3>2 DEF FinishTask, EndTask
    <3>3. CASE FailTask(t)
      BY <2>3, <3>3 DEF FailTask, EndTask
    <3> QED
      BY <2>6, <3>1, <3>2, <3>3 DEF Work
  <2>7. CASE Restart
    <3>1. ASSUME NEW t \in TaskIds PROVE Remote(t)' = Remote(t)
      BY <2>7, NoTaskTyped DEF Restart, NoTasks, Remote
    <3> QED
      BY <3>1
  <2> QED
    BY <1>2, <2>4, <2>5, <2>6, <2>7 DEF Next
<1>3. UNCHANGED vars => UNCHANGED remote
  BY DEF vars, tasks, Remote
<1> QED
  BY <1>1, <1>2, <1>3, TypeCorrect, InvariantCorrect, PTL
     DEF Spec, DbaasSpec, Dbaas!Spec

=============================================================================
