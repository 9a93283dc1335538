----------------------------- MODULE SnapshotProofs -----------------------------
(***************************************************************************)
(* Proofs about SnapshotSync, for any workers, any kinds and any number of *)
(* fetches.                                                                *)
(*                                                                         *)
(* The argument: the refresh lock keeps the refreshes and deletions of a   *)
(* guarded kind apart (LockKept), so that the fetch somebody is about to   *)
(* write is the last one there is (Counted), and the data file is never    *)
(* behind what is vouched for (Ahead).  What a thread noted before its     *)
(* fetch still describes the files when it fails (Written).  The pair is   *)
(* whole but for what the cleanup is half way through (AllWhole), and what *)
(* the cleanup has found stays out of time unless a refresh wrote (Swept). *)
(***************************************************************************)
EXTENDS SnapshotSync, TLAPS

Holding  == {"fetch", "data", "meta", "failed", "dropped", "unlink", "purge"}
Between  == {"meta", "dropped", "unlink", "purge"}
Sweeping == {"read", "gone", "lone", "stale", "alone", "orphans"}

\* Whoever is in the middle of a refresh or a deletion holds the lock.
LockKept == Guarded => \A w \in Threads : lock = w <=> pc[w] \in Holding

\* The loop of a series only sweeps, the others never do; a series notes
\* nothing before its fetch, and only a series deletes before it.
KindFits ==
    /\ kind \in Series => pc[Loop] \in Sweeping \cup {"idle"}
    /\ kind \notin Series => pc[Loop] \notin Sweeping
    /\ kind \in Series => \A w \in Threads : current[w] = 0
    /\ \A w \in Threads : pc[w] = "purge" => kind \in Series

\* What waits to be written is the last fetch.
Counted ==
    Guarded =>
        /\ data <= fetched /\ meta.of <= fetched
        /\ \A w \in Threads : current[w] <= fetched
        /\ \A w \in Threads : pc[w] \in {"data", "meta"} => got[w] = fetched /\ fetched # 0

\* What the thread that holds the lock knows of the files.
Written ==
    Guarded => \A w \in Threads :
        /\ pc[w] = "meta" => data = got[w] \/ (data = 0 /\ torn /\ kind \in Series)
        /\ pc[w] \in {"dropped", "unlink", "purge"} => data = 0
        /\ pc[w] \in {"fetch", "data", "failed"} /\ current[w] # 0 /\ ~torn =>
              meta.status = "fresh" /\ meta.of = current[w]

\* The data file is never behind a fetch that is or will be vouched for.
Ahead ==
    Guarded /\ data # 0 =>
        /\ meta.status = "fresh" => data >= meta.of
        /\ \A w \in Threads : pc[w] \in {"fetch", "data", "meta", "failed"} => data >= current[w]

Pair ==
    /\ meta.status = "fresh" <=> data # 0
    /\ meta.status = "fresh" => meta.of = data

\* The pair, or what the cleanup may have left of it so far.
Whole ==
    \/ Pair
    \/ pc[Loop] \in {"alone", "orphans"} /\ meta = NoMeta
    \/ pc[Loop] = "lone" /\ data = 0

AllWhole == Guarded /\ ~torn /\ (\A w \in Threads : pc[w] \notin Between) => Whole

\* What the cleanup found out holds until a refresh writes.
Swept ==
    /\ now <= expired
    /\ kind \in Series /\ ~touched =>
          /\ pc[Loop] = "stale" => meta.of <= now
          /\ pc[Loop] = "lone" => data = 0 \/ meta.of <= now
          /\ pc[Loop] \in {"gone", "alone"} => meta = NoMeta

-----------------------------------------------------------------------------
(* Types                                                                    *)

\* Every step leaves the files, the clock and the lock well typed.
LEMMA FilesStep ==
    ASSUME FilesOK, ThreadsOK, [Next]_vars
    PROVE  FilesOK'
<1> USE ThreadsAssumption, KindsAssumption, FetchAssumption DEF files,
   clock, lease, threads, sweep, Threads, TakeLock, FreeLock, GoTo,
   EndRefresh, AfterRefresh, Answered, Fetches, Metas, Points, Jobs, NoMeta,
   ErrorMeta, FreshMeta, FilesOK, ThreadsOK
<1>1. CASE RenewLease
  BY <1>1 DEF RenewLease
<1>2. CASE IdleTimeout
  BY <1>2 DEF IdleTimeout
<1>3. CASE Tick
  BY <1>3 DEF Tick
<1>4. CASE BeginSweep
  BY <1>4 DEF BeginSweep
<1>5. CASE SweepRead
  BY <1>5 DEF SweepRead
<1>6. CASE SweepData
  BY <1>6 DEF SweepData
<1>7. CASE SweepMeta
  BY <1>7 DEF SweepMeta
<1>8. CASE SweepOrphans
  BY <1>8 DEF SweepOrphans
<1>9. CASE TtlElapses
  BY <1>9 DEF TtlElapses
<1>10. CASE Crash
  BY <1>10 DEF Crash
<1>11. ASSUME NEW w \in Threads, LockTimesOut(w) PROVE FilesOK'
  BY <1>11 DEF LockTimesOut
<1>12. ASSUME NEW w \in Threads, FindRefreshed(w) PROVE FilesOK'
  BY <1>12 DEF FindRefreshed
<1>13. ASSUME NEW w \in Threads, BeginRefresh(w) PROVE FilesOK'
  BY <1>13 DEF BeginRefresh
<1>14. ASSUME NEW w \in Threads, FetchSucceeds(w) PROVE FilesOK'
  BY <1>14 DEF FetchSucceeds
<1>15. ASSUME NEW w \in Threads, FetchFails(w) PROVE FilesOK'
  BY <1>15 DEF FetchFails
<1>16. ASSUME NEW w \in Threads, ReplaceData(w) PROVE FilesOK'
  BY <1>16 DEF ReplaceData
<1>17. ASSUME NEW w \in Threads, ReplaceMeta(w) PROVE FilesOK'
  BY <1>17 DEF ReplaceMeta
<1>18. ASSUME NEW w \in Threads, ReplaceFails(w) PROVE FilesOK'
  BY <1>18 DEF ReplaceFails
<1>19. ASSUME NEW w \in Threads, KeepFresh(w) PROVE FilesOK'
  BY <1>19 DEF KeepFresh
<1>20. ASSUME NEW w \in Threads, DropData(w) PROVE FilesOK'
  BY <1>20 DEF DropData
<1>21. ASSUME NEW w \in Threads, WriteUnavailable(w) PROVE FilesOK'
  BY <1>21 DEF WriteUnavailable
<1>22. ASSUME NEW w \in Threads, WriteMetaFails(w) PROVE FilesOK'
  BY <1>22 DEF WriteMetaFails
<1>23. ASSUME NEW w \in Threads, DeleteData(w) PROVE FilesOK'
  BY <1>23 DEF DeleteData
<1>24. ASSUME NEW w \in Threads, DeleteMeta(w) PROVE FilesOK'
  BY <1>24 DEF DeleteMeta
<1>25. ASSUME NEW w \in Threads, BeginSeries(w) PROVE FilesOK'
  BY <1>25 DEF BeginSeries
<1>26. ASSUME NEW w \in Threads, PurgeMeta(w) PROVE FilesOK'
  BY <1>26 DEF PurgeMeta
<1>27. ASSUME NEW w \in Threads, SeriesFails(w) PROVE FilesOK'
  BY <1>27 DEF SeriesFails
<1>28. ASSUME NEW w \in Threads, DropMeta(w) PROVE FilesOK'
  BY <1>28 DEF DropMeta
<1>29. ASSUME NEW w \in Workers, StartPrewarm(w) PROVE FilesOK'
  BY <1>29 DEF StartPrewarm
<1>30. ASSUME NEW w \in Workers, StartChat(w) PROVE FilesOK'
  BY <1>30 DEF StartChat
<1>31. ASSUME NEW w \in Workers, EndChat(w) PROVE FilesOK'
  BY <1>31 DEF EndChat
<1>32. ASSUME NEW w \in Workers, QueryRefreshed(w) PROVE FilesOK'
  BY <1>32 DEF QueryRefreshed
<1>33. ASSUME NEW w \in Workers, QueryFresh(w) PROVE FilesOK'
  BY <1>33 DEF QueryFresh
<1>34. ASSUME NEW w \in Workers, QueryMissing(w) PROVE FilesOK'
  BY <1>34 DEF QueryMissing
<1>35. ASSUME NEW w \in Workers, QueryUnavailable(w) PROVE FilesOK'
  BY <1>35 DEF QueryUnavailable
<1>36. ASSUME NEW w \in Workers, RunJq(w) PROVE FilesOK'
  BY <1>36 DEF RunJq
<1>37. CASE UNCHANGED vars
  BY <1>37 DEF vars
<1> QED
  BY <1>1, <1>2, <1>3, <1>4, <1>5, <1>6, <1>7, <1>8, <1>9, <1>10, <1>11,
     <1>12, <1>13, <1>14, <1>15, <1>16, <1>17, <1>18, <1>19, <1>20, <1>21,
     <1>22, <1>23, <1>24, <1>25, <1>26, <1>27, <1>28, <1>29, <1>30, <1>31,
     <1>32, <1>33, <1>34, <1>35, <1>36, <1>37 DEF Next, Refresh, Sweep,
     Query

\* ... and the threads ...
LEMMA ThreadsStep ==
    ASSUME FilesOK, ThreadsOK, [Next]_vars
    PROVE  ThreadsOK'
<1> USE ThreadsAssumption, KindsAssumption, FetchAssumption DEF files,
   clock, lease, threads, sweep, Threads, TakeLock, FreeLock, GoTo,
   EndRefresh, AfterRefresh, Answered, Fetches, Metas, Points, Jobs, NoMeta,
   ErrorMeta, FreshMeta, FilesOK, ThreadsOK
<1>1. CASE RenewLease
  BY <1>1 DEF RenewLease
<1>2. CASE IdleTimeout
  BY <1>2 DEF IdleTimeout
<1>3. CASE Tick
  BY <1>3 DEF Tick
<1>4. CASE BeginSweep
  BY <1>4 DEF BeginSweep
<1>5. CASE SweepRead
  BY <1>5 DEF SweepRead
<1>6. CASE SweepData
  BY <1>6 DEF SweepData
<1>7. CASE SweepMeta
  BY <1>7 DEF SweepMeta
<1>8. CASE SweepOrphans
  BY <1>8 DEF SweepOrphans
<1>9. CASE TtlElapses
  BY <1>9 DEF TtlElapses
<1>10. CASE Crash
  BY <1>10 DEF Crash
<1>11. ASSUME NEW w \in Threads, LockTimesOut(w) PROVE ThreadsOK'
  BY <1>11 DEF LockTimesOut
<1>12. ASSUME NEW w \in Threads, FindRefreshed(w) PROVE ThreadsOK'
  BY <1>12 DEF FindRefreshed
<1>13. ASSUME NEW w \in Threads, BeginRefresh(w) PROVE ThreadsOK'
  BY <1>13 DEF BeginRefresh
<1>14. ASSUME NEW w \in Threads, FetchSucceeds(w) PROVE ThreadsOK'
  BY <1>14 DEF FetchSucceeds
<1>15. ASSUME NEW w \in Threads, FetchFails(w) PROVE ThreadsOK'
  BY <1>15 DEF FetchFails
<1>16. ASSUME NEW w \in Threads, ReplaceData(w) PROVE ThreadsOK'
  BY <1>16 DEF ReplaceData
<1>17. ASSUME NEW w \in Threads, ReplaceMeta(w) PROVE ThreadsOK'
  BY <1>17 DEF ReplaceMeta
<1>18. ASSUME NEW w \in Threads, ReplaceFails(w) PROVE ThreadsOK'
  BY <1>18 DEF ReplaceFails
<1>19. ASSUME NEW w \in Threads, KeepFresh(w) PROVE ThreadsOK'
  BY <1>19 DEF KeepFresh
<1>20. ASSUME NEW w \in Threads, DropData(w) PROVE ThreadsOK'
  BY <1>20 DEF DropData
<1>21. ASSUME NEW w \in Threads, WriteUnavailable(w) PROVE ThreadsOK'
  BY <1>21 DEF WriteUnavailable
<1>22. ASSUME NEW w \in Threads, WriteMetaFails(w) PROVE ThreadsOK'
  BY <1>22 DEF WriteMetaFails
<1>23. ASSUME NEW w \in Threads, DeleteData(w) PROVE ThreadsOK'
  BY <1>23 DEF DeleteData
<1>24. ASSUME NEW w \in Threads, DeleteMeta(w) PROVE ThreadsOK'
  BY <1>24 DEF DeleteMeta
<1>25. ASSUME NEW w \in Threads, BeginSeries(w) PROVE ThreadsOK'
  BY <1>25 DEF BeginSeries
<1>26. ASSUME NEW w \in Threads, PurgeMeta(w) PROVE ThreadsOK'
  BY <1>26 DEF PurgeMeta
<1>27. ASSUME NEW w \in Threads, SeriesFails(w) PROVE ThreadsOK'
  BY <1>27 DEF SeriesFails
<1>28. ASSUME NEW w \in Threads, DropMeta(w) PROVE ThreadsOK'
  BY <1>28 DEF DropMeta
<1>29. ASSUME NEW w \in Workers, StartPrewarm(w) PROVE ThreadsOK'
  BY <1>29 DEF StartPrewarm
<1>30. ASSUME NEW w \in Workers, StartChat(w) PROVE ThreadsOK'
  BY <1>30 DEF StartChat
<1>31. ASSUME NEW w \in Workers, EndChat(w) PROVE ThreadsOK'
  BY <1>31 DEF EndChat
<1>32. ASSUME NEW w \in Workers, QueryRefreshed(w) PROVE ThreadsOK'
  BY <1>32 DEF QueryRefreshed
<1>33. ASSUME NEW w \in Workers, QueryFresh(w) PROVE ThreadsOK'
  BY <1>33 DEF QueryFresh
<1>34. ASSUME NEW w \in Workers, QueryMissing(w) PROVE ThreadsOK'
  BY <1>34 DEF QueryMissing
<1>35. ASSUME NEW w \in Workers, QueryUnavailable(w) PROVE ThreadsOK'
  BY <1>35 DEF QueryUnavailable
<1>36. ASSUME NEW w \in Workers, RunJq(w) PROVE ThreadsOK'
  BY <1>36 DEF RunJq
<1>37. CASE UNCHANGED vars
  BY <1>37 DEF vars
<1> QED
  BY <1>1, <1>2, <1>3, <1>4, <1>5, <1>6, <1>7, <1>8, <1>9, <1>10, <1>11,
     <1>12, <1>13, <1>14, <1>15, <1>16, <1>17, <1>18, <1>19, <1>20, <1>21,
     <1>22, <1>23, <1>24, <1>25, <1>26, <1>27, <1>28, <1>29, <1>30, <1>31,
     <1>32, <1>33, <1>34, <1>35, <1>36, <1>37 DEF Next, Refresh, Sweep,
     Query

\* ... and the flags.
LEMMA FlagsStep ==
    ASSUME FlagsOK, [Next]_vars
    PROVE  FlagsOK'
<1> USE ThreadsAssumption, KindsAssumption, FetchAssumption DEF FlagsOK,
   files, clock, lease, threads, sweep, GoTo
<1>1. CASE RenewLease
  BY <1>1 DEF RenewLease
<1>2. CASE IdleTimeout
  BY <1>2 DEF IdleTimeout
<1>3. CASE Tick
  BY <1>3 DEF Tick
<1>4. CASE BeginSweep
  BY <1>4 DEF BeginSweep
<1>5. CASE SweepRead
  BY <1>5 DEF SweepRead
<1>6. CASE SweepData
  BY <1>6 DEF SweepData
<1>7. CASE SweepMeta
  BY <1>7 DEF SweepMeta
<1>8. CASE SweepOrphans
  BY <1>8 DEF SweepOrphans
<1>9. CASE TtlElapses
  BY <1>9 DEF TtlElapses
<1>10. CASE Crash
  BY <1>10 DEF Crash
<1>11. ASSUME NEW w \in Threads, LockTimesOut(w) PROVE FlagsOK'
  BY <1>11 DEF LockTimesOut
<1>12. ASSUME NEW w \in Threads, FindRefreshed(w) PROVE FlagsOK'
  BY <1>12 DEF FindRefreshed
<1>13. ASSUME NEW w \in Threads, BeginRefresh(w) PROVE FlagsOK'
  BY <1>13 DEF BeginRefresh
<1>14. ASSUME NEW w \in Threads, FetchSucceeds(w) PROVE FlagsOK'
  BY <1>14 DEF FetchSucceeds
<1>15. ASSUME NEW w \in Threads, FetchFails(w) PROVE FlagsOK'
  BY <1>15 DEF FetchFails
<1>16. ASSUME NEW w \in Threads, ReplaceData(w) PROVE FlagsOK'
  BY <1>16 DEF ReplaceData
<1>17. ASSUME NEW w \in Threads, ReplaceMeta(w) PROVE FlagsOK'
  BY <1>17 DEF ReplaceMeta
<1>18. ASSUME NEW w \in Threads, ReplaceFails(w) PROVE FlagsOK'
  BY <1>18 DEF ReplaceFails
<1>19. ASSUME NEW w \in Threads, KeepFresh(w) PROVE FlagsOK'
  BY <1>19 DEF KeepFresh
<1>20. ASSUME NEW w \in Threads, DropData(w) PROVE FlagsOK'
  BY <1>20 DEF DropData
<1>21. ASSUME NEW w \in Threads, WriteUnavailable(w) PROVE FlagsOK'
  BY <1>21 DEF WriteUnavailable
<1>22. ASSUME NEW w \in Threads, WriteMetaFails(w) PROVE FlagsOK'
  BY <1>22 DEF WriteMetaFails
<1>23. ASSUME NEW w \in Threads, DeleteData(w) PROVE FlagsOK'
  BY <1>23 DEF DeleteData
<1>24. ASSUME NEW w \in Threads, DeleteMeta(w) PROVE FlagsOK'
  BY <1>24 DEF DeleteMeta
<1>25. ASSUME NEW w \in Threads, BeginSeries(w) PROVE FlagsOK'
  BY <1>25 DEF BeginSeries
<1>26. ASSUME NEW w \in Threads, PurgeMeta(w) PROVE FlagsOK'
  BY <1>26 DEF PurgeMeta
<1>27. ASSUME NEW w \in Threads, SeriesFails(w) PROVE FlagsOK'
  BY <1>27 DEF SeriesFails
<1>28. ASSUME NEW w \in Threads, DropMeta(w) PROVE FlagsOK'
  BY <1>28 DEF DropMeta
<1>29. ASSUME NEW w \in Workers, StartPrewarm(w) PROVE FlagsOK'
  BY <1>29 DEF StartPrewarm
<1>30. ASSUME NEW w \in Workers, StartChat(w) PROVE FlagsOK'
  BY <1>30 DEF StartChat
<1>31. ASSUME NEW w \in Workers, EndChat(w) PROVE FlagsOK'
  BY <1>31 DEF EndChat
<1>32. ASSUME NEW w \in Workers, QueryRefreshed(w) PROVE FlagsOK'
  BY <1>32 DEF QueryRefreshed
<1>33. ASSUME NEW w \in Workers, QueryFresh(w) PROVE FlagsOK'
  BY <1>33 DEF QueryFresh
<1>34. ASSUME NEW w \in Workers, QueryMissing(w) PROVE FlagsOK'
  BY <1>34 DEF QueryMissing
<1>35. ASSUME NEW w \in Workers, QueryUnavailable(w) PROVE FlagsOK'
  BY <1>35 DEF QueryUnavailable
<1>36. ASSUME NEW w \in Workers, RunJq(w) PROVE FlagsOK'
  BY <1>36 DEF RunJq
<1>37. CASE UNCHANGED vars
  BY <1>37 DEF vars
<1> QED
  BY <1>1, <1>2, <1>3, <1>4, <1>5, <1>6, <1>7, <1>8, <1>9, <1>10, <1>11,
     <1>12, <1>13, <1>14, <1>15, <1>16, <1>17, <1>18, <1>19, <1>20, <1>21,
     <1>22, <1>23, <1>24, <1>25, <1>26, <1>27, <1>28, <1>29, <1>30, <1>31,
     <1>32, <1>33, <1>34, <1>35, <1>36, <1>37 DEF Next, Refresh, Sweep,
     Query

-----------------------------------------------------------------------------
(* Files                                                                    *)

\* The lock is held by whoever is in the middle of something.
LEMMA LockStep ==
    ASSUME FilesOK, ThreadsOK, LockKept, [Next]_vars
    PROVE  LockKept'
<1> USE ThreadsAssumption, KindsAssumption, FetchAssumption DEF files,
   clock, lease, threads, sweep, Threads, TakeLock, FreeLock, GoTo,
   EndRefresh, AfterRefresh, Answered, FilesOK, ThreadsOK, Fetches, Metas,
   FreshMeta, ErrorMeta, NoMeta, Guarded, RefreshLockFree, Series, LockKept,
   Holding, Lazy
<1>1. CASE RenewLease
  BY <1>1 DEF RenewLease
<1>2. CASE IdleTimeout
  BY <1>2 DEF IdleTimeout
<1>3. CASE Tick
  BY <1>3 DEF Tick
<1>4. CASE BeginSweep
  BY <1>4 DEF BeginSweep
<1>5. CASE SweepRead
  BY <1>5 DEF SweepRead
<1>6. CASE SweepData
  BY <1>6 DEF SweepData
<1>7. CASE SweepMeta
  BY <1>7 DEF SweepMeta
<1>8. CASE SweepOrphans
  BY <1>8 DEF SweepOrphans
<1>9. CASE TtlElapses
  BY <1>9 DEF TtlElapses
<1>10. CASE Crash
  BY <1>10 DEF Crash
<1>11. ASSUME NEW w \in Threads, LockTimesOut(w) PROVE LockKept'
  BY <1>11 DEF LockTimesOut
<1>12. ASSUME NEW w \in Threads, FindRefreshed(w) PROVE LockKept'
  BY <1>12 DEF FindRefreshed
<1>13. ASSUME NEW w \in Threads, BeginRefresh(w) PROVE LockKept'
  BY <1>13 DEF BeginRefresh
<1>14. ASSUME NEW w \in Threads, FetchSucceeds(w) PROVE LockKept'
  BY <1>14 DEF FetchSucceeds
<1>15. ASSUME NEW w \in Threads, FetchFails(w) PROVE LockKept'
  BY <1>15 DEF FetchFails
<1>16. ASSUME NEW w \in Threads, ReplaceData(w) PROVE LockKept'
  BY <1>16 DEF ReplaceData
<1>17. ASSUME NEW w \in Threads, ReplaceMeta(w) PROVE LockKept'
  BY <1>17 DEF ReplaceMeta
<1>18. ASSUME NEW w \in Threads, ReplaceFails(w) PROVE LockKept'
  BY <1>18 DEF ReplaceFails
<1>19. ASSUME NEW w \in Threads, KeepFresh(w) PROVE LockKept'
  BY <1>19 DEF KeepFresh
<1>20. ASSUME NEW w \in Threads, DropData(w) PROVE LockKept'
  BY <1>20 DEF DropData
<1>21. ASSUME NEW w \in Threads, WriteUnavailable(w) PROVE LockKept'
  BY <1>21 DEF WriteUnavailable
<1>22. ASSUME NEW w \in Threads, WriteMetaFails(w) PROVE LockKept'
  BY <1>22 DEF WriteMetaFails
<1>23. ASSUME NEW w \in Threads, DeleteData(w) PROVE LockKept'
  BY <1>23 DEF DeleteData
<1>24. ASSUME NEW w \in Threads, DeleteMeta(w) PROVE LockKept'
  BY <1>24 DEF DeleteMeta
<1>25. ASSUME NEW w \in Threads, BeginSeries(w) PROVE LockKept'
  BY <1>25 DEF BeginSeries
<1>26. ASSUME NEW w \in Threads, PurgeMeta(w) PROVE LockKept'
  BY <1>26 DEF PurgeMeta
<1>27. ASSUME NEW w \in Threads, SeriesFails(w) PROVE LockKept'
  BY <1>27 DEF SeriesFails
<1>28. ASSUME NEW w \in Threads, DropMeta(w) PROVE LockKept'
  BY <1>28 DEF DropMeta
<1>29. ASSUME NEW w \in Workers, StartPrewarm(w) PROVE LockKept'
  BY <1>29 DEF StartPrewarm
<1>30. ASSUME NEW w \in Workers, StartChat(w) PROVE LockKept'
  BY <1>30 DEF StartChat
<1>31. ASSUME NEW w \in Workers, EndChat(w) PROVE LockKept'
  BY <1>31 DEF EndChat
<1>32. ASSUME NEW w \in Workers, QueryRefreshed(w) PROVE LockKept'
  BY <1>32 DEF QueryRefreshed
<1>33. ASSUME NEW w \in Workers, QueryFresh(w) PROVE LockKept'
  BY <1>33 DEF QueryFresh
<1>34. ASSUME NEW w \in Workers, QueryMissing(w) PROVE LockKept'
  BY <1>34 DEF QueryMissing
<1>35. ASSUME NEW w \in Workers, QueryUnavailable(w) PROVE LockKept'
  BY <1>35 DEF QueryUnavailable
<1>36. ASSUME NEW w \in Workers, RunJq(w) PROVE LockKept'
  BY <1>36 DEF RunJq
<1>37. CASE UNCHANGED vars
  BY <1>37 DEF vars
<1> QED
  BY <1>1, <1>2, <1>3, <1>4, <1>5, <1>6, <1>7, <1>8, <1>9, <1>10, <1>11,
     <1>12, <1>13, <1>14, <1>15, <1>16, <1>17, <1>18, <1>19, <1>20, <1>21,
     <1>22, <1>23, <1>24, <1>25, <1>26, <1>27, <1>28, <1>29, <1>30, <1>31,
     <1>32, <1>33, <1>34, <1>35, <1>36, <1>37 DEF Next, Refresh, Sweep,
     Query

\* The loop of a series sweeps and does nothing else.
LEMMA KindStep ==
    ASSUME FilesOK, ThreadsOK, KindFits, [Next]_vars
    PROVE  KindFits'
<1> USE ThreadsAssumption, KindsAssumption, FetchAssumption DEF files,
   clock, lease, threads, sweep, Threads, TakeLock, FreeLock, GoTo,
   EndRefresh, AfterRefresh, Answered, FilesOK, ThreadsOK, Fetches, Metas,
   FreshMeta, ErrorMeta, NoMeta, Guarded, RefreshLockFree, Series, KindFits,
   Sweeping
<1>1. CASE RenewLease
  BY <1>1 DEF RenewLease
<1>2. CASE IdleTimeout
  BY <1>2 DEF IdleTimeout
<1>3. CASE Tick
  BY <1>3 DEF Tick
<1>4. CASE BeginSweep
  BY <1>4 DEF BeginSweep
<1>5. CASE SweepRead
  BY <1>5 DEF SweepRead
<1>6. CASE SweepData
  BY <1>6 DEF SweepData
<1>7. CASE SweepMeta
  BY <1>7 DEF SweepMeta
<1>8. CASE SweepOrphans
  BY <1>8 DEF SweepOrphans
<1>9. CASE TtlElapses
  BY <1>9 DEF TtlElapses
<1>10. CASE Crash
  BY <1>10 DEF Crash
<1>11. ASSUME NEW w \in Threads, LockTimesOut(w) PROVE KindFits'
  BY <1>11 DEF LockTimesOut
<1>12. ASSUME NEW w \in Threads, FindRefreshed(w) PROVE KindFits'
  BY <1>12 DEF FindRefreshed
<1>13. ASSUME NEW w \in Threads, BeginRefresh(w) PROVE KindFits'
  BY <1>13 DEF BeginRefresh
<1>14. ASSUME NEW w \in Threads, FetchSucceeds(w) PROVE KindFits'
  BY <1>14 DEF FetchSucceeds
<1>15. ASSUME NEW w \in Threads, FetchFails(w) PROVE KindFits'
  BY <1>15 DEF FetchFails
<1>16. ASSUME NEW w \in Threads, ReplaceData(w) PROVE KindFits'
  BY <1>16 DEF ReplaceData
<1>17. ASSUME NEW w \in Threads, ReplaceMeta(w) PROVE KindFits'
  BY <1>17 DEF ReplaceMeta
<1>18. ASSUME NEW w \in Threads, ReplaceFails(w) PROVE KindFits'
  BY <1>18 DEF ReplaceFails
<1>19. ASSUME NEW w \in Threads, KeepFresh(w) PROVE KindFits'
  BY <1>19 DEF KeepFresh
<1>20. ASSUME NEW w \in Threads, DropData(w) PROVE KindFits'
  BY <1>20 DEF DropData
<1>21. ASSUME NEW w \in Threads, WriteUnavailable(w) PROVE KindFits'
  BY <1>21 DEF WriteUnavailable
<1>22. ASSUME NEW w \in Threads, WriteMetaFails(w) PROVE KindFits'
  BY <1>22 DEF WriteMetaFails
<1>23. ASSUME NEW w \in Threads, DeleteData(w) PROVE KindFits'
  BY <1>23 DEF DeleteData
<1>24. ASSUME NEW w \in Threads, DeleteMeta(w) PROVE KindFits'
  BY <1>24 DEF DeleteMeta
<1>25. ASSUME NEW w \in Threads, BeginSeries(w) PROVE KindFits'
  BY <1>25 DEF BeginSeries
<1>26. ASSUME NEW w \in Threads, PurgeMeta(w) PROVE KindFits'
  BY <1>26 DEF PurgeMeta
<1>27. ASSUME NEW w \in Threads, SeriesFails(w) PROVE KindFits'
  BY <1>27 DEF SeriesFails
<1>28. ASSUME NEW w \in Threads, DropMeta(w) PROVE KindFits'
  BY <1>28 DEF DropMeta
<1>29. ASSUME NEW w \in Workers, StartPrewarm(w) PROVE KindFits'
  BY <1>29 DEF StartPrewarm
<1>30. ASSUME NEW w \in Workers, StartChat(w) PROVE KindFits'
  BY <1>30 DEF StartChat
<1>31. ASSUME NEW w \in Workers, EndChat(w) PROVE KindFits'
  BY <1>31 DEF EndChat
<1>32. ASSUME NEW w \in Workers, QueryRefreshed(w) PROVE KindFits'
  BY <1>32 DEF QueryRefreshed
<1>33. ASSUME NEW w \in Workers, QueryFresh(w) PROVE KindFits'
  BY <1>33 DEF QueryFresh
<1>34. ASSUME NEW w \in Workers, QueryMissing(w) PROVE KindFits'
  BY <1>34 DEF QueryMissing
<1>35. ASSUME NEW w \in Workers, QueryUnavailable(w) PROVE KindFits'
  BY <1>35 DEF QueryUnavailable
<1>36. ASSUME NEW w \in Workers, RunJq(w) PROVE KindFits'
  BY <1>36 DEF RunJq
<1>37. CASE UNCHANGED vars
  BY <1>37 DEF vars
<1> QED
  BY <1>1, <1>2, <1>3, <1>4, <1>5, <1>6, <1>7, <1>8, <1>9, <1>10, <1>11,
     <1>12, <1>13, <1>14, <1>15, <1>16, <1>17, <1>18, <1>19, <1>20, <1>21,
     <1>22, <1>23, <1>24, <1>25, <1>26, <1>27, <1>28, <1>29, <1>30, <1>31,
     <1>32, <1>33, <1>34, <1>35, <1>36, <1>37 DEF Next, Refresh, Sweep,
     Query

\* Who has fetched has the last fetch.
LEMMA CountStep ==
    ASSUME FilesOK, ThreadsOK, LockKept, Counted, [Next]_vars
    PROVE  Counted'
<1> USE ThreadsAssumption, KindsAssumption, FetchAssumption DEF files,
   clock, lease, threads, sweep, Threads, TakeLock, FreeLock, GoTo,
   EndRefresh, AfterRefresh, Answered, FilesOK, ThreadsOK, Fetches, Metas,
   FreshMeta, ErrorMeta, NoMeta, Guarded, RefreshLockFree, Series, LockKept,
   Holding, Counted, Usable, InTime, StillFresh
<1>1. CASE RenewLease
  BY <1>1 DEF RenewLease
<1>2. CASE IdleTimeout
  BY <1>2 DEF IdleTimeout
<1>3. CASE Tick
  BY <1>3 DEF Tick
<1>4. CASE BeginSweep
  BY <1>4 DEF BeginSweep
<1>5. CASE SweepRead
  BY <1>5 DEF SweepRead
<1>6. CASE SweepData
  BY <1>6 DEF SweepData
<1>7. CASE SweepMeta
  BY <1>7 DEF SweepMeta
<1>8. CASE SweepOrphans
  BY <1>8 DEF SweepOrphans
<1>9. CASE TtlElapses
  BY <1>9 DEF TtlElapses
<1>10. CASE Crash
  BY <1>10 DEF Crash
<1>11. ASSUME NEW w \in Threads, LockTimesOut(w) PROVE Counted'
  BY <1>11 DEF LockTimesOut
<1>12. ASSUME NEW w \in Threads, FindRefreshed(w) PROVE Counted'
  BY <1>12 DEF FindRefreshed
<1>13. ASSUME NEW w \in Threads, BeginRefresh(w) PROVE Counted'
  BY <1>13 DEF BeginRefresh
<1>14. ASSUME NEW w \in Threads, FetchSucceeds(w) PROVE Counted'
  BY <1>14 DEF FetchSucceeds
<1>15. ASSUME NEW w \in Threads, FetchFails(w) PROVE Counted'
  BY <1>15 DEF FetchFails
<1>16. ASSUME NEW w \in Threads, ReplaceData(w) PROVE Counted'
  BY <1>16 DEF ReplaceData
<1>17. ASSUME NEW w \in Threads, ReplaceMeta(w) PROVE Counted'
  BY <1>17 DEF ReplaceMeta
<1>18. ASSUME NEW w \in Threads, ReplaceFails(w) PROVE Counted'
  BY <1>18 DEF ReplaceFails
<1>19. ASSUME NEW w \in Threads, KeepFresh(w) PROVE Counted'
  BY <1>19 DEF KeepFresh
<1>20. ASSUME NEW w \in Threads, DropData(w) PROVE Counted'
  BY <1>20 DEF DropData
<1>21. ASSUME NEW w \in Threads, WriteUnavailable(w) PROVE Counted'
  BY <1>21 DEF WriteUnavailable
<1>22. ASSUME NEW w \in Threads, WriteMetaFails(w) PROVE Counted'
  BY <1>22 DEF WriteMetaFails
<1>23. ASSUME NEW w \in Threads, DeleteData(w) PROVE Counted'
  BY <1>23 DEF DeleteData
<1>24. ASSUME NEW w \in Threads, DeleteMeta(w) PROVE Counted'
  BY <1>24 DEF DeleteMeta
<1>25. ASSUME NEW w \in Threads, BeginSeries(w) PROVE Counted'
  BY <1>25 DEF BeginSeries
<1>26. ASSUME NEW w \in Threads, PurgeMeta(w) PROVE Counted'
  BY <1>26 DEF PurgeMeta
<1>27. ASSUME NEW w \in Threads, SeriesFails(w) PROVE Counted'
  BY <1>27 DEF SeriesFails
<1>28. ASSUME NEW w \in Threads, DropMeta(w) PROVE Counted'
  BY <1>28 DEF DropMeta
<1>29. ASSUME NEW w \in Workers, StartPrewarm(w) PROVE Counted'
  BY <1>29 DEF StartPrewarm
<1>30. ASSUME NEW w \in Workers, StartChat(w) PROVE Counted'
  BY <1>30 DEF StartChat
<1>31. ASSUME NEW w \in Workers, EndChat(w) PROVE Counted'
  BY <1>31 DEF EndChat
<1>32. ASSUME NEW w \in Workers, QueryRefreshed(w) PROVE Counted'
  BY <1>32 DEF QueryRefreshed
<1>33. ASSUME NEW w \in Workers, QueryFresh(w) PROVE Counted'
  BY <1>33 DEF QueryFresh
<1>34. ASSUME NEW w \in Workers, QueryMissing(w) PROVE Counted'
  BY <1>34 DEF QueryMissing
<1>35. ASSUME NEW w \in Workers, QueryUnavailable(w) PROVE Counted'
  BY <1>35 DEF QueryUnavailable
<1>36. ASSUME NEW w \in Workers, RunJq(w) PROVE Counted'
  BY <1>36 DEF RunJq
<1>37. CASE UNCHANGED vars
  BY <1>37 DEF vars
<1> QED
  BY <1>1, <1>2, <1>3, <1>4, <1>5, <1>6, <1>7, <1>8, <1>9, <1>10, <1>11,
     <1>12, <1>13, <1>14, <1>15, <1>16, <1>17, <1>18, <1>19, <1>20, <1>21,
     <1>22, <1>23, <1>24, <1>25, <1>26, <1>27, <1>28, <1>29, <1>30, <1>31,
     <1>32, <1>33, <1>34, <1>35, <1>36, <1>37 DEF Next, Refresh, Sweep,
     Query

\* What a thread knows of the files stays true while it holds the lock.
LEMMA WrittenStep ==
    ASSUME FilesOK, ThreadsOK, LockKept, KindFits, Counted, Written, [Next]_vars
    PROVE  Written'
<1> USE ThreadsAssumption, KindsAssumption, FetchAssumption DEF files,
   clock, lease, threads, sweep, Threads, TakeLock, FreeLock, GoTo,
   EndRefresh, AfterRefresh, Answered, FilesOK, ThreadsOK, Fetches, Metas,
   FreshMeta, ErrorMeta, NoMeta, Guarded, RefreshLockFree, Series, LockKept,
   Holding, KindFits, Sweeping, Counted, Written, Usable, InTime,
   StillFresh, Lazy
<1>1. CASE RenewLease
  BY <1>1 DEF RenewLease
<1>2. CASE IdleTimeout
  BY <1>2 DEF IdleTimeout
<1>3. CASE Tick
  BY <1>3 DEF Tick
<1>4. CASE BeginSweep
  BY <1>4 DEF BeginSweep
<1>5. CASE SweepRead
  BY <1>5 DEF SweepRead
<1>6. CASE SweepData
  BY <1>6 DEF SweepData
<1>7. CASE SweepMeta
  BY <1>7 DEF SweepMeta
<1>8. CASE SweepOrphans
  BY <1>8 DEF SweepOrphans
<1>9. CASE TtlElapses
  BY <1>9 DEF TtlElapses
<1>10. CASE Crash
  BY <1>10 DEF Crash
<1>11. ASSUME NEW w \in Threads, LockTimesOut(w) PROVE Written'
  BY <1>11 DEF LockTimesOut
<1>12. ASSUME NEW w \in Threads, FindRefreshed(w) PROVE Written'
  BY <1>12 DEF FindRefreshed
<1>13. ASSUME NEW w \in Threads, BeginRefresh(w) PROVE Written'
  BY <1>13 DEF BeginRefresh
<1>14. ASSUME NEW w \in Threads, FetchSucceeds(w) PROVE Written'
  BY <1>14 DEF FetchSucceeds
<1>15. ASSUME NEW w \in Threads, FetchFails(w) PROVE Written'
  BY <1>15 DEF FetchFails
<1>16. ASSUME NEW w \in Threads, ReplaceData(w) PROVE Written'
  BY <1>16 DEF ReplaceData
<1>17. ASSUME NEW w \in Threads, ReplaceMeta(w) PROVE Written'
  BY <1>17 DEF ReplaceMeta
<1>18. ASSUME NEW w \in Threads, ReplaceFails(w) PROVE Written'
  BY <1>18 DEF ReplaceFails
<1>19. ASSUME NEW w \in Threads, KeepFresh(w) PROVE Written'
  BY <1>19 DEF KeepFresh
<1>20. ASSUME NEW w \in Threads, DropData(w) PROVE Written'
  BY <1>20 DEF DropData
<1>21. ASSUME NEW w \in Threads, WriteUnavailable(w) PROVE Written'
  BY <1>21 DEF WriteUnavailable
<1>22. ASSUME NEW w \in Threads, WriteMetaFails(w) PROVE Written'
  BY <1>22 DEF WriteMetaFails
<1>23. ASSUME NEW w \in Threads, DeleteData(w) PROVE Written'
  BY <1>23 DEF DeleteData
<1>24. ASSUME NEW w \in Threads, DeleteMeta(w) PROVE Written'
  BY <1>24 DEF DeleteMeta
<1>25. ASSUME NEW w \in Threads, BeginSeries(w) PROVE Written'
  BY <1>25 DEF BeginSeries
<1>26. ASSUME NEW w \in Threads, PurgeMeta(w) PROVE Written'
  BY <1>26 DEF PurgeMeta
<1>27. ASSUME NEW w \in Threads, SeriesFails(w) PROVE Written'
  BY <1>27 DEF SeriesFails
<1>28. ASSUME NEW w \in Threads, DropMeta(w) PROVE Written'
  BY <1>28 DEF DropMeta
<1>29. ASSUME NEW w \in Workers, StartPrewarm(w) PROVE Written'
  BY <1>29 DEF StartPrewarm
<1>30. ASSUME NEW w \in Workers, StartChat(w) PROVE Written'
  BY <1>30 DEF StartChat
<1>31. ASSUME NEW w \in Workers, EndChat(w) PROVE Written'
  BY <1>31 DEF EndChat
<1>32. ASSUME NEW w \in Workers, QueryRefreshed(w) PROVE Written'
  BY <1>32 DEF QueryRefreshed
<1>33. ASSUME NEW w \in Workers, QueryFresh(w) PROVE Written'
  BY <1>33 DEF QueryFresh
<1>34. ASSUME NEW w \in Workers, QueryMissing(w) PROVE Written'
  BY <1>34 DEF QueryMissing
<1>35. ASSUME NEW w \in Workers, QueryUnavailable(w) PROVE Written'
  BY <1>35 DEF QueryUnavailable
<1>36. ASSUME NEW w \in Workers, RunJq(w) PROVE Written'
  BY <1>36 DEF RunJq
<1>37. CASE UNCHANGED vars
  BY <1>37 DEF vars
<1> QED
  BY <1>1, <1>2, <1>3, <1>4, <1>5, <1>6, <1>7, <1>8, <1>9, <1>10, <1>11,
     <1>12, <1>13, <1>14, <1>15, <1>16, <1>17, <1>18, <1>19, <1>20, <1>21,
     <1>22, <1>23, <1>24, <1>25, <1>26, <1>27, <1>28, <1>29, <1>30, <1>31,
     <1>32, <1>33, <1>34, <1>35, <1>36, <1>37 DEF Next, Refresh, Sweep,
     Query

\* The data file is not behind.
LEMMA AheadStep ==
    ASSUME FilesOK, ThreadsOK, LockKept, KindFits, Counted, Written, Ahead, [Next]_vars
    PROVE  Ahead'
<1> USE ThreadsAssumption, KindsAssumption, FetchAssumption DEF files,
   clock, lease, threads, sweep, Threads, TakeLock, FreeLock, GoTo,
   EndRefresh, AfterRefresh, Answered, FilesOK, ThreadsOK, Fetches, Metas,
   FreshMeta, ErrorMeta, NoMeta, Guarded, RefreshLockFree, Series, LockKept,
   Holding, KindFits, Counted, Written, Ahead, Usable, InTime, StillFresh
<1>1. CASE RenewLease
  BY <1>1 DEF RenewLease
<1>2. CASE IdleTimeout
  BY <1>2 DEF IdleTimeout
<1>3. CASE Tick
  BY <1>3 DEF Tick
<1>4. CASE BeginSweep
  BY <1>4 DEF BeginSweep
<1>5. CASE SweepRead
  BY <1>5 DEF SweepRead
<1>6. CASE SweepData
  BY <1>6 DEF SweepData
<1>7. CASE SweepMeta
  BY <1>7 DEF SweepMeta
<1>8. CASE SweepOrphans
  BY <1>8 DEF SweepOrphans
<1>9. CASE TtlElapses
  BY <1>9 DEF TtlElapses
<1>10. CASE Crash
  BY <1>10 DEF Crash
<1>11. ASSUME NEW w \in Threads, LockTimesOut(w) PROVE Ahead'
  BY <1>11 DEF LockTimesOut
<1>12. ASSUME NEW w \in Threads, FindRefreshed(w) PROVE Ahead'
  BY <1>12 DEF FindRefreshed
<1>13. ASSUME NEW w \in Threads, BeginRefresh(w) PROVE Ahead'
  BY <1>13 DEF BeginRefresh
<1>14. ASSUME NEW w \in Threads, FetchSucceeds(w) PROVE Ahead'
  BY <1>14 DEF FetchSucceeds
<1>15. ASSUME NEW w \in Threads, FetchFails(w) PROVE Ahead'
  BY <1>15 DEF FetchFails
<1>16. ASSUME NEW w \in Threads, ReplaceData(w) PROVE Ahead'
  BY <1>16 DEF ReplaceData
<1>17. ASSUME NEW w \in Threads, ReplaceMeta(w) PROVE Ahead'
  BY <1>17 DEF ReplaceMeta
<1>18. ASSUME NEW w \in Threads, ReplaceFails(w) PROVE Ahead'
  BY <1>18 DEF ReplaceFails
<1>19. ASSUME NEW w \in Threads, KeepFresh(w) PROVE Ahead'
  BY <1>19 DEF KeepFresh
<1>20. ASSUME NEW w \in Threads, DropData(w) PROVE Ahead'
  BY <1>20 DEF DropData
<1>21. ASSUME NEW w \in Threads, WriteUnavailable(w) PROVE Ahead'
  BY <1>21 DEF WriteUnavailable
<1>22. ASSUME NEW w \in Threads, WriteMetaFails(w) PROVE Ahead'
  BY <1>22 DEF WriteMetaFails
<1>23. ASSUME NEW w \in Threads, DeleteData(w) PROVE Ahead'
  BY <1>23 DEF DeleteData
<1>24. ASSUME NEW w \in Threads, DeleteMeta(w) PROVE Ahead'
  BY <1>24 DEF DeleteMeta
<1>25. ASSUME NEW w \in Threads, BeginSeries(w) PROVE Ahead'
  BY <1>25 DEF BeginSeries
<1>26. ASSUME NEW w \in Threads, PurgeMeta(w) PROVE Ahead'
  BY <1>26 DEF PurgeMeta
<1>27. ASSUME NEW w \in Threads, SeriesFails(w) PROVE Ahead'
  BY <1>27 DEF SeriesFails
<1>28. ASSUME NEW w \in Threads, DropMeta(w) PROVE Ahead'
  BY <1>28 DEF DropMeta
<1>29. ASSUME NEW w \in Workers, StartPrewarm(w) PROVE Ahead'
  BY <1>29 DEF StartPrewarm
<1>30. ASSUME NEW w \in Workers, StartChat(w) PROVE Ahead'
  BY <1>30 DEF StartChat
<1>31. ASSUME NEW w \in Workers, EndChat(w) PROVE Ahead'
  BY <1>31 DEF EndChat
<1>32. ASSUME NEW w \in Workers, QueryRefreshed(w) PROVE Ahead'
  BY <1>32 DEF QueryRefreshed
<1>33. ASSUME NEW w \in Workers, QueryFresh(w) PROVE Ahead'
  BY <1>33 DEF QueryFresh
<1>34. ASSUME NEW w \in Workers, QueryMissing(w) PROVE Ahead'
  BY <1>34 DEF QueryMissing
<1>35. ASSUME NEW w \in Workers, QueryUnavailable(w) PROVE Ahead'
  BY <1>35 DEF QueryUnavailable
<1>36. ASSUME NEW w \in Workers, RunJq(w) PROVE Ahead'
  BY <1>36 DEF RunJq
<1>37. CASE UNCHANGED vars
  BY <1>37 DEF vars
<1> QED
  BY <1>1, <1>2, <1>3, <1>4, <1>5, <1>6, <1>7, <1>8, <1>9, <1>10, <1>11,
     <1>12, <1>13, <1>14, <1>15, <1>16, <1>17, <1>18, <1>19, <1>20, <1>21,
     <1>22, <1>23, <1>24, <1>25, <1>26, <1>27, <1>28, <1>29, <1>30, <1>31,
     <1>32, <1>33, <1>34, <1>35, <1>36, <1>37 DEF Next, Refresh, Sweep,
     Query

\* A pair that was whole is whole again when nobody is half way.
LEMMA WholeStep ==
    ASSUME FilesOK, ThreadsOK, LockKept, KindFits, Counted, Written, AllWhole, [Next]_vars
    PROVE  AllWhole'
<1> USE ThreadsAssumption, KindsAssumption, FetchAssumption DEF files,
   clock, lease, threads, sweep, Threads, TakeLock, FreeLock, GoTo,
   EndRefresh, AfterRefresh, Answered, FilesOK, ThreadsOK, Fetches, Metas,
   FreshMeta, ErrorMeta, NoMeta, Guarded, RefreshLockFree, Series, LockKept,
   Holding, KindFits, Sweeping, Counted, Written, Usable, InTime,
   StillFresh, Between, AllWhole, Whole, Pair, Midway
<1>1. CASE RenewLease
  BY <1>1 DEF RenewLease
<1>2. CASE IdleTimeout
  BY <1>2 DEF IdleTimeout
<1>3. CASE Tick
  BY <1>3 DEF Tick
<1>4. CASE BeginSweep
  BY <1>4 DEF BeginSweep
<1>5. CASE SweepRead
  BY <1>5 DEF SweepRead
<1>6. CASE SweepData
  BY <1>6 DEF SweepData
<1>7. CASE SweepMeta
  BY <1>7 DEF SweepMeta
<1>8. CASE SweepOrphans
  BY <1>8 DEF SweepOrphans
<1>9. CASE TtlElapses
  BY <1>9 DEF TtlElapses
<1>10. CASE Crash
  BY <1>10 DEF Crash
<1>11. ASSUME NEW w \in Threads, LockTimesOut(w) PROVE AllWhole'
  BY <1>11 DEF LockTimesOut
<1>12. ASSUME NEW w \in Threads, FindRefreshed(w) PROVE AllWhole'
  BY <1>12 DEF FindRefreshed
<1>13. ASSUME NEW w \in Threads, BeginRefresh(w) PROVE AllWhole'
  BY <1>13 DEF BeginRefresh
<1>14. ASSUME NEW w \in Threads, FetchSucceeds(w) PROVE AllWhole'
  BY <1>14 DEF FetchSucceeds
<1>15. ASSUME NEW w \in Threads, FetchFails(w) PROVE AllWhole'
  BY <1>15 DEF FetchFails
<1>16. ASSUME NEW w \in Threads, ReplaceData(w) PROVE AllWhole'
  BY <1>16 DEF ReplaceData
<1>17. ASSUME NEW w \in Threads, ReplaceMeta(w) PROVE AllWhole'
  BY <1>17 DEF ReplaceMeta
<1>18. ASSUME NEW w \in Threads, ReplaceFails(w) PROVE AllWhole'
  BY <1>18 DEF ReplaceFails
<1>19. ASSUME NEW w \in Threads, KeepFresh(w) PROVE AllWhole'
  BY <1>19 DEF KeepFresh
<1>20. ASSUME NEW w \in Threads, DropData(w) PROVE AllWhole'
  BY <1>20 DEF DropData
<1>21. ASSUME NEW w \in Threads, WriteUnavailable(w) PROVE AllWhole'
  BY <1>21 DEF WriteUnavailable
<1>22. ASSUME NEW w \in Threads, WriteMetaFails(w) PROVE AllWhole'
  BY <1>22 DEF WriteMetaFails
<1>23. ASSUME NEW w \in Threads, DeleteData(w) PROVE AllWhole'
  BY <1>23 DEF DeleteData
<1>24. ASSUME NEW w \in Threads, DeleteMeta(w) PROVE AllWhole'
  BY <1>24 DEF DeleteMeta
<1>25. ASSUME NEW w \in Threads, BeginSeries(w) PROVE AllWhole'
  BY <1>25 DEF BeginSeries
<1>26. ASSUME NEW w \in Threads, PurgeMeta(w) PROVE AllWhole'
  BY <1>26 DEF PurgeMeta
<1>27. ASSUME NEW w \in Threads, SeriesFails(w) PROVE AllWhole'
  BY <1>27 DEF SeriesFails
<1>28. ASSUME NEW w \in Threads, DropMeta(w) PROVE AllWhole'
  BY <1>28 DEF DropMeta
<1>29. ASSUME NEW w \in Workers, StartPrewarm(w) PROVE AllWhole'
  BY <1>29 DEF StartPrewarm
<1>30. ASSUME NEW w \in Workers, StartChat(w) PROVE AllWhole'
  BY <1>30 DEF StartChat
<1>31. ASSUME NEW w \in Workers, EndChat(w) PROVE AllWhole'
  BY <1>31 DEF EndChat
<1>32. ASSUME NEW w \in Workers, QueryRefreshed(w) PROVE AllWhole'
  BY <1>32 DEF QueryRefreshed
<1>33. ASSUME NEW w \in Workers, QueryFresh(w) PROVE AllWhole'
  BY <1>33 DEF QueryFresh
<1>34. ASSUME NEW w \in Workers, QueryMissing(w) PROVE AllWhole'
  BY <1>34 DEF QueryMissing
<1>35. ASSUME NEW w \in Workers, QueryUnavailable(w) PROVE AllWhole'
  BY <1>35 DEF QueryUnavailable
<1>36. ASSUME NEW w \in Workers, RunJq(w) PROVE AllWhole'
  BY <1>36 DEF RunJq
<1>37. CASE UNCHANGED vars
  BY <1>37 DEF vars
<1> QED
  BY <1>1, <1>2, <1>3, <1>4, <1>5, <1>6, <1>7, <1>8, <1>9, <1>10, <1>11,
     <1>12, <1>13, <1>14, <1>15, <1>16, <1>17, <1>18, <1>19, <1>20, <1>21,
     <1>22, <1>23, <1>24, <1>25, <1>26, <1>27, <1>28, <1>29, <1>30, <1>31,
     <1>32, <1>33, <1>34, <1>35, <1>36, <1>37 DEF Next, Refresh, Sweep,
     Query

\* What the cleanup found out holds until a refresh writes.
LEMMA SweptStep ==
    ASSUME FilesOK, ThreadsOK, KindFits, Swept, [Next]_vars
    PROVE  Swept'
<1> USE ThreadsAssumption, KindsAssumption, FetchAssumption DEF files,
   clock, lease, threads, sweep, Threads, TakeLock, FreeLock, GoTo,
   EndRefresh, AfterRefresh, Answered, FilesOK, ThreadsOK, Fetches, Metas,
   FreshMeta, ErrorMeta, NoMeta, Guarded, RefreshLockFree, Series, KindFits,
   Sweeping, Swept, Overdue, StillFresh
<1>1. CASE RenewLease
  BY <1>1 DEF RenewLease
<1>2. CASE IdleTimeout
  BY <1>2 DEF IdleTimeout
<1>3. CASE Tick
  BY <1>3 DEF Tick
<1>4. CASE BeginSweep
  BY <1>4 DEF BeginSweep
<1>5. CASE SweepRead
  BY <1>5 DEF SweepRead
<1>6. CASE SweepData
  BY <1>6 DEF SweepData
<1>7. CASE SweepMeta
  BY <1>7 DEF SweepMeta
<1>8. CASE SweepOrphans
  BY <1>8 DEF SweepOrphans
<1>9. CASE TtlElapses
  BY <1>9 DEF TtlElapses
<1>10. CASE Crash
  BY <1>10 DEF Crash
<1>11. ASSUME NEW w \in Threads, LockTimesOut(w) PROVE Swept'
  BY <1>11 DEF LockTimesOut
<1>12. ASSUME NEW w \in Threads, FindRefreshed(w) PROVE Swept'
  BY <1>12 DEF FindRefreshed
<1>13. ASSUME NEW w \in Threads, BeginRefresh(w) PROVE Swept'
  BY <1>13 DEF BeginRefresh
<1>14. ASSUME NEW w \in Threads, FetchSucceeds(w) PROVE Swept'
  BY <1>14 DEF FetchSucceeds
<1>15. ASSUME NEW w \in Threads, FetchFails(w) PROVE Swept'
  BY <1>15 DEF FetchFails
<1>16. ASSUME NEW w \in Threads, ReplaceData(w) PROVE Swept'
  BY <1>16 DEF ReplaceData
<1>17. ASSUME NEW w \in Threads, ReplaceMeta(w) PROVE Swept'
  BY <1>17 DEF ReplaceMeta
<1>18. ASSUME NEW w \in Threads, ReplaceFails(w) PROVE Swept'
  BY <1>18 DEF ReplaceFails
<1>19. ASSUME NEW w \in Threads, KeepFresh(w) PROVE Swept'
  BY <1>19 DEF KeepFresh
<1>20. ASSUME NEW w \in Threads, DropData(w) PROVE Swept'
  BY <1>20 DEF DropData
<1>21. ASSUME NEW w \in Threads, WriteUnavailable(w) PROVE Swept'
  BY <1>21 DEF WriteUnavailable
<1>22. ASSUME NEW w \in Threads, WriteMetaFails(w) PROVE Swept'
  BY <1>22 DEF WriteMetaFails
<1>23. ASSUME NEW w \in Threads, DeleteData(w) PROVE Swept'
  BY <1>23 DEF DeleteData
<1>24. ASSUME NEW w \in Threads, DeleteMeta(w) PROVE Swept'
  BY <1>24 DEF DeleteMeta
<1>25. ASSUME NEW w \in Threads, BeginSeries(w) PROVE Swept'
  BY <1>25 DEF BeginSeries
<1>26. ASSUME NEW w \in Threads, PurgeMeta(w) PROVE Swept'
  BY <1>26 DEF PurgeMeta
<1>27. ASSUME NEW w \in Threads, SeriesFails(w) PROVE Swept'
  BY <1>27 DEF SeriesFails
<1>28. ASSUME NEW w \in Threads, DropMeta(w) PROVE Swept'
  BY <1>28 DEF DropMeta
<1>29. ASSUME NEW w \in Workers, StartPrewarm(w) PROVE Swept'
  BY <1>29 DEF StartPrewarm
<1>30. ASSUME NEW w \in Workers, StartChat(w) PROVE Swept'
  BY <1>30 DEF StartChat
<1>31. ASSUME NEW w \in Workers, EndChat(w) PROVE Swept'
  BY <1>31 DEF EndChat
<1>32. ASSUME NEW w \in Workers, QueryRefreshed(w) PROVE Swept'
  BY <1>32 DEF QueryRefreshed
<1>33. ASSUME NEW w \in Workers, QueryFresh(w) PROVE Swept'
  BY <1>33 DEF QueryFresh
<1>34. ASSUME NEW w \in Workers, QueryMissing(w) PROVE Swept'
  BY <1>34 DEF QueryMissing
<1>35. ASSUME NEW w \in Workers, QueryUnavailable(w) PROVE Swept'
  BY <1>35 DEF QueryUnavailable
<1>36. ASSUME NEW w \in Workers, RunJq(w) PROVE Swept'
  BY <1>36 DEF RunJq
<1>37. CASE UNCHANGED vars
  BY <1>37 DEF vars
<1> QED
  BY <1>1, <1>2, <1>3, <1>4, <1>5, <1>6, <1>7, <1>8, <1>9, <1>10, <1>11,
     <1>12, <1>13, <1>14, <1>15, <1>16, <1>17, <1>18, <1>19, <1>20, <1>21,
     <1>22, <1>23, <1>24, <1>25, <1>26, <1>27, <1>28, <1>29, <1>30, <1>31,
     <1>32, <1>33, <1>34, <1>35, <1>36, <1>37 DEF Next, Refresh, Sweep,
     Query

-----------------------------------------------------------------------------
(* Theorems                                                                 *)

IInv == LockKept /\ KindFits /\ Counted /\ Written /\ Ahead /\ AllWhole /\ Swept

\* Whatever the threads, the clock, failures and crashes do, every reachable
\* state is well typed.
THEOREM TypeCorrect == Spec => []TypeOK
<1>1. Init => TypeOK
  <2> USE KindsAssumption, FetchAssumption, ThreadsAssumption
          DEF Init, Fetches, Metas, NoMeta, Threads, Points, Jobs
  <2>1. Init => FilesOK /\ ThreadsOK
    BY DEF FilesOK, ThreadsOK
  <2>2. Init => FlagsOK
    BY DEF FlagsOK
  <2> QED
    BY <2>1, <2>2 DEF TypeOK
<1>2. TypeOK /\ [Next]_vars => TypeOK'
  BY FilesStep, ThreadsStep, FlagsStep DEF TypeOK
<1> QED
  BY <1>1, <1>2, PTL DEF Spec

\* The seven parts hold together in every reachable state.
THEOREM InvariantCorrect == Spec => []IInv
<1>1. Init => IInv
  <2> USE DEF Init, NoMeta
  <2>1. Init => LockKept /\ KindFits /\ Counted /\ Written
    BY ThreadsAssumption DEF LockKept, Holding, Threads, KindFits, Sweeping, Counted, Written
  <2>2. Init => Ahead /\ AllWhole /\ Swept
    BY DEF Ahead, AllWhole, Whole, Pair, Swept
  <2> QED
    BY <2>1, <2>2 DEF IInv
<1>2. TypeOK /\ IInv /\ [Next]_vars => IInv'
  BY LockStep, KindStep, CountStep, WrittenStep, AheadStep, WholeStep, SweptStep
     DEF IInv, TypeOK
<1> QED
  BY <1>1, <1>2, TypeCorrect, PTL DEF Spec

\* A guarded snapshot at rest is whole: the data file is there exactly when
\* the meta file vouches for it, and both are of one fetch (_refresh_locked,
\* delete_user_services_snapshot and the cleanup, with failures and crashes).
THEOREM PairCorrect == Spec => []Paired
<1>1. TypeOK /\ IInv => Paired
  BY ThreadsAssumption
     DEF TypeOK, FilesOK, Metas, IInv, KindFits, Sweeping, Series, AllWhole, Whole, Pair,
         Between, Paired, AtRest, Threads
<1> QED
  BY <1>1, TypeCorrect, InvariantCorrect, PTL

\* The data file never goes back to an earlier fetch: the lock is held from
\* the fetch to the writing of what was fetched.
THEOREM NeverGoesBack == Spec => NeverBack
<1> USE DEF files, clock, lease, threads, sweep
<1>1. ASSUME TypeOK, IInv, Next
      PROVE  Guarded => data' = 0 \/ data' >= data
  <2> USE DEF TypeOK, FilesOK, Fetches
  <2>1. ASSUME NEW w \in Threads, ReplaceData(w)
        PROVE  Guarded => data' = 0 \/ data' >= data
    BY <1>1, <2>1 DEF ReplaceData, IInv, Counted
  <2>2. ASSUME NEW w \in Threads, Refresh(w), ~ReplaceData(w)
        PROVE  data' \in {0, data}
    BY <2>2 DEF Refresh, LockTimesOut, FindRefreshed, BeginRefresh, FetchSucceeds, FetchFails,
         ReplaceMeta, ReplaceFails, KeepFresh, DropData, WriteUnavailable, WriteMetaFails,
         DeleteData, DeleteMeta, BeginSeries, PurgeMeta, SeriesFails, DropMeta
  <2>3. ASSUME NEW w \in Workers, Query(w)
        PROVE  data' = data
    BY <2>3 DEF Query, StartPrewarm, StartChat, EndChat, QueryRefreshed, QueryFresh,
         QueryMissing, QueryUnavailable, RunJq
  <2>4. CASE RenewLease \/ IdleTimeout \/ Tick \/ Sweep \/ TtlElapses \/ Crash
    <3>1. data' \in {0, data}
      BY <2>4 DEF RenewLease, IdleTimeout, Tick, Sweep, BeginSweep, SweepRead, SweepData,
           SweepMeta, SweepOrphans, TtlElapses, Crash
    <3> QED
      BY <3>1
  <2> QED
    BY <1>1, <2>1, <2>2, <2>3, <2>4 DEF Next
<1>2. TypeOK /\ IInv /\ [Next]_vars => [Guarded => data' = 0 \/ data' >= data]_vars
  BY <1>1
<1> QED
  BY <1>2, TypeCorrect, InvariantCorrect, PTL DEF Spec, NeverBack

\* A query of a guarded kind turns to the data only when these are in time:
\* the meta file it looked at does not vouch for more than the data file is.
THEOREM InTimeServed == Spec => ServedInTime
<1> DEFINE Goal == \A w \in Workers :
        Guarded /\ pc[w] \in {"chat", "lock", "review"} /\ pc'[w] = "jq" => data > expired
<1> USE DEF files, clock, lease, threads, sweep
<1>1. ASSUME TypeOK, IInv, Next
      PROVE  Goal
  <2> SUFFICES ASSUME NEW w \in Workers, Guarded, pc[w] \in {"chat", "lock", "review"},
                      pc'[w] = "jq"
               PROVE  data > expired
    OBVIOUS
  <2> USE DEF TypeOK, FilesOK, ThreadsOK, Fetches, Metas, Threads
  <2>1. CASE Usable
    <3>1. data >= meta.of /\ meta.of > expired
      BY <1>1, <2>1 DEF IInv, Ahead, Usable, InTime
    <3>2. data \in Nat /\ meta.of \in Nat /\ expired \in Nat
      BY <1>1
    <3> QED
      BY <3>1, <3>2
  <2>2. CASE ~Usable
    <3> USE DEF GoTo, EndRefresh, AfterRefresh, Answered
    <3>1. ASSUME NEW v \in Threads, Refresh(v)
          PROVE  FALSE
      <4>1. CASE v # w
        BY <1>1, <3>1, <4>1 DEF Refresh, LockTimesOut, FindRefreshed, BeginRefresh,
             FetchSucceeds, FetchFails, ReplaceData, ReplaceMeta, ReplaceFails, KeepFresh,
             DropData, WriteUnavailable, WriteMetaFails, DeleteData, DeleteMeta, BeginSeries,
             PurgeMeta, SeriesFails, DropMeta
      <4>2. CASE v = w
        <5>1. LockTimesOut(w) \/ FindRefreshed(w) \/ BeginRefresh(w) \/ BeginSeries(w)
          BY <3>1, <4>2 DEF Refresh, FetchSucceeds, FetchFails, ReplaceData, ReplaceMeta,
               ReplaceFails, KeepFresh, DropData, WriteUnavailable, WriteMetaFails, DeleteData,
               DeleteMeta, PurgeMeta, SeriesFails, DropMeta
        <5>2. CASE LockTimesOut(w)
          BY <1>1, <5>2 DEF LockTimesOut
        <5>3. CASE BeginRefresh(w) \/ BeginSeries(w)
          BY <1>1, <5>3 DEF BeginRefresh, BeginSeries
        <5> QED
          BY <2>2, <5>1, <5>2, <5>3 DEF FindRefreshed
      <4> QED
        BY <4>1, <4>2
    <3>2. ASSUME NEW v \in Workers, Query(v)
          PROVE  FALSE
      BY <1>1, <2>2, <3>2 DEF Query, StartPrewarm, StartChat, EndChat, QueryRefreshed,
           QueryFresh, QueryMissing, QueryUnavailable, RunJq
    <3>3. CASE RenewLease \/ IdleTimeout \/ Tick \/ Sweep \/ TtlElapses \/ Crash
      BY <1>1, <3>3, ThreadsAssumption DEF RenewLease, IdleTimeout, Tick, Sweep, BeginSweep,
           SweepRead, SweepData, SweepMeta, SweepOrphans, TtlElapses, Crash
    <3> QED
      BY <1>1, <3>1, <3>2, <3>3 DEF Next
  <2> QED
    BY <2>1, <2>2
<1>2. TypeOK /\ IInv /\ [Next]_vars => [Goal]_vars
  BY <1>1
<1> QED
  BY <1>2, TypeCorrect, InvariantCorrect, PTL DEF Spec, ServedInTime

\* The cleanup of the series takes a series in time from the queries only when
\* a refresh wrote while it was on its way (metric_cleanup.py).
THEOREM SweepCorrect == Spec => SweepSpares
<1> DEFINE Goal == (kind \in Series /\ pc'[Loop] # pc[Loop] /\ Usable /\ ~Usable') => touched
<1> USE DEF files, clock, lease, threads, sweep
<1>1. ASSUME TypeOK, IInv, Next
      PROVE  Goal
  <2> SUFFICES ASSUME kind \in Series, pc'[Loop] # pc[Loop], Usable, ~Usable', ~touched
               PROVE  FALSE
    OBVIOUS
  <2> USE ThreadsAssumption
      DEF TypeOK, FilesOK, ThreadsOK, Fetches, Metas, Threads, Usable, InTime, IInv, KindFits,
          Swept, Series, Sweeping, GoTo, NoMeta
  <2>1. ASSUME NEW v \in Threads, Refresh(v)
        PROVE  FALSE
    <3>1. v # Loop
      BY <1>1, <2>1 DEF Refresh, LockTimesOut, FindRefreshed, BeginRefresh, FetchSucceeds,
           FetchFails, ReplaceData, ReplaceMeta, ReplaceFails, KeepFresh, DropData,
           WriteUnavailable, WriteMetaFails, DeleteData, DeleteMeta, BeginSeries, PurgeMeta,
           SeriesFails, DropMeta
    <3> QED
      BY <1>1, <2>1, <3>1 DEF Refresh, EndRefresh, LockTimesOut, FindRefreshed, BeginRefresh,
           FetchSucceeds, FetchFails, ReplaceData, ReplaceMeta, ReplaceFails, KeepFresh,
           DropData, WriteUnavailable, WriteMetaFails, DeleteData, DeleteMeta, BeginSeries,
           PurgeMeta, SeriesFails, DropMeta
  <2>2. ASSUME NEW v \in Workers, Query(v)
        PROVE  FALSE
    BY <1>1, <2>2 DEF Query, Answered, StartPrewarm, StartChat, EndChat, QueryRefreshed,
         QueryFresh, QueryMissing, QueryUnavailable, RunJq
  <2>3. CASE Sweep
    BY <1>1, <2>3 DEF Sweep, BeginSweep, SweepRead, SweepData, SweepMeta, SweepOrphans
  <2>4. CASE RenewLease \/ IdleTimeout \/ Tick \/ TtlElapses \/ Crash
    BY <1>1, <2>4 DEF RenewLease, IdleTimeout, Tick, TtlElapses, Crash
  <2> QED
    BY <1>1, <2>1, <2>2, <2>3, <2>4 DEF Next
<1>2. TypeOK /\ IInv /\ [Next]_vars => [Goal]_vars
  BY <1>1
<1> QED
  BY <1>2, TypeCorrect, InvariantCorrect, PTL DEF Spec, SweepSpares

=============================================================================
