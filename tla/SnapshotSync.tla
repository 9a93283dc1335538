----------------------------- MODULE SnapshotSync -----------------------------
(***************************************************************************)
(* One snapshot of DBAAS data: a data file and a meta file that vouches    *)
(* for it until expires_at.                                                *)
(*                                                                         *)
(* Five protocols keep such pairs, and kind says which one runs:           *)
(*   "user"   services of a user: refreshed by prewarms, a loop and        *)
(*            queries under the user's lock, deleted when the lease of the *)
(*            user ran out (service_sync.py, service_query.py,             *)
(*            background.py);                                              *)
(*   "admin"  services of the platform: the same code, without the lock;   *)
(*   "lazy"   hosts, backups, clusters and network segments: refreshed by  *)
(*            the query that finds them expired, under a lock of the kind  *)
(*            (host_sync.py has a loop too), with one body in four files;  *)
(*   "latest" a metric's latest values: refreshed by the query that finds  *)
(*            them expired, under a lock of the metric; the old pair is    *)
(*            deleted before the request (metric_sync.py);                 *)
(*   "history" a metric's values in a span of time: the same without the   *)
(*            lock (metric_history.py).  A cleanup deletes what is expired *)
(*            or alone of both, without a lock (metric_cleanup.py).        *)
(*                                                                         *)
(* Fetches are numbered; expired is the last one whose expires_at passed.  *)
(* A crash keeps the files and loses locks, leases and threads.            *)
(***************************************************************************)
EXTENDS Naturals

CONSTANTS
    Workers,    \* threads that serve chats and prewarms
    Loop,       \* the thread of the background loop
    NoOne,      \* owner of the free refresh lock
    Kinds,      \* the protocols looked at
    MaxFetch    \* fetches that succeed

ASSUME ThreadsAssumption == Loop \notin Workers /\ NoOne \notin Workers \cup {Loop}
ASSUME KindsAssumption   == Kinds \subseteq {"user", "admin", "lazy", "latest", "history"}
ASSUME FetchAssumption   == MaxFetch \in Nat \ {0}

VARIABLES
    kind,       \* which snapshot this is; never changes
    \* Durable
    data,       \* the fetch the data file came from; 0: no file
    meta,       \* the meta file
    \* DBAAS and the clock
    fetched,    \* fetches made so far
    expired,    \* fetches up to this one are past their expires_at
    \* In memory
    lock,       \* owner of the refresh lock
    leased,     \* the user has a lease
    idle,       \* and did not renew it in time
    prewarm,    \* a prewarm is queued
    pc, job,    \* [Threads -> ...]
    current,    \* the fetch of the fresh meta a refresh found; 0: none
    got,        \* what a refresh fetched
    view,       \* the fetch of the meta that vouched for a query
    now,        \* expired as the cleanup took the time
    \* History
    torn,       \* a writer stopped between the two files, or lost one of them
    touched     \* a refresh has written since then

files   == <<data, meta>>
clock   == <<fetched, expired>>
lease   == <<leased, idle, prewarm>>
threads == <<pc, job, current, got, view>>
sweep   == <<now, touched>>
vars    == <<kind, files, clock, lock, lease, threads, torn, sweep>>

Threads == Workers \cup {Loop}
Series  == {"latest", "history"}
Fetches == 0..MaxFetch
Metas   == [status : {"none", "fresh", "error"}, of : Fetches]
Points  == {"idle", "chat", "lock", "fetch", "data", "meta", "failed", "dropped",
            "reap", "unlink", "review", "jq",
            "purge", "read", "gone", "lone", "stale", "alone", "orphans"}
Jobs    == {"none", "sync", "prewarm", "missing", "refresh", "lazy"}

NoMeta    == [status |-> "none", of |-> 0]
ErrorMeta == [status |-> "error", of |-> 0]
FreshMeta(n) == [status |-> "fresh", of |-> n]

FilesOK ==
    /\ kind \in Kinds
    /\ data \in Fetches /\ meta \in Metas
    /\ fetched \in Fetches /\ expired \in 0..fetched /\ now \in Fetches
    /\ lock \in Threads \cup {NoOne}

ThreadsOK ==
    /\ pc \in [Threads -> Points] /\ job \in [Threads -> Jobs]
    /\ current \in [Threads -> Fetches] /\ got \in [Threads -> Fetches]
    /\ view \in [Threads -> Fetches]

FlagsOK ==
    /\ leased \in BOOLEAN /\ idle \in BOOLEAN /\ prewarm \in BOOLEAN
    /\ torn \in BOOLEAN /\ touched \in BOOLEAN

TypeOK == FilesOK /\ ThreadsOK /\ FlagsOK

Init ==
    /\ kind \in Kinds
    /\ data = 0 /\ meta = NoMeta
    /\ fetched = 0 /\ expired = 0
    /\ lock = NoOne
    /\ leased = FALSE /\ idle = FALSE /\ prewarm = FALSE
    /\ pc = [w \in Threads |-> "idle"] /\ job = [w \in Threads |-> "none"]
    /\ current = [w \in Threads |-> 0]
    /\ got = [w \in Threads |-> 0]
    /\ view = [w \in Threads |-> 0]
    /\ torn = FALSE /\ now = 0 /\ touched = FALSE

-----------------------------------------------------------------------------
(* Helpers                                                                  *)

\* Faulty: a fresh status is taken for a fresh snapshot.
SaysFresh(m) == m.status = "fresh"

\* is_meta_fresh, and _is_snapshot_fresh with the files there.
InTime(m) == m.status = "fresh" /\ m.of > expired
Usable    == InTime(meta) /\ data # 0

Guarded == kind \notin {"admin", "history"}

\* The query refreshes, and uses what the refresh returned.
Lazy == kind \in {"lazy"} \cup Series

\* Faulty: a wait that timed out is taken for the lock.
LockFree == TRUE

RefreshLockFree == Guarded => lock = NoOne
TakeLock(w) == lock' = IF Guarded THEN w ELSE lock
FreeLock(w) == lock' = IF lock = w THEN NoOne ELSE lock

GoTo(w, point) == pc' = [pc EXCEPT ![w] = point]

\* Faulty: after a failure a thread goes back to its job, not to a step of it.
BackToJob(w, ok) == IF ok THEN "review" ELSE job[w]

\* What follows a refresh: a job of its own is over; a query of services reads
\* the meta file again, a lazy one uses what the refresh returned.
AfterRefresh(w, ok) ==
    IF job[w] \in {"sync", "prewarm"} THEN "idle"
    ELSE IF job[w] = "missing" \/ (ok /\ ~Lazy) THEN "review"
    ELSE IF ok THEN "jq" ELSE "chat"

\* A refresh ends, with a snapshot that vouches for n.
EndRefresh(w, ok, n) ==
    /\ GoTo(w, AfterRefresh(w, ok))
    /\ job' = [job EXCEPT ![w] = "none"]
    /\ current' = [current EXCEPT ![w] = 0]
    /\ got' = [got EXCEPT ![w] = 0]
    /\ view' = [view EXCEPT ![w] = IF Lazy /\ AfterRefresh(w, ok) = "jq" THEN n ELSE 0]

\* A query has its answer, from the data or not.
Answered(w) ==
    /\ GoTo(w, "chat")
    /\ view' = [view EXCEPT ![w] = 0]

-----------------------------------------------------------------------------
(* Leases (the user's services only)                                        *)

\* renew_user_lease, from a session route: a prewarm is queued as well.
RenewLease ==
    /\ kind = "user"
    /\ leased' = TRUE /\ idle' = FALSE /\ prewarm' = TRUE
    /\ UNCHANGED <<kind, sweep, files, clock, lock, threads, torn>>

\* user_active_idle_timeout_seconds without a renewal.
IdleTimeout ==
    /\ leased /\ ~idle
    /\ idle' = TRUE
    /\ UNCHANGED <<kind, sweep, files, clock, lock, leased, prewarm, threads, torn>>

\* _prewarm_user gets a thread.
StartPrewarm(w) ==
    /\ pc[w] = "idle" /\ prewarm
    /\ prewarm' = FALSE
    /\ job' = [job EXCEPT ![w] = "prewarm"]
    /\ GoTo(w, "lock")
    /\ UNCHANGED <<kind, sweep, files, clock, lock, leased, idle, current, got, view, torn>>

\* One turn of the background loop: an idle user's lease is dropped and its
\* files will be deleted; what is active, or the platform's, is refreshed.
Tick ==
    /\ pc[Loop] = "idle" /\ kind \notin Series
    /\ kind = "user" => leased
    /\ IF kind = "user" /\ idle
       THEN /\ leased' = FALSE /\ idle' = FALSE
            /\ GoTo(Loop, "reap")
            /\ UNCHANGED job
       ELSE /\ job' = [job EXCEPT ![Loop] = "sync"]
            /\ GoTo(Loop, "lock")
            /\ UNCHANGED <<leased, idle>>
    /\ UNCHANGED <<kind, sweep, files, clock, lock, prewarm, current, got, view, torn>>

\* delete_user_services_snapshot waits for the lock and removes both files.
DeleteData(w) ==
    /\ pc[w] = "reap"
    /\ RefreshLockFree /\ TakeLock(w)
    /\ data' = 0
    /\ GoTo(w, "unlink")
    /\ UNCHANGED <<kind, sweep, meta, clock, lease, job, current, got, view, torn>>

DeleteMeta(w) ==
    /\ pc[w] = "unlink"
    /\ meta' = NoMeta
    /\ FreeLock(w)
    /\ torn' = FALSE
    /\ GoTo(w, "idle")
    /\ UNCHANGED <<kind, sweep, data, clock, lease, job, current, got, view>>

-----------------------------------------------------------------------------
(* Refreshing                                                               *)

\* lock.acquire(timeout) gives up; for users' services the loop does not wait.
LockTimesOut(w) ==
    /\ pc[w] = "lock" /\ ~RefreshLockFree
    /\ EndRefresh(w, FALSE, 0)
    /\ UNCHANGED <<kind, sweep, files, clock, lock, lease, torn>>

\* _refresh_under_lock, not forced: another thread refreshed while this one
\* waited, and its snapshot is used.
FindRefreshed(w) ==
    /\ pc[w] = "lock" /\ RefreshLockFree
    /\ job[w] = "lazy" /\ kind # "history" /\ Usable
    /\ EndRefresh(w, TRUE, meta.of)
    /\ UNCHANGED <<kind, sweep, files, clock, lock, lease, torn>>

\* Services note now whether the present snapshot is fresh, the lazy kinds
\* only what it is.
BeginRefresh(w) ==
    /\ pc[w] = "lock" /\ kind \notin Series
    /\ RefreshLockFree /\ TakeLock(w)
    /\ ~(job[w] = "lazy" /\ Usable)
    /\ LET fresh == IF kind = "lazy" THEN meta.status = "fresh" ELSE Usable
       IN  current' = [current EXCEPT ![w] = IF fresh THEN meta.of ELSE 0]
    /\ GoTo(w, "fetch")
    /\ UNCHANGED <<kind, sweep, files, clock, lease, job, got, view, torn>>

FetchSucceeds(w) ==
    /\ pc[w] = "fetch" /\ fetched < MaxFetch
    /\ fetched' = fetched + 1
    /\ got' = [got EXCEPT ![w] = fetched + 1]
    /\ GoTo(w, "data")
    /\ UNCHANGED <<kind, sweep, files, expired, lock, lease, job, current, view, torn>>

\* No answer, a refusal, or no array of objects.
FetchFails(w) ==
    /\ pc[w] = "fetch" /\ kind \notin Series
    /\ GoTo(w, "failed")
    /\ UNCHANGED <<kind, sweep, files, clock, lock, lease, job, current, got, view, torn>>

\* replace_file_atomic, the data file first ...
ReplaceData(w) ==
    /\ pc[w] = "data"
    /\ data' = got[w]
    /\ GoTo(w, "meta")
    /\ touched' = (kind \in Series)
    /\ UNCHANGED <<kind, now, meta, clock, lock, lease, job, current, got, view, torn>>

\* ... then the meta file.
ReplaceMeta(w) ==
    /\ pc[w] = "meta"
    /\ meta' = FreshMeta(got[w])
    /\ EndRefresh(w, TRUE, got[w])
    /\ FreeLock(w)
    /\ torn' = (torn /\ kind \in Series)
    /\ touched' = (kind \in Series)
    /\ UNCHANGED <<kind, now, data, clock, lease>>

\* A file cannot be written: the rest of the refresh is that of a failure.
ReplaceFails(w) ==
    /\ pc[w] \in {"data", "meta"}
    /\ torn' = (torn \/ pc[w] = "meta")
    /\ GoTo(w, "failed")
    /\ UNCHANGED <<kind, sweep, files, clock, lock, lease, job, current, got, view>>

\* Services trust what they noted before the fetch, the lazy kinds look now.
StillFresh(w) ==
    current[w] # 0 /\ (kind = "lazy" => current[w] > expired /\ data # 0)

\* _write_fresh_error_meta: the meta found before, with the error noted.
KeepFresh(w) ==
    /\ pc[w] = "failed" /\ StillFresh(w)
    /\ meta' = FreshMeta(current[w])
    /\ EndRefresh(w, FALSE, 0)
    /\ FreeLock(w)
    /\ UNCHANGED <<kind, sweep, data, clock, lease, torn>>

\* Faulty: only the meta file says that there is no snapshot.
LeaveData(w) ==
    /\ pc[w] = "failed" /\ ~StillFresh(w)
    /\ GoTo(w, "dropped")
    /\ UNCHANGED <<kind, sweep, files, clock, lock, lease, job, current, got, view, torn>>

\* Without a fresh snapshot the data file is removed ...
DropData(w) ==
    /\ pc[w] = "failed" /\ ~StillFresh(w)
    /\ data' = 0
    /\ GoTo(w, "dropped")
    /\ UNCHANGED <<kind, sweep, meta, clock, lock, lease, job, current, got, view, torn>>

\* ... and _write_unavailable_meta says so.
WriteUnavailable(w) ==
    /\ pc[w] = "dropped" /\ kind \notin Series
    /\ meta' = ErrorMeta
    /\ EndRefresh(w, FALSE, 0)
    /\ FreeLock(w)
    /\ torn' = FALSE
    /\ UNCHANGED <<kind, sweep, data, clock, lease>>

\* Neither of the two can be written: the error passes through the query too.
WriteMetaFails(w) ==
    /\ kind \notin Series
    /\ pc[w] = "dropped" \/ (pc[w] = "failed" /\ StillFresh(w))
    /\ torn' = (torn \/ pc[w] = "dropped")
    /\ FreeLock(w)
    /\ GoTo(w, IF job[w] \in {"sync", "prewarm"} THEN "idle" ELSE "chat")
    /\ job' = [job EXCEPT ![w] = "none"]
    /\ current' = [current EXCEPT ![w] = 0]
    /\ got' = [got EXCEPT ![w] = 0]
    /\ UNCHANGED <<kind, sweep, files, clock, lease, view>>

-----------------------------------------------------------------------------
(* Metric series                                                            *)

\* ensure_latest_snapshot looks once more under the lock, and
\* ensure_history_snapshot has none; then _delete_snapshot, the data first.
BeginSeries(w) ==
    /\ pc[w] = "lock" /\ kind \in Series
    /\ RefreshLockFree /\ TakeLock(w)
    /\ kind = "latest" => ~Usable
    /\ data' = 0
    /\ GoTo(w, "purge")
    /\ UNCHANGED <<kind, sweep, meta, clock, lease, job, current, got, view, torn>>

PurgeMeta(w) ==
    /\ pc[w] = "purge"
    /\ meta' = NoMeta
    /\ torn' = FALSE
    /\ GoTo(w, "fetch")
    /\ UNCHANGED <<kind, sweep, data, clock, lock, lease, job, current, got, view>>

\* The request fails: the query answers an error, and nothing comes back.
SeriesFails(w) ==
    /\ pc[w] = "fetch" /\ kind \in Series
    /\ EndRefresh(w, FALSE, 0)
    /\ FreeLock(w)
    /\ UNCHANGED <<kind, sweep, files, clock, lease, torn>>

\* A file could not be written: _delete_snapshot again, the data by DropData.
DropMeta(w) ==
    /\ pc[w] = "dropped" /\ kind \in Series
    /\ meta' = NoMeta
    /\ EndRefresh(w, FALSE, 0)
    /\ FreeLock(w)
    /\ torn' = FALSE
    /\ UNCHANGED <<kind, sweep, data, clock, lease>>

\* The cleanup takes the time and lists the directory.
BeginSweep ==
    /\ pc[Loop] = "idle" /\ kind \in Series
    /\ now' = expired /\ touched' = FALSE
    /\ GoTo(Loop, IF meta = NoMeta THEN "orphans" ELSE "read")
    /\ UNCHANGED <<kind, files, clock, lock, lease, job, current, got, view, torn>>

\* Faulty: a meta file counts as expired at the time it is looked at or not.
Doomed(m) == m.of <= now + 1

\* _is_expired
Overdue(m) == m.of <= now

\* The meta file, if it is still there, and whether it has its data.
SweepRead ==
    /\ pc[Loop] = "read"
    /\ GoTo(Loop, CASE meta = NoMeta   -> "gone"
                    [] data = 0        -> "lone"
                    [] Overdue(meta)   -> "stale"
                    [] OTHER           -> "orphans")
    /\ UNCHANGED <<kind, sweep, files, clock, lock, lease, job, current, got, view, torn>>

\* The data of an expired pair, or data without a meta file.  A refresh may be
\* between its two replacements.
SweepData ==
    /\ pc[Loop] \in {"stale", "alone"}
    /\ data' = 0
    /\ torn' = (torn \/ (\E w \in Workers : pc[w] = "meta")
                     \/ (pc[Loop] = "alone" /\ meta # NoMeta))
    /\ GoTo(Loop, IF pc[Loop] = "stale" THEN "lone" ELSE "orphans")
    /\ UNCHANGED <<kind, sweep, meta, clock, lock, lease, job, current, got, view>>

\* The meta file of an expired pair, or one without data; or, first, one that
\* could not be read, because it was deleted meanwhile.
SweepMeta ==
    /\ pc[Loop] \in {"lone", "gone"}
    /\ meta' = NoMeta
    /\ GoTo(Loop, IF pc[Loop] = "lone" THEN "orphans" ELSE "alone")
    /\ UNCHANGED <<kind, sweep, data, clock, lock, lease, job, current, got, view, torn>>

\* Last, data without a meta file.
SweepOrphans ==
    /\ pc[Loop] = "orphans"
    /\ GoTo(Loop, IF data # 0 /\ meta = NoMeta THEN "alone" ELSE "idle")
    /\ UNCHANGED <<kind, sweep, files, clock, lock, lease, job, current, got, view, torn>>

-----------------------------------------------------------------------------
(* Queries                                                                  *)

\* A chat run; the route that starts it renews the user's lease.
StartChat(w) ==
    /\ pc[w] = "idle"
    /\ IF kind = "user"
       THEN leased' = TRUE /\ idle' = FALSE /\ prewarm' = TRUE
       ELSE UNCHANGED lease
    /\ GoTo(w, "chat")
    /\ UNCHANGED <<kind, sweep, files, clock, lock, job, current, got, view, torn>>

EndChat(w) ==
    /\ pc[w] = "chat"
    /\ GoTo(w, "idle")
    /\ UNCHANGED <<kind, sweep, files, clock, lock, lease, job, current, got, view, torn>>

\* refresh=true: the snapshot is refreshed first.
QueryRefreshed(w) ==
    /\ pc[w] = "chat" /\ kind \notin Series
    /\ job' = [job EXCEPT ![w] = "refresh"]
    /\ GoTo(w, "lock")
    /\ UNCHANGED <<kind, sweep, files, clock, lock, lease, current, got, view, torn>>

\* The snapshot is fresh: jq will read the data file, without the lock.
\* A query of services that comes back from a refresh looks once more.
QueryFresh(w) ==
    /\ pc[w] \in {"chat", "review"} /\ Usable
    /\ view' = [view EXCEPT ![w] = meta.of]
    /\ GoTo(w, "jq")
    /\ UNCHANGED <<kind, sweep, files, clock, lock, lease, job, current, got, torn>>

\* Not fresh: a lazy kind or a series refreshes; services refresh for a user whose
\* snapshot is missing.  In every other case the query answers an error.
Missing ==
    \/ Lazy /\ ~Usable
    \/ /\ kind = "user"
       /\ meta = NoMeta \/ (InTime(meta) /\ data = 0)

QueryMissing(w) ==
    /\ pc[w] = "chat" /\ Missing
    /\ job' = [job EXCEPT ![w] = IF Lazy THEN "lazy" ELSE "missing"]
    /\ GoTo(w, "lock")
    /\ UNCHANGED <<kind, sweep, files, clock, lock, lease, current, got, view, torn>>

QueryUnavailable(w) ==
    /\ pc[w] = "review" /\ ~Usable
    /\ Answered(w)
    /\ UNCHANGED <<kind, sweep, files, clock, lock, lease, job, current, got, torn>>

\* query_snapshot_with_jq: reads what the data file now is, or fails.
RunJq(w) ==
    /\ pc[w] = "jq"
    /\ Answered(w)
    /\ UNCHANGED <<kind, sweep, files, clock, lock, lease, job, current, got, torn>>

-----------------------------------------------------------------------------

TtlElapses ==
    /\ expired < fetched
    /\ expired' = expired + 1
    /\ UNCHANGED <<kind, sweep, files, fetched, lock, lease, threads, torn>>

\* Between the two files of a refresh, a deletion or a cleanup.
Midway == {"meta", "dropped", "unlink", "purge", "gone", "lone", "stale", "alone", "orphans"}

\* The process dies and restarts; leases are not restored.
Crash ==
    /\ ~\A w \in Threads : pc[w] = "idle"
    /\ torn' = (torn \/ \E w \in Threads : pc[w] \in Midway)
    /\ lock' = NoOne
    /\ leased' = FALSE /\ idle' = FALSE /\ prewarm' = FALSE
    /\ pc' = [w \in Threads |-> "idle"] /\ job' = [w \in Threads |-> "none"]
    /\ current' = [w \in Threads |-> 0]
    /\ got' = [w \in Threads |-> 0]
    /\ view' = [w \in Threads |-> 0]
    /\ UNCHANGED <<kind, sweep, files, clock>>

Refresh(w) ==
    \/ LockTimesOut(w) \/ FindRefreshed(w) \/ BeginRefresh(w)
    \/ FetchSucceeds(w) \/ FetchFails(w)
    \/ ReplaceData(w) \/ ReplaceMeta(w) \/ ReplaceFails(w)
    \/ KeepFresh(w) \/ DropData(w) \/ WriteUnavailable(w) \/ WriteMetaFails(w)
    \/ DeleteData(w) \/ DeleteMeta(w)
    \/ BeginSeries(w) \/ PurgeMeta(w) \/ SeriesFails(w) \/ DropMeta(w)

Sweep == BeginSweep \/ SweepRead \/ SweepData \/ SweepMeta \/ SweepOrphans

Query(w) ==
    \/ StartPrewarm(w) \/ StartChat(w) \/ EndChat(w)
    \/ QueryRefreshed(w) \/ QueryFresh(w) \/ QueryMissing(w)
    \/ QueryUnavailable(w) \/ RunJq(w)

Next ==
    \/ RenewLease \/ IdleTimeout \/ Tick \/ Sweep \/ TtlElapses \/ Crash
    \/ \E w \in Threads : Refresh(w)
    \/ \E w \in Workers : Query(w)

Spec == Init /\ [][Next]_vars

-----------------------------------------------------------------------------
(* Properties                                                               *)

\* jq runs only on data that are in time: when a query turns to the data file
\* because it found a fresh meta file, the data themselves are not past their
\* expires_at.  (A lazy query that has just fetched them does not look again.)
ServedInTime ==
    [][\A w \in Workers :
        Guarded /\ pc[w] \in {"chat", "lock", "review"} /\ pc'[w] = "jq" => data > expired]_vars

\* No refresh or deletion is between its first and its last step, and none
\* stopped between the two files.
AtRest ==
    /\ \A w \in Threads :
          pc[w] \notin {"fetch", "data", "meta", "failed", "dropped", "unlink",
                        "purge", "gone", "lone", "stale", "alone", "orphans"}
    /\ ~torn

\* A snapshot at rest is whole, whichever refreshes and deletions met: the data
\* file is there exactly when the meta file vouches for it, and both are of one
\* fetch.
Paired ==
    AtRest /\ Guarded =>
        /\ meta.status = "fresh" <=> data # 0
        /\ meta.status = "fresh" => meta.of = data

\* The data file, which a query reads without the lock after it looked at the
\* meta file, never goes back to an earlier fetch.
NeverBack == [][Guarded => data' = 0 \/ data' >= data]_vars

\* The cleanup, which takes no lock and works on what it read before, takes a
\* series in time from the queries only when a refresh wrote while it was on
\* its way.
SweepSpares ==
    [][(kind \in Series /\ pc'[Loop] # pc[Loop] /\ Usable /\ ~Usable') => touched]_vars

\* "the platform's snapshot needs no lock": at rest, the data file is at least
\* as new as the fetch whose meta vouches for it
NoLockNeeded == AtRest /\ meta.status = "fresh" => data >= meta.of

=============================================================================
