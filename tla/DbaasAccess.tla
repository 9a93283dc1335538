----------------------------- MODULE DbaasAccess -----------------------------
(***************************************************************************)
(* Who may see and use what: the headers that the AI agent sends for an    *)
(* identity, for one of its background jobs or for a user whose snapshot   *)
(* it renews (dbaas/auth.py), and what the DBAAS takes them for and lets   *)
(* them see (the mock server's auth.py and routes).                        *)
(*                                                                         *)
(* A service belongs to a user and to an owner account, either of which    *)
(* may be missing; to both it is their own.  Nothing changes that.         *)
(***************************************************************************)
CONSTANTS
    Users,
    AdminName,      \* the name "admin", which no single person bears
    Services,
    UserOf,         \* [Services -> Users \cup {NoUser}]
    OwnerOf         \* [Services -> Users \cup {NoUser}], the owner account

NoUser == "none"

ASSUME OwnersAssumption ==
    /\ NoUser \notin Users
    /\ UserOf \in [Services -> Users \cup {NoUser}]
    /\ OwnerOf \in [Services -> Users \cup {NoUser}]

-----------------------------------------------------------------------------
(* What the agent sends                                                     *)

Identities == [user : Users, role : {"admin", "user"}]

\* dbaas_identity_headers, dbaas_system_headers and dbaas_user_headers
IdentityHeaders(id) == [token |-> id.role, actor |-> id.user, role |-> id.role]
SystemHeaders       == [token |-> "admin", actor |-> "dbaas-ai-agent", role |-> "system"]
UserHeaders(user)   == [token |-> "user", actor |-> user, role |-> "user"]

Headers == {IdentityHeaders(id) : id \in Identities}
               \cup {SystemHeaders} \cup {UserHeaders(user) : user \in Users}

\* The agent itself lets administrators only look at hosts, clusters and
\* network segments.
PlatformQueried(id) == id.role = "admin"

-----------------------------------------------------------------------------
(* What the server makes of it                                              *)

Unauthorized == [role |-> "none", user |-> NoUser]

\* An administrator is a person with a name, or the agent itself.
AdminCall(h) ==
    /\ h.token = "admin"
    /\ h.role = "system" \/ (h.role = "admin" /\ h.actor # AdminName)

\* get_current_user
CurrentUser ==
    [h \in Headers |->
        CASE AdminCall(h)                         -> [role |-> "admin", user |-> NoUser]
          [] h.token = "user" /\ h.role = "user"  -> [role |-> "user", user |-> h.actor]
          [] OTHER                                -> Unauthorized]

Known(h)   == CurrentUser[h] # Unauthorized
IsAdmin(h) == CurrentUser[h].role = "admin"

ServiceMatchesUser(s, user) == user # NoUser /\ user \in {UserOf[s], OwnerOf[s]}

\* ensure_service_access, before a service is read, checked or changed.
MayUse(h, s) == Known(h) /\ (IsAdmin(h) \/ ServiceMatchesUser(s, CurrentUser[h].user))

\* list_services, with or without a user to filter by (resolve_service_user_filter).
MayAskFor(h, user) == Known(h) /\ (IsAdmin(h) \/ user \in {NoUser, CurrentUser[h].user})

ServicesListed(h, user) ==
    {s \in Services :
        /\ MayAskFor(h, user)
        /\ IF IsAdmin(h) THEN user = NoUser \/ ServiceMatchesUser(s, user)
                         ELSE ServiceMatchesUser(s, CurrentUser[h].user)}

\* get_user tells of the services of one user, to that user and administrators.
MayAskAbout(h, user) == Known(h) /\ (IsAdmin(h) \/ CurrentUser[h].user = user)

UserServices(h, user) ==
    {s \in Services : MayAskAbout(h, user) /\ ServiceMatchesUser(s, user)}

\* require_admin_user, before anything of the platform's is read.
PlatformShown(h) == Known(h) /\ IsAdmin(h)

\* Faulty: the owner account is forgotten.
BackupOfUser(s, user) == user = UserOf[s]

\* _backup_matches_user: a record carries the user of its service as its owner.
BackupMatchesUser(s, user) == user = UserOf[s] \/ ServiceMatchesUser(s, user)

\* list_backups
BackupListed(h, s) == Known(h) /\ (IsAdmin(h) \/ BackupMatchesUser(s, CurrentUser[h].user))

\* list_unit_metric_history looks at the two accounts itself.
HistoryShown(h, s) ==
    Known(h) /\ (IsAdmin(h) \/ CurrentUser[h].user = UserOf[s] \/ CurrentUser[h].user = OwnerOf[s])

\* list_latest_metrics: the services whose units it has points of, for one that
\* is asked for or for all of them.
MetricServices(h, asked) ==
    {s \in Services :
        IF asked = "none"
        THEN Known(h) /\ (IsAdmin(h) \/ ServiceMatchesUser(s, CurrentUser[h].user))
        ELSE s = asked /\ MayUse(h, s)}

=============================================================================
