--------------------------- MODULE AccessControl ---------------------------
(***************************************************************************)
(* Users, roles and the first-time setup: app/api/routes/users.py (JSON),  *)
(* admin_roles.py and the user pages of admin_pages.py (browser), setup.py *)
(* and the registration of auth.py, with the resolver of                   *)
(* app/core/permissions.py and the seeding of app/services/rbac.py.        *)
(*                                                                         *)
(* A user carries the name of his role, not its id: what he is granted is  *)
(* looked up by that name whenever he acts, and a rename has to take the   *)
(* users along.  The users' table has no foreign key that would help.      *)
(*                                                                         *)
(* No handler awaits anything, so in one process each is one step.  With   *)
(* several processes what was checked may no longer hold at the commit:    *)
(* that the role of a user exists, the name a role is renamed from, that   *)
(* nobody has the role that is deleted, that there is no administrator.    *)
(* (A role's name is unique by a constraint of the table as well, so that  *)
(* creating one is a single step whatever else goes on.)                   *)
(*                                                                         *)
(* Left out: emails, passwords, descriptions and organization codes, and   *)
(* the deactivation of users: no rule of the code reads is_active of a     *)
(* user.                                                                   *)
(***************************************************************************)
EXTENDS Naturals, FiniteSets, Permissions

CONSTANTS
    Organizations,      \* ids of organizations
    Users,              \* ids of users
    CustomRoles,        \* ids of the roles that administrators create
    Names,              \* names of roles that a request submits
    Submitted,          \* sets of permissions that a form submits
    Requests,           \* requests that other processes may be working on
    Null,               \* a NULL organization; no role
    PublicRegistration  \* the setting allow_public_registration

ASSUME SubmittedAssumption == \A permissions \in Submitted : permissions \subseteq Permission
ASSUME NullAssumption == Null \notin Organizations
ASSUME RoleIdAssumption == (Organizations \X {"Admin", "User"}) \cap CustomRoles = {}
ASSUME RegistrationAssumption == PublicRegistration \in BOOLEAN

VARIABLES
    organizations,  \* the organizations table
    roles,          \* the roles table with role_permissions
    users,          \* the users table
    deciding,       \* requests that are decided and not committed
    raced,          \* history: users of an organization where two requests overlapped
    reopened        \* history: the last administrator got another role, or setups overlapped

history == <<raced, reopened>>

vars == <<organizations, roles, users, deciding, history>>

Name == Names \cup {"Admin", "User", "Viewer"}

\* The seeded rows of an organization have ids of their own.
RoleId == (Organizations \X {"Admin", "User"}) \cup CustomRoles

RoleDefinition ==
    [organization : Organizations, name : Name, is_system : BOOLEAN,
     permissions : SUBSET Permission]

User == [organization : Organizations \cup {Null}, role : Name]

\* What a request has read and will write; `stale' tells that another request
\* has written in between, `edited' that it has replaced the same permissions.
Assignment ==
    [request : Requests, op : {"assign", "create"}, organization : Organizations,
     user : Users, role : Name, stale : BOOLEAN]

RoleUpdate ==
    [request : Requests, op : {"update"}, organization : Organizations, id : RoleId,
     name : Name, new : Name, permissions : Submitted, edited : BOOLEAN, stale : BOOLEAN]

RoleDeletion ==
    [request : Requests, op : {"delete"}, organization : Organizations, id : RoleId,
     stale : BOOLEAN]

Setup ==
    [request : Requests, op : {"setup"}, organization : Organizations, user : Users,
     stale : BOOLEAN]

TypeOK ==
    /\ organizations \subseteq Organizations
    /\ DOMAIN roles \subseteq RoleId /\ roles \in [DOMAIN roles -> RoleDefinition]
    /\ DOMAIN users \subseteq Users /\ users \in [DOMAIN users -> User]
    /\ deciding \subseteq Assignment \cup RoleUpdate \cup RoleDeletion \cup Setup
    /\ raced \subseteq Users
    /\ reopened \in BOOLEAN

Init ==
    /\ organizations = {}
    /\ roles = [r \in {} |-> Null]
    /\ users = [u \in {} |-> Null]
    /\ deciding = {}
    /\ raced = {}
    /\ reopened = FALSE

----------------------------------------------------------------------------
(* Looking up *)

Insert(table, id, row) ==
    [x \in DOMAIN table \cup {id} |-> IF x = id THEN row ELSE table[x]]

\* The rows of an organization's role of that name.
RolesNamed(o, name) ==
    {r \in DOMAIN roles : roles[r].organization = o /\ roles[r].name = name}

UsersWithRole(o, name) ==
    {u \in DOMAIN users : users[u].organization = o /\ users[u].role = name}

IsAssignableRole(o, name) == RolesNamed(o, name) # {} \/ name \in Role

AdminExists == \E u \in DOMAIN users : users[u].role = "Admin"

\* _resolve_from_db.
Granted(u) ==
    LET user == users[u]
        rows == RolesNamed(user.organization, user.role)
    IN  CASE user.role = "Admin"                  -> Permission
          [] user.role # "Admin" /\ rows # {}     -> UNION {roles[r].permissions : r \in rows}
          [] user.role \in Role \ {"Admin"} /\ rows = {} -> ROLE_PERMISSIONS[user.role]
          [] OTHER                                -> {}

\* require_permission: the organization is the actor's.
Requires(u, permission, o) ==
    u \in DOMAIN users /\ users[u].organization = o /\ permission \in Granted(u)

RoleInOrg(r, o) == r \in DOMAIN roles /\ roles[r].organization = o

UserInOrg(u, o) == u \in DOMAIN users /\ users[u].organization = o

IsAdminRole(r) == roles[r].is_system /\ roles[r].name = "Admin"

\* The name a role has after an update: system roles keep theirs.
RenamedTo(r, new) == IF roles[r].is_system THEN roles[r].name ELSE new

----------------------------------------------------------------------------
(* What the handlers do to the tables *)

\* Requests under way after a write, which of them replaces the permissions of
\* a role that the write has replaced as well.
Overtaken(pending, edited) ==
    {IF p.op = "update" THEN [p EXCEPT !.stale = TRUE, !.edited = @ \/ p.id \in edited]
                        ELSE [p EXCEPT !.stale = TRUE] : p \in pending}

\* The UPDATE of the users that carry the old name of a role.
\* Mutant: the users are not taken along.
Cascaded_Mutant(o, old, new) == users

Cascaded(o, old, new) ==
    [u \in DOMAIN users |->
        IF u \in UsersWithRole(o, old) THEN [users[u] EXCEPT !.role = new] ELSE users[u]]

WriteUser(o, u, role, pending) ==
    /\ users' = Insert(users, u, [organization |-> o, role |-> role])
    /\ deciding' = Overtaken(pending, {})
    /\ reopened' = (reopened \/ (AdminExists /\ ~AdminExists'))
    /\ UNCHANGED <<organizations, roles>>

\* With no name changed nobody is written but the role.
WriteRole(r, name, permissions, pending) ==
    /\ roles' = [roles EXCEPT ![r].name = name, ![r].permissions = permissions]
    /\ deciding' = Overtaken(pending, {r})
    /\ UNCHANGED <<organizations, reopened>>

\* Requests that have loaded the row as well find it gone and do nothing.
DeleteRow(r, pending) ==
    /\ roles' = [x \in DOMAIN roles \ {r} |-> roles[x]]
    /\ deciding' = Overtaken({p \in pending : p.op \in {"update", "delete"} => p.id # r}, {})
    /\ UNCHANGED <<organizations, users, reopened>>

\* seed_system_roles of a new organization, and its administrator.
SeedSystemRoles(o) ==
    [r \in DOMAIN roles \cup {<<o, "Admin">>, <<o, "User">>} |->
        CASE r = <<o, "Admin">> -> [organization |-> o, name |-> "Admin", is_system |-> TRUE,
                                    permissions |-> Permission]
          [] r = <<o, "User">>  -> [organization |-> o, name |-> "User", is_system |-> TRUE,
                                    permissions |-> {"dashboard:view", "event:read",
                                                     "capa:read", "alert:read"}]
          [] OTHER              -> roles[r]]

CreateFirst(o, u, pending) ==
    /\ o \notin organizations /\ u \notin DOMAIN users
    /\ organizations' = organizations \cup {o}
    /\ roles' = SeedSystemRoles(o)
    /\ users' = Insert(users, u, [organization |-> o, role |-> "Admin"])
    /\ deciding' = Overtaken(pending, {})

----------------------------------------------------------------------------
(* Setup and registration *)

\* Mutant: only the page that shows the form asks whether there is an Admin.
SetupSubmit_Mutant(o, u) ==
    /\ CreateFirst(o, u, deciding)
    /\ UNCHANGED history

SetupSubmit(o, u) ==
    /\ ~AdminExists
    /\ CreateFirst(o, u, deciding)
    /\ UNCHANGED history

\* A user without an organization, who is a Viewer by default.
\* Mutant: there is no default.
Register_Mutant(u) ==
    /\ PublicRegistration
    /\ u \notin DOMAIN users
    /\ users' = Insert(users, u, [organization |-> Null, role |-> Null])
    /\ UNCHANGED <<organizations, roles, deciding, history>>

Register(u) ==
    /\ PublicRegistration
    /\ u \notin DOMAIN users
    /\ users' = Insert(users, u, [organization |-> Null, role |-> "Viewer"])
    /\ UNCHANGED <<organizations, roles, deciding, history>>

----------------------------------------------------------------------------
(* Users: whoever is given a role afresh has one that exists *)

\* The JSON interface, which knows the legacy roles only.
CreateUser(actor, o, u, role) ==
    /\ Requires(actor, "user:manage", o)
    /\ u \notin DOMAIN users
    /\ role \in Role
    /\ WriteUser(o, u, role, deciding)
    /\ raced' = raced \ {u}

UpdateUser(actor, o, u, role) ==
    /\ Requires(actor, "user:manage", o)
    /\ UserInOrg(u, o)
    /\ role \in Role
    /\ WriteUser(o, u, role, deciding)
    /\ raced' = raced \ {u}

\* The pages.
UserCreate(actor, o, u, role) ==
    /\ Requires(actor, "user:manage", o)
    /\ IsAssignableRole(o, role)
    /\ u \notin DOMAIN users
    /\ WriteUser(o, u, role, deciding)
    /\ raced' = raced \ {u}

UserSetRole(actor, o, u, role) ==
    /\ Requires(actor, "user:manage", o)
    /\ UserInOrg(u, o) /\ IsAssignableRole(o, role)
    /\ WriteUser(o, u, role, deciding)
    /\ raced' = raced \ {u}

----------------------------------------------------------------------------
(* Roles *)

RoleCreate(actor, o, r, name, permissions) ==
    /\ Requires(actor, "settings:manage", o)
    /\ r \in CustomRoles \ DOMAIN roles
    /\ RolesNamed(o, name) = {}
    /\ roles' = Insert(roles, r, [organization |-> o, name |-> name, is_system |-> FALSE,
                                  permissions |-> permissions])
    /\ deciding' = Overtaken(deciding, {})
    /\ UNCHANGED <<organizations, users, history>>

\* The rule of an update: Admin is locked, a new name must be free.
MayUpdate(actor, o, r, new) ==
    /\ Requires(actor, "settings:manage", o)
    /\ RoleInOrg(r, o) /\ ~IsAdminRole(r)
    /\ RenamedTo(r, new) # roles[r].name => RolesNamed(o, RenamedTo(r, new)) = {}

RoleUpdateSubmit(actor, o, r, new, permissions) ==
    /\ MayUpdate(actor, o, r, new)
    /\ users' = Cascaded(o, roles[r].name, RenamedTo(r, new))
    /\ WriteRole(r, RenamedTo(r, new), permissions, deciding)
    /\ UNCHANGED raced

\* Mutant: nobody asks whether the role is in use.
MayDelete_Mutant(actor, o, r) ==
    /\ Requires(actor, "settings:manage", o)
    /\ RoleInOrg(r, o) /\ ~roles[r].is_system

MayDelete(actor, o, r) ==
    /\ Requires(actor, "settings:manage", o)
    /\ RoleInOrg(r, o) /\ ~roles[r].is_system
    /\ UsersWithRole(o, roles[r].name) = {}

RoleDelete(actor, o, r) ==
    /\ MayDelete(actor, o, r)
    /\ DeleteRow(r, deciding)
    /\ UNCHANGED raced

----------------------------------------------------------------------------
(* The handlers of other processes, from what they read to their commit *)

Free(request) == \A p \in deciding : p.request # request

Begin(p) ==
    /\ Free(p.request)
    /\ deciding' = deciding \cup {p}
    /\ UNCHANGED <<organizations, roles, users, history>>

\* update_user and user_set_role, or create_user and user_create.
BeginAssign(request, actor, o, u, role) ==
    /\ Requires(actor, "user:manage", o)
    /\ u \in DOMAIN users => UserInOrg(u, o)
    /\ IsAssignableRole(o, role)
    /\ Begin([request |-> request, op |-> IF u \in DOMAIN users THEN "assign" ELSE "create",
              organization |-> o, user |-> u, role |-> role, stale |-> FALSE])

BeginUpdate(request, actor, o, r, new, permissions) ==
    /\ MayUpdate(actor, o, r, new)
    /\ Begin([request |-> request, op |-> "update", organization |-> o, id |-> r,
              name |-> roles[r].name, new |-> RenamedTo(r, new), permissions |-> permissions,
              edited |-> FALSE, stale |-> FALSE])

BeginDelete(request, actor, o, r) ==
    /\ MayDelete(actor, o, r)
    /\ Begin([request |-> request, op |-> "delete", organization |-> o, id |-> r,
              stale |-> FALSE])

BeginSetup(request, o, u) ==
    /\ ~AdminExists
    /\ o \notin organizations /\ u \notin DOMAIN users
    /\ Begin([request |-> request, op |-> "setup", organization |-> o, user |-> u,
              stale |-> FALSE])

\* When requests have overlapped the users of the organization are on record.
Racing(p) ==
    raced' = IF p.stale THEN raced \cup {u \in DOMAIN users' : users'[u].organization = p.organization}
                        ELSE IF p.op \in {"assign", "create"} THEN raced \ {p.user} ELSE raced

CommitAssign(p) ==
    /\ p.op = "create" => p.user \notin DOMAIN users
    /\ WriteUser(p.organization, p.user, p.role, deciding \ {p})
    /\ Racing(p)

\* The name is written, and its users taken along, only if it differs from the
\* name loaded, and then has to be free.  Permissions that another request has
\* put in place stay beside the submitted ones, and none may be there twice.
CommitUpdate(p) ==
    LET row  == roles[p.id]
        name == IF p.new = p.name THEN row.name ELSE p.new
    IN  /\ RolesNamed(p.organization, name) \subseteq {p.id}
        /\ p.edited => p.permissions \cap row.permissions = {}
        /\ users' = Cascaded(p.organization, p.name, p.new)
        /\ WriteRole(p.id, name, p.permissions \cup (IF p.edited THEN row.permissions ELSE {}),
                     deciding \ {p})
        /\ Racing(p)

CommitDelete(p) == DeleteRow(p.id, deciding \ {p}) /\ Racing(p)

CommitSetup(p) ==
    /\ CreateFirst(p.organization, p.user, deciding \ {p})
    /\ reopened' = (reopened \/ p.stale)
    /\ Racing(p)

\* The client is gone, the commit fails or the process stops.
Abandon(p) ==
    /\ deciding' = deciding \ {p}
    /\ UNCHANGED <<organizations, roles, users, history>>

----------------------------------------------------------------------------

UserStep(actor, o) ==
    \E u \in Users, role \in Names :
        \/ CreateUser(actor, o, u, role) \/ UpdateUser(actor, o, u, role)
        \/ UserCreate(actor, o, u, role) \/ UserSetRole(actor, o, u, role)

RoleStep(actor, o) ==
    \E r \in RoleId :
        \/ RoleDelete(actor, o, r)
        \/ \E name \in Names, permissions \in Submitted :
              \/ RoleCreate(actor, o, r, name, permissions)
              \/ RoleUpdateSubmit(actor, o, r, name, permissions)

OtherProcess ==
    \/ \E request \in Requests, o \in Organizations :
          \/ \E u \in Users : BeginSetup(request, o, u)
          \/ \E actor, u \in Users, role \in Names : BeginAssign(request, actor, o, u, role)
          \/ \E actor \in Users, r \in RoleId :
                \/ BeginDelete(request, actor, o, r)
                \/ \E name \in Names, permissions \in Submitted :
                      BeginUpdate(request, actor, o, r, name, permissions)
    \/ \E p \in deciding :
          \/ p.op \in {"assign", "create"} /\ CommitAssign(p)
          \/ p.op = "update" /\ CommitUpdate(p)
          \/ p.op = "delete" /\ CommitDelete(p)
          \/ p.op = "setup" /\ CommitSetup(p)
          \/ Abandon(p)

Next ==
    \/ \E o \in Organizations :
          \/ \E u \in Users : SetupSubmit(o, u)
          \/ \E actor \in Users : UserStep(actor, o) \/ RoleStep(actor, o)
    \/ \E u \in Users : Register(u)
    \/ OtherProcess

Spec == Init /\ [][Next]_vars

----------------------------------------------------------------------------
(* Properties *)

\* The row of a user's role, if he has one.
RowOf(u) == RolesNamed(users[u].organization, users[u].role)

\* No user is left with the name of a role that is gone: it is a role of his
\* organization or a built-in one, unless requests have overlapped.
RolesResolve ==
    \A u \in DOMAIN users \ raced : RowOf(u) # {} \/ users[u].role \in Role

\* What a user is granted changes only by a decision about it: he is given
\* another role, the permissions of his role are edited, or a built-in role he
\* had is replaced by a role of that name.  A rename takes its users along, a
\* deletion concerns nobody, and nothing reaches into another organization.
GrantsFollowDecisions ==
    [][\A u \in DOMAIN users \ raced' :
          Granted(u)' # Granted(u) =>
             \/ UNCHANGED roles /\ users'[u].role # users[u].role
             \/ RowOf(u) # {} /\ RowOf(u)' = RowOf(u)
             \/ RowOf(u) = {} /\ RowOf(u)' # {}]_vars

\* "Inert once setup is complete": there is one organization, unless the last
\* administrator was given another role or two setups overlapped.
SetupOnce == Cardinality(organizations) > 1 => reopened

=============================================================================
