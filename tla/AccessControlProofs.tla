------------------------ MODULE AccessControlProofs ------------------------
(***************************************************************************)
(* Proofs about AccessControl, for any sets of organizations, users, roles *)
(* and requests of other processes: the role Admin of an organization      *)
(* cannot be renamed, deleted or doubled; the names of roles are unique;   *)
(* organizations are apart; nobody is left with a role that is gone;       *)
(* grants follow decisions; and the setup cannot be done twice.  The last  *)
(* three hold unless requests have overlapped, or the last administrator   *)
(* was replaced.                                                           *)
(* Requests that nothing has overtaken are as good as requests at once.    *)
(***************************************************************************)
EXTENDS AccessControl, FiniteSetTheorems, TLAPS

Pending == Assignment \cup RoleUpdate \cup RoleDeletion \cup Setup

\* Nothing belongs to an organization that there is not.
Tenancy ==
    /\ \A r \in DOMAIN roles : roles[r].organization \in organizations
    /\ \A u \in DOMAIN users : users[u].organization \in organizations \cup {Null}
    /\ \A o \in Organizations :
          {<<o, "Admin">>, <<o, "User">>} \cap DOMAIN roles # {} => o \in organizations

\* An organization has a system role Admin and no other role of that name.
AdminLocked ==
    /\ \A o \in organizations : \E r \in DOMAIN roles :
          roles[r].organization = o /\ IsAdminRole(r)
    /\ \A r \in DOMAIN roles : roles[r].name = "Admin" => roles[r].is_system

\* A request under way concerns the organization of the user or the role it has
\* loaded, and not the role Admin.
Sound(p) ==
    /\ p.op # "setup" => p.organization \in organizations
    /\ p.op = "assign" => UserInOrg(p.user, p.organization)
    /\ p.op \in {"update", "delete"} =>
          p.id \in DOMAIN roles /\ roles[p.id].organization = p.organization
    /\ p.op = "update" => ~IsAdminRole(p.id) /\ p.name # "Admin"
    /\ p.op = "delete" => ~roles[p.id].is_system

Inv == TypeOK /\ Tenancy /\ AdminLocked /\ \A p \in deciding : Sound(p)

\* No two roles of an organization have the same name.
Unique ==
    \A x, y \in DOMAIN roles :
       /\ roles[x].organization = roles[y].organization
       /\ roles[x].name = roles[y].name
       => x = y

\* There is an organization if and only if the setup was done, and then an
\* administrator, unless the history tells otherwise.
Settled ==
    ~reopened =>
       /\ organizations # {} => AdminExists
       /\ organizations = {} \/ \E o \in Organizations : organizations = {o}

\* What a request has found when it was decided still holds when nothing was
\* written since.
UpToDate(p) ==
    ~p.stale =>
       /\ p.op \in {"assign", "create"} => IsAssignableRole(p.organization, p.role)
       /\ p.op = "update" => p.name = roles[p.id].name
       /\ p.op = "delete" => UsersWithRole(p.organization, roles[p.id].name) = {}
       /\ p.op = "setup" => organizations = {} \/ reopened

Fresh == \A p \in deciding : UpToDate(p)

IInv == Inv /\ Unique /\ Settled /\ Fresh /\ RolesResolve

----------------------------------------------------------------------------
(* Requests under way *)

\* The fields of a request that each kind of request has.
LEMMA Fields ==
    ASSUME TypeOK, NEW p \in deciding
    PROVE  /\ p.op \in {"assign", "create", "update", "delete", "setup"}
           /\ p.organization \in Organizations
           /\ p.op \in {"assign", "create"} =>
                 p \in Assignment /\ p.user \in Users /\ p.role \in Name
           /\ p.op = "update" =>
                 /\ p \in RoleUpdate
                 /\ p.id \in RoleId /\ p.name \in Name /\ p.new \in Name
                 /\ p.permissions \in Submitted
           /\ p.op = "delete" => p \in RoleDeletion /\ p.id \in RoleId
           /\ p.op = "setup" => p \in Setup /\ p.user \in Users
  <1>1. p \in Assignment \cup RoleUpdate \cup RoleDeletion \cup Setup
    BY DEF TypeOK
  <1>. QED  BY <1>1 DEF Assignment, RoleUpdate, RoleDeletion, Setup

\* What a write leaves of a request under way.
Survives(p, q) ==
    /\ q.op = p.op /\ q.organization = p.organization /\ q.stale
    /\ p.op = "assign" => q.user = p.user
    /\ p.op = "update" => q.name = p.name
    /\ p.op \in {"update", "delete"} => q.id = p.id

LEMMA Survivors ==
    ASSUME TypeOK, NEW pending \in SUBSET deciding, NEW edited, NEW q \in Overtaken(pending, edited)
    PROVE  q \in Pending /\ \E p \in pending : Survives(p, q)
  <1>1. PICK p \in pending :
           q = IF p.op = "update" THEN [p EXCEPT !.stale = TRUE, !.edited = @ \/ p.id \in edited]
                                  ELSE [p EXCEPT !.stale = TRUE]
    BY DEF Overtaken
  <1>2. p \in deciding
    OBVIOUS
  <1>3. CASE p.op \in {"assign", "create"}
    <2>1. p \in Assignment /\ q = [p EXCEPT !.stale = TRUE]
      BY <1>1, <1>2, <1>3, Fields
    <2>2. q \in Assignment /\ Survives(p, q)
      BY <1>3, <2>1 DEF Assignment, Survives
    <2>. QED  BY <2>2 DEF Pending
  <1>4. CASE p.op = "update"
    <2>1. p \in RoleUpdate /\ q = [p EXCEPT !.stale = TRUE, !.edited = @ \/ p.id \in edited]
      BY <1>1, <1>2, <1>4, Fields
    <2>2. q \in RoleUpdate /\ Survives(p, q)
      BY <1>4, <2>1 DEF RoleUpdate, Survives
    <2>. QED  BY <2>2 DEF Pending
  <1>5. CASE p.op = "delete"
    <2>1. p \in RoleDeletion /\ q = [p EXCEPT !.stale = TRUE]
      BY <1>1, <1>2, <1>5, Fields
    <2>2. q \in RoleDeletion /\ Survives(p, q)
      BY <1>5, <2>1 DEF RoleDeletion, Survives
    <2>. QED  BY <2>2 DEF Pending
  <1>6. CASE p.op = "setup"
    <2>1. p \in Setup /\ q = [p EXCEPT !.stale = TRUE]
      BY <1>1, <1>2, <1>6, Fields
    <2>2. q \in Setup /\ Survives(p, q)
      BY <1>6, <2>1 DEF Setup, Survives
    <2>. QED  BY <2>2 DEF Pending
  <1>. QED  BY <1>2, <1>3, <1>4, <1>5, <1>6, Fields

\* Nobody is deleted or moved to another organization.
UsersStay ==
    \A u \in DOMAIN users :
       u \in DOMAIN users' /\ users'[u].organization = users[u].organization

\* Requests stay sound under a write that keeps the users and the roles they
\* have loaded.
LEMMA PendingSound ==
    ASSUME Inv, NEW pending \in SUBSET deciding, NEW edited,
           deciding' = Overtaken(pending, edited),
           organizations \subseteq organizations', UsersStay,
           \A p \in pending : p.op \in {"update", "delete"} =>
              /\ p.id \in DOMAIN roles'
              /\ roles'[p.id].organization = roles[p.id].organization
              /\ roles'[p.id].is_system = roles[p.id].is_system
              /\ roles'[p.id].name = "Admin" => roles[p.id].name = "Admin"
    PROVE  /\ deciding' \subseteq Pending
           /\ \A q \in deciding' : Sound(q)' /\ q.stale
  <1>1. ASSUME NEW q \in deciding'
        PROVE  q \in Pending /\ Sound(q)' /\ q.stale
    <2>1. PICK p \in pending : Survives(p, q) /\ q \in Pending
      BY <1>1, Survivors DEF Inv
    <2>2. Sound(p)
      BY DEF Inv
    <2>. QED  BY <2>1, <2>2 DEF Sound, Survives, IsAdminRole, UserInOrg, UsersStay
  <1>. QED  BY <1>1

----------------------------------------------------------------------------
(* What each kind of write preserves *)

\* Whoever may do something in an organization belongs to it, so there is one.
LEMMA ActorsTenancy ==
    ASSUME Inv, NEW o \in Organizations, NEW u, NEW permission, Requires(u, permission, o)
    PROVE  o \in organizations
  BY NullAssumption DEF Inv, Tenancy, Requires

\* What is on record when a request is committed are users.
LEMMA RacingTyped ==
    ASSUME Inv, NEW p, Racing(p), DOMAIN users' \subseteq Users
    PROVE  raced' \subseteq Users
  BY DEF Inv, TypeOK, Racing

LEMMA WriteUserInv ==
    ASSUME Inv, NEW o \in organizations, NEW u \in Users, NEW role \in Name,
           NEW pending \in SUBSET deciding, WriteUser(o, u, role, pending), raced' \subseteq Users,
           u \in DOMAIN users => users[u].organization = o
    PROVE  Inv'
  <1>1. /\ users' = Insert(users, u, [organization |-> o, role |-> role])
        /\ organizations' = organizations /\ roles' = roles
        /\ deciding' = Overtaken(pending, {}) /\ reopened' \in BOOLEAN
    BY DEF WriteUser, Inv, TypeOK
  <1>2. /\ DOMAIN users' = DOMAIN users \cup {u}
        /\ users'[u] = [organization |-> o, role |-> role]
        /\ \A v \in DOMAIN users : v # u => users'[v] = users[v]
    BY <1>1 DEF Insert
  <1>3. deciding' \subseteq Pending /\ \A q \in deciding' : Sound(q)'
    <2>1. \A p \in pending : p.op \in {"update", "delete"} => p.id \in DOMAIN roles
      BY DEF Inv, Sound
    <2>2. UsersStay
      BY <1>2 DEF UsersStay
    <2>. QED  BY <1>1, <2>1, <2>2, PendingSound
  <1>4. o \in Organizations
    BY DEF Inv, TypeOK
  <1>5. users' \in [DOMAIN users' -> User]
    <2>1. [organization |-> o, role |-> role] \in User
      BY <1>4 DEF User
    <2>2. \A v \in DOMAIN users' : users'[v] \in User
      BY <1>2, <2>1 DEF Inv, TypeOK
    <2>. QED  BY <1>1, <2>2 DEF Insert
  <1>6. TypeOK'
    BY <1>1, <1>2, <1>3, <1>5 DEF Inv, TypeOK, Pending
  <1>7. Tenancy' /\ AdminLocked'
    BY <1>1, <1>2 DEF Inv, Tenancy, AdminLocked, IsAdminRole
  <1>. QED  BY <1>3, <1>6, <1>7 DEF Inv

\* An update of the role r, which may not get the name Admin.
LEMMA WriteRoleInv ==
    ASSUME Inv, NEW r \in DOMAIN roles, NEW name \in Name, NEW permissions \in SUBSET Permission,
           NEW o \in Organizations, NEW old \in Name, NEW new \in Name,
           NEW pending \in SUBSET deciding,
           WriteRole(r, name, permissions, pending), users' = Cascaded(o, old, new),
           ~IsAdminRole(r), name # "Admin", raced' \subseteq Users
    PROVE  Inv'
  <1>1. /\ roles' = [roles EXCEPT ![r].name = name, ![r].permissions = permissions]
        /\ deciding' = Overtaken(pending, {r})
        /\ organizations' = organizations /\ reopened' = reopened
    BY DEF WriteRole
  <1>2. /\ DOMAIN users' = DOMAIN users
        /\ users' \in [DOMAIN users -> User]
        /\ \A u \in DOMAIN users : users'[u].organization = users[u].organization
    BY DEF Cascaded, Inv, TypeOK, User
  <1>3. roles[r] \in RoleDefinition
    BY DEF Inv, TypeOK
  <1>4. /\ DOMAIN roles' = DOMAIN roles
        /\ \A x \in DOMAIN roles : x # r => roles'[x] = roles[x]
        /\ roles'[r] = [roles[r] EXCEPT !.name = name, !.permissions = permissions]
    BY <1>1
  <1>5. /\ roles'[r].organization = roles[r].organization
        /\ roles'[r].is_system = roles[r].is_system
        /\ roles'[r].name = name
        /\ roles'[r] \in RoleDefinition
    BY <1>3, <1>4 DEF RoleDefinition
  <1>6. deciding' \subseteq Pending /\ \A q \in deciding' : Sound(q)'
    <2>1. \A p \in pending : p.op \in {"update", "delete"} => p.id \in DOMAIN roles
      BY DEF Inv, Sound
    <2>2. UsersStay
      BY <1>2 DEF UsersStay
    <2>3. organizations \subseteq organizations' /\ deciding' = Overtaken(pending, {r})
      BY <1>1
    <2>4. \A p \in pending : p.op \in {"update", "delete"} =>
             /\ p.id \in DOMAIN roles'
             /\ roles'[p.id].organization = roles[p.id].organization
             /\ roles'[p.id].is_system = roles[p.id].is_system
             /\ roles'[p.id].name = "Admin" => roles[p.id].name = "Admin"
      BY <1>4, <1>5, <2>1
    <2>. QED  BY <2>2, <2>3, <2>4, PendingSound
  <1>7. roles' \in [DOMAIN roles' -> RoleDefinition]
    <2>1. \A x \in DOMAIN roles' : roles'[x] \in RoleDefinition
      BY <1>4, <1>5 DEF Inv, TypeOK
    <2>. QED  BY <1>1, <2>1 DEF Inv, TypeOK
  <1>8. TypeOK'
    BY <1>1, <1>2, <1>4, <1>6, <1>7 DEF Inv, TypeOK, Pending
  <1>9. Tenancy'
    BY <1>1, <1>2, <1>4, <1>5 DEF Inv, Tenancy
  <1>10. AdminLocked'
    <2>1. ASSUME NEW x \in organizations
          PROVE  \E y \in DOMAIN roles : roles'[y].organization = x /\ IsAdminRole(y)'
      <3>1. PICK y \in DOMAIN roles : roles[y].organization = x /\ IsAdminRole(y)
        BY DEF Inv, AdminLocked
      <3>. QED  BY <1>4, <3>1 DEF IsAdminRole
    <2>2. \A y \in DOMAIN roles : roles'[y].name = "Admin" => roles'[y].is_system
      BY <1>4, <1>5 DEF Inv, AdminLocked
    <2>. QED  BY <1>1, <1>4, <2>1, <2>2 DEF AdminLocked
  <1>. QED  BY <1>6, <1>8, <1>9, <1>10 DEF Inv

LEMMA DeleteRowInv ==
    ASSUME Inv, NEW r \in DOMAIN roles, NEW pending \in SUBSET deciding,
           DeleteRow(r, pending), ~roles[r].is_system, raced' \subseteq Users
    PROVE  Inv'
  <1> DEFINE kept == {p \in pending : p.op \in {"update", "delete"} => p.id # r}
  <1>1. /\ roles' = [x \in DOMAIN roles \ {r} |-> roles[x]]
        /\ deciding' = Overtaken(kept, {})
        /\ organizations' = organizations /\ users' = users /\ reopened' = reopened
    BY DEF DeleteRow
  <1>2. /\ DOMAIN roles' = DOMAIN roles \ {r}
        /\ \A x \in DOMAIN roles' : roles'[x] = roles[x]
    BY <1>1
  <1>3. \A p \in kept : p.op \in {"update", "delete"} => p.id \in DOMAIN roles'
    BY <1>2 DEF Inv, Sound
  <1>4. kept \in SUBSET deciding
    OBVIOUS
  <1>. HIDE DEF kept
  <1>5. deciding' \subseteq Pending /\ \A q \in deciding' : Sound(q)'
    <2>1. UsersStay
      BY <1>1 DEF UsersStay
    <2>. QED  BY <1>1, <1>2, <1>3, <1>4, <2>1, PendingSound
  <1>6. TypeOK'
    BY <1>1, <1>2, <1>5 DEF Inv, TypeOK, Pending
  <1>7. Tenancy'
    BY <1>1, <1>2 DEF Inv, Tenancy
  <1>8. AdminLocked'
    BY <1>1, <1>2 DEF Inv, AdminLocked, IsAdminRole
  <1>. QED  BY <1>5, <1>6, <1>7, <1>8 DEF Inv

LEMMA CreateFirstInv ==
    ASSUME Inv, NEW o \in Organizations, NEW u \in Users, NEW pending \in SUBSET deciding,
           CreateFirst(o, u, pending), reopened' \in BOOLEAN, raced' \subseteq Users
    PROVE  Inv'
  <1> DEFINE admin == <<o, "Admin">>
             user  == <<o, "User">>
             row   == [organization |-> o, name |-> "Admin", is_system |-> TRUE,
                       permissions |-> Permission]
             basic == [organization |-> o, name |-> "User", is_system |-> TRUE,
                       permissions |-> {"dashboard:view", "event:read", "capa:read", "alert:read"}]
  <1>1. /\ o \notin organizations /\ u \notin DOMAIN users
        /\ organizations' = organizations \cup {o}
        /\ roles' = SeedSystemRoles(o)
        /\ users' = Insert(users, u, [organization |-> o, role |-> "Admin"])
        /\ deciding' = Overtaken(pending, {})
    BY DEF CreateFirst
  <1>2. admin # user
    OBVIOUS
  <1>3. /\ DOMAIN roles' = DOMAIN roles \cup {admin, user}
        /\ roles'[admin] = row /\ roles'[user] = basic
        /\ \A x \in DOMAIN roles : x \notin {admin, user} => roles'[x] = roles[x]
    BY <1>1, <1>2 DEF SeedSystemRoles
  <1>4. {admin, user} \cap DOMAIN roles = {}
    BY <1>1 DEF Inv, Tenancy
  <1>5. row \in RoleDefinition /\ basic \in RoleDefinition
    BY DEF RoleDefinition, Name, Permission
  <1>6. admin \in RoleId /\ user \in RoleId
    BY DEF RoleId
  <1>7. /\ row.organization = o /\ row.name = "Admin" /\ row.is_system
        /\ basic.organization = o /\ basic.name = "User"
    OBVIOUS
  <1>8. \A x \in Organizations : {<<x, "Admin">>, <<x, "User">>} \cap {admin, user} # {} => x = o
    OBVIOUS
  <1>. HIDE DEF admin, user, row, basic
  <1>9. /\ DOMAIN users' = DOMAIN users \cup {u}
        /\ users'[u] = [organization |-> o, role |-> "Admin"]
        /\ \A v \in DOMAIN users : users'[v] = users[v]
    BY <1>1 DEF Insert
  <1>10. deciding' \subseteq Pending /\ \A q \in deciding' : Sound(q)'
    <2>1. \A p \in pending : p.op \in {"update", "delete"} => p.id \in DOMAIN roles
      BY DEF Inv, Sound
    <2>2. UsersStay
      BY <1>9 DEF UsersStay
    <2>3. organizations \subseteq organizations' /\ deciding' = Overtaken(pending, {})
      BY <1>1
    <2>4. \A p \in pending : p.op \in {"update", "delete"} =>
             p.id \in DOMAIN roles' /\ roles'[p.id] = roles[p.id]
      BY <1>3, <1>4, <2>1
    <2>. QED  BY <2>2, <2>3, <2>4, PendingSound
  <1>11. roles' \in [DOMAIN roles' -> RoleDefinition] /\ DOMAIN roles' \subseteq RoleId
    <2>1. \A x \in DOMAIN roles' : roles'[x] \in RoleDefinition
      BY <1>3, <1>5 DEF Inv, TypeOK
    <2>2. roles' = [x \in DOMAIN roles' |-> roles'[x]]
      BY <1>1 DEF SeedSystemRoles
    <2>. QED  BY <1>3, <1>6, <2>1, <2>2 DEF Inv, TypeOK
  <1>12. users' \in [DOMAIN users' -> User]
    <2>1. \A v \in DOMAIN users' : users'[v] \in User
      BY <1>9 DEF Inv, TypeOK, User, Name
    <2>. QED  BY <1>1, <2>1 DEF Insert
  <1>13. TypeOK'
    BY <1>1, <1>9, <1>10, <1>11, <1>12 DEF Inv, TypeOK, Pending
  <1>14. Tenancy'
    <2>1. \A r \in DOMAIN roles' : roles'[r].organization \in organizations'
      BY <1>1, <1>3, <1>4, <1>7 DEF Inv, Tenancy
    <2>2. \A v \in DOMAIN users' : users'[v].organization \in organizations' \cup {Null}
      BY <1>1, <1>9 DEF Inv, Tenancy
    <2>3. \A x \in Organizations :
             {<<x, "Admin">>, <<x, "User">>} \cap DOMAIN roles' # {} => x \in organizations'
      <3>. TAKE x \in Organizations
      <3>. HAVE {<<x, "Admin">>, <<x, "User">>} \cap DOMAIN roles' # {}
      <3>1. \/ {<<x, "Admin">>, <<x, "User">>} \cap DOMAIN roles # {}
            \/ {<<x, "Admin">>, <<x, "User">>} \cap {admin, user} # {}
        BY <1>3
      <3>. QED  BY <1>1, <1>8, <3>1 DEF Inv, Tenancy
    <2>. QED  BY <2>1, <2>2, <2>3 DEF Tenancy
  <1>15. AdminLocked'
    <2>1. ASSUME NEW x \in organizations'
          PROVE  \E y \in DOMAIN roles' : roles'[y].organization = x /\ IsAdminRole(y)'
      <3>1. CASE x = o
        BY <1>3, <1>7, <3>1 DEF IsAdminRole
      <3>2. CASE x \in organizations
        <4>1. PICK y \in DOMAIN roles : roles[y].organization = x /\ IsAdminRole(y)
          BY <3>2 DEF Inv, AdminLocked
        <4>. QED  BY <1>3, <1>4, <4>1 DEF IsAdminRole
      <3>. QED  BY <1>1, <3>1, <3>2
    <2>2. \A y \in DOMAIN roles' : roles'[y].name = "Admin" => roles'[y].is_system
      BY <1>3, <1>4, <1>7 DEF Inv, AdminLocked
    <2>. QED  BY <2>1, <2>2 DEF AdminLocked
  <1>. QED  BY <1>10, <1>13, <1>14, <1>15 DEF Inv

LEMMA RoleCreateInv ==
    ASSUME Inv, NEW actor, NEW o \in Organizations, NEW r \in RoleId, NEW name \in Names,
           NEW permissions \in Submitted, RoleCreate(actor, o, r, name, permissions)
    PROVE  Inv'
  <1> DEFINE row == [organization |-> o, name |-> name, is_system |-> FALSE,
                     permissions |-> permissions]
  <1>1. /\ r \in CustomRoles \ DOMAIN roles /\ RolesNamed(o, name) = {}
        /\ roles' = Insert(roles, r, row)
        /\ deciding' = Overtaken(deciding, {})
        /\ organizations' = organizations /\ users' = users
        /\ raced' = raced /\ reopened' = reopened
        /\ o \in organizations
    BY ActorsTenancy DEF RoleCreate, history
  <1>2. row \in RoleDefinition
    BY SubmittedAssumption DEF RoleDefinition, Name
  <1>3. row.organization = o /\ row.name = name
    OBVIOUS
  <1>. HIDE DEF row
  <1>4. /\ DOMAIN roles' = DOMAIN roles \cup {r} /\ roles'[r] = row
        /\ \A x \in DOMAIN roles : roles'[x] = roles[x]
    BY <1>1 DEF Insert
  <1>5. name # "Admin"
    <2>1. PICK a \in DOMAIN roles : roles[a].organization = o /\ IsAdminRole(a)
      BY <1>1 DEF Inv, AdminLocked
    <2>. QED  BY <1>1, <2>1 DEF RolesNamed, IsAdminRole
  <1>6. deciding' \subseteq Pending /\ \A q \in deciding' : Sound(q)'
    <2>1. \A p \in deciding : p.op \in {"update", "delete"} => p.id \in DOMAIN roles
      BY DEF Inv, Sound
    <2>2. UsersStay
      BY <1>1 DEF UsersStay
    <2>. QED  BY <1>1, <1>4, <2>1, <2>2, PendingSound
  <1>7. roles' \in [DOMAIN roles' -> RoleDefinition] /\ DOMAIN roles' \subseteq RoleId
    <2>1. \A x \in DOMAIN roles' : roles'[x] \in RoleDefinition
      BY <1>2, <1>4 DEF Inv, TypeOK
    <2>. QED  BY <1>1, <1>4, <2>1 DEF Inv, TypeOK, Insert
  <1>8. TypeOK'
    BY <1>1, <1>6, <1>7 DEF Inv, TypeOK, Pending
  <1>9. Tenancy'
    <2>1. \A x \in Organizations : r \notin {<<x, "Admin">>, <<x, "User">>}
      BY <1>1, RoleIdAssumption
    <2>2. \A x \in Organizations :
             {<<x, "Admin">>, <<x, "User">>} \cap DOMAIN roles' # {} => x \in organizations
      BY <1>4, <2>1 DEF Inv, Tenancy
    <2>. QED  BY <1>1, <1>3, <1>4, <2>2 DEF Inv, Tenancy
  <1>10. AdminLocked'
    BY <1>1, <1>3, <1>4, <1>5 DEF Inv, AdminLocked, IsAdminRole
  <1>. QED  BY <1>6, <1>8, <1>9, <1>10 DEF Inv

LEMMA RegisterInv ==
    ASSUME Inv, NEW u \in Users, Register(u)
    PROVE  Inv'
  <1>1. /\ users' = Insert(users, u, [organization |-> Null, role |-> "Viewer"])
        /\ organizations' = organizations /\ roles' = roles /\ deciding' = deciding
        /\ raced' = raced /\ reopened' = reopened /\ u \notin DOMAIN users
    BY DEF Register, history
  <1>2. /\ DOMAIN users' = DOMAIN users \cup {u}
        /\ users'[u] = [organization |-> Null, role |-> "Viewer"]
        /\ \A v \in DOMAIN users : v # u => users'[v] = users[v]
    BY <1>1 DEF Insert
  <1>3. users' \in [DOMAIN users' -> User]
    <2>1. \A v \in DOMAIN users' : users'[v] \in User
      BY <1>2 DEF Inv, TypeOK, User, Name
    <2>. QED  BY <1>1, <2>1 DEF Insert
  <1>4. TypeOK'
    BY <1>1, <1>2, <1>3 DEF Inv, TypeOK
  <1>5. Tenancy' /\ AdminLocked' /\ \A p \in deciding' : Sound(p)'
    BY <1>1, <1>2 DEF Inv, Tenancy, AdminLocked, Sound, IsAdminRole, UserInOrg
  <1>. QED  BY <1>4, <1>5 DEF Inv

\* A request that has only been decided.
LEMMA BeginInv ==
    ASSUME Inv, NEW p \in Pending, Begin(p), Sound(p)
    PROVE  Inv'
  <1>1. /\ deciding' = deciding \cup {p} /\ organizations' = organizations
        /\ roles' = roles /\ users' = users /\ raced' = raced /\ reopened' = reopened
    BY DEF Begin, history
  <1>. QED  BY <1>1 DEF Inv, TypeOK, Tenancy, AdminLocked, Sound, IsAdminRole, UserInOrg, Pending

LEMMA AbandonInv ==
    ASSUME Inv, NEW p, Abandon(p)
    PROVE  Inv'
  <1>1. /\ deciding' = deciding \ {p} /\ organizations' = organizations
        /\ roles' = roles /\ users' = users /\ raced' = raced /\ reopened' = reopened
    BY DEF Abandon, history
  <1>. QED  BY <1>1 DEF Inv, TypeOK, Tenancy, AdminLocked, Sound, IsAdminRole, UserInOrg

----------------------------------------------------------------------------
(* Each handler preserves the invariant *)

\* An update finds a role that is not Admin and leaves it with another name.
LEMMA UpdateFound ==
    ASSUME Inv, NEW actor, NEW o \in Organizations, NEW r \in RoleId, NEW new \in Names,
           MayUpdate(actor, o, r, new)
    PROVE  /\ r \in DOMAIN roles /\ roles[r].organization = o
           /\ ~IsAdminRole(r) /\ roles[r].name # "Admin" /\ RenamedTo(r, new) # "Admin"
           /\ roles[r].name \in Name /\ RenamedTo(r, new) \in Name
  <1>1. /\ r \in DOMAIN roles /\ roles[r].organization = o /\ ~IsAdminRole(r)
        /\ RenamedTo(r, new) # roles[r].name => RolesNamed(o, RenamedTo(r, new)) = {}
        /\ o \in organizations
    BY ActorsTenancy DEF MayUpdate, RoleInOrg
  <1>2. roles[r].name \in Name /\ roles[r].name # "Admin" /\ RenamedTo(r, new) \in Name
    BY <1>1 DEF Inv, TypeOK, RoleDefinition, AdminLocked, IsAdminRole, RenamedTo, Name
  <1>3. PICK a \in DOMAIN roles : roles[a].organization = o /\ IsAdminRole(a)
    BY <1>1 DEF Inv, AdminLocked
  <1>4. RenamedTo(r, new) # "Admin"
    BY <1>1, <1>2, <1>3 DEF RolesNamed, IsAdminRole
  <1>. QED  BY <1>1, <1>2, <1>4

\* A handler that starts leaves a request that is sound.
LEMMA BeginSetupInv ==
    ASSUME Inv, NEW request \in Requests, NEW o \in Organizations, NEW u \in Users,
           BeginSetup(request, o, u)
    PROVE  Inv'
  <1> DEFINE p == [request |-> request, op |-> "setup", organization |-> o, user |-> u,
                   stale |-> FALSE]
  <1>1. p \in Pending /\ p.op = "setup"
    BY DEF Pending, Setup
  <1>2. Begin(p)
    BY DEF BeginSetup
  <1>. HIDE DEF p
  <1>3. Sound(p)
    BY <1>1 DEF Sound
  <1>. QED  BY <1>1, <1>2, <1>3, BeginInv

LEMMA BeginAssignInv ==
    ASSUME Inv, NEW request \in Requests, NEW o \in Organizations, NEW actor, NEW u \in Users,
           NEW role \in Names, BeginAssign(request, actor, o, u, role)
    PROVE  Inv'
  <1> DEFINE p == [request |-> request,
                   op |-> IF u \in DOMAIN users THEN "assign" ELSE "create",
                   organization |-> o, user |-> u, role |-> role, stale |-> FALSE]
  <1>1. /\ p \in Pending /\ p.op \in {"assign", "create"}
        /\ p.organization = o /\ p.user = u
        /\ p.op = "assign" => u \in DOMAIN users
    BY DEF Pending, Assignment, Name
  <1>2. o \in organizations /\ (u \in DOMAIN users => UserInOrg(u, o))
    BY ActorsTenancy DEF BeginAssign
  <1>3. Begin(p)
    BY DEF BeginAssign
  <1>. HIDE DEF p
  <1>4. Sound(p)
    BY <1>1, <1>2 DEF Sound
  <1>. QED  BY <1>1, <1>3, <1>4, BeginInv

LEMMA BeginDeleteInv ==
    ASSUME Inv, NEW request \in Requests, NEW o \in Organizations, NEW actor, NEW r \in RoleId,
           BeginDelete(request, actor, o, r)
    PROVE  Inv'
  <1> DEFINE p == [request |-> request, op |-> "delete", organization |-> o, id |-> r,
                   stale |-> FALSE]
  <1>1. p \in Pending /\ p.op = "delete" /\ p.organization = o /\ p.id = r
    BY DEF Pending, RoleDeletion
  <1>2. o \in organizations /\ RoleInOrg(r, o) /\ ~roles[r].is_system
    BY ActorsTenancy DEF BeginDelete, MayDelete
  <1>3. Begin(p)
    BY DEF BeginDelete
  <1>. HIDE DEF p
  <1>4. Sound(p)
    BY <1>1, <1>2 DEF Sound, RoleInOrg
  <1>. QED  BY <1>1, <1>3, <1>4, BeginInv

LEMMA BeginUpdateInv ==
    ASSUME Inv, NEW request \in Requests, NEW o \in Organizations, NEW actor, NEW r \in RoleId,
           NEW new \in Names, NEW permissions \in Submitted,
           BeginUpdate(request, actor, o, r, new, permissions)
    PROVE  Inv'
  <1> DEFINE p == [request |-> request, op |-> "update", organization |-> o, id |-> r,
                   name |-> roles[r].name, new |-> RenamedTo(r, new),
                   permissions |-> permissions, edited |-> FALSE, stale |-> FALSE]
  <1>1. /\ r \in DOMAIN roles /\ roles[r].organization = o /\ ~IsAdminRole(r)
        /\ roles[r].name # "Admin" /\ roles[r].name \in Name /\ RenamedTo(r, new) \in Name
        /\ o \in organizations
    BY UpdateFound, ActorsTenancy DEF BeginUpdate, MayUpdate
  <1>2. /\ p \in Pending /\ p.op = "update" /\ p.organization = o /\ p.id = r
        /\ p.name = roles[r].name
    BY <1>1 DEF Pending, RoleUpdate
  <1>3. Begin(p)
    BY DEF BeginUpdate
  <1>. HIDE DEF p
  <1>4. Sound(p)
    BY <1>1, <1>2 DEF Sound
  <1>. QED  BY <1>2, <1>3, <1>4, BeginInv

\* The update that is committed, for the role that it has loaded.
NewName(p) == IF p.new = p.name THEN roles[p.id].name ELSE p.new
NewPermissions(p) == p.permissions \cup (IF p.edited THEN roles[p.id].permissions ELSE {})

LEMMA UpdateCommitted ==
    ASSUME Inv, NEW p \in deciding, p.op = "update", CommitUpdate(p)
    PROVE  /\ p.id \in DOMAIN roles /\ roles[p.id].organization = p.organization
           /\ ~IsAdminRole(p.id) /\ p.name # "Admin" /\ NewName(p) # "Admin"
           /\ NewName(p) \in Name /\ p.name \in Name /\ p.new \in Name
           /\ NewPermissions(p) \in SUBSET Permission
           /\ users' = Cascaded(p.organization, p.name, p.new)
           /\ WriteRole(p.id, NewName(p), NewPermissions(p), deciding \ {p})
           /\ Racing(p)
  <1>1. /\ p.id \in DOMAIN roles /\ roles[p.id].organization = p.organization
        /\ ~IsAdminRole(p.id) /\ p.name # "Admin" /\ p.organization \in organizations
    BY DEF Inv, Sound
  <1>2. /\ p.name \in Name /\ p.new \in Name /\ p.permissions \in Submitted
    BY Fields DEF Inv
  <1>3. roles[p.id].name \in Name /\ roles[p.id].permissions \in SUBSET Permission
    BY <1>1 DEF Inv, TypeOK, RoleDefinition
  <1>4. /\ RolesNamed(p.organization, NewName(p)) \subseteq {p.id}
        /\ users' = Cascaded(p.organization, p.name, p.new)
        /\ WriteRole(p.id, NewName(p), NewPermissions(p), deciding \ {p})
        /\ Racing(p)
    BY DEF CommitUpdate, NewName, NewPermissions
  <1>5. PICK a \in DOMAIN roles : roles[a].organization = p.organization /\ IsAdminRole(a)
    BY <1>1 DEF Inv, AdminLocked
  <1>6. NewName(p) # "Admin"
    BY <1>1, <1>4, <1>5 DEF RolesNamed, IsAdminRole
  <1>7. NewName(p) \in Name /\ NewPermissions(p) \in SUBSET Permission
    BY <1>2, <1>3, SubmittedAssumption DEF NewName, NewPermissions
  <1>. QED  BY <1>1, <1>2, <1>4, <1>6, <1>7

LEMMA CommitsInv ==
    ASSUME Inv, NEW p \in deciding,
           \/ p.op \in {"assign", "create"} /\ CommitAssign(p)
           \/ p.op = "update" /\ CommitUpdate(p)
           \/ p.op = "delete" /\ CommitDelete(p)
           \/ p.op = "setup" /\ CommitSetup(p)
    PROVE  Inv'
  <1> DEFINE pending == deciding \ {p}
  <1>1. pending \in SUBSET deciding /\ p.organization \in Organizations /\ Sound(p)
    BY Fields DEF Inv
  <1>. HIDE DEF pending
  <1>2. CASE p.op \in {"assign", "create"} /\ CommitAssign(p)
    <2>1. /\ p.user \in Users /\ p.role \in Name /\ p.organization \in organizations
      BY <1>1, <1>2, Fields DEF Inv, Sound
    <2>2. WriteUser(p.organization, p.user, p.role, pending) /\ Racing(p)
      BY <1>2 DEF CommitAssign, pending
    <2>3. DOMAIN users' \subseteq Users
      BY <2>1, <2>2 DEF WriteUser, Insert, Inv, TypeOK
    <2>4. raced' \subseteq Users
      BY <2>2, <2>3, RacingTyped
    <2>5. p.user \in DOMAIN users => users[p.user].organization = p.organization
      BY <1>1, <1>2 DEF CommitAssign, Sound, UserInOrg
    <2>. QED  BY <1>1, <2>1, <2>2, <2>4, <2>5, WriteUserInv
  <1>3. CASE p.op = "update" /\ CommitUpdate(p)
    <2>1. /\ p.id \in DOMAIN roles
          /\ ~IsAdminRole(p.id) /\ NewName(p) # "Admin"
          /\ NewName(p) \in Name /\ p.name \in Name /\ p.new \in Name
          /\ NewPermissions(p) \in SUBSET Permission
          /\ users' = Cascaded(p.organization, p.name, p.new)
          /\ WriteRole(p.id, NewName(p), NewPermissions(p), pending)
          /\ Racing(p)
      BY <1>3, UpdateCommitted DEF pending
    <2>2. DOMAIN users' \subseteq Users
      BY <2>1 DEF Cascaded, Inv, TypeOK
    <2>3. raced' \subseteq Users
      BY <2>1, <2>2, RacingTyped
    <2>. QED  BY <1>1, <2>1, <2>3, WriteRoleInv
  <1>4. CASE p.op = "delete" /\ CommitDelete(p)
    <2>1. p.id \in DOMAIN roles /\ ~roles[p.id].is_system
      BY <1>1, <1>4 DEF Sound
    <2>2. DeleteRow(p.id, pending) /\ Racing(p)
      BY <1>4 DEF CommitDelete, pending
    <2>3. raced' \subseteq Users
      BY <2>2, RacingTyped DEF DeleteRow, Inv, TypeOK
    <2>. QED  BY <1>1, <2>1, <2>2, <2>3, DeleteRowInv
  <1>5. CASE p.op = "setup" /\ CommitSetup(p)
    <2>1. p.user \in Users
      BY <1>5, Fields DEF Inv
    <2>2. /\ CreateFirst(p.organization, p.user, pending) /\ Racing(p)
          /\ reopened' = (reopened \/ p.stale)
      BY <1>5 DEF CommitSetup, pending
    <2>3. DOMAIN users' \subseteq Users
      BY <2>1, <2>2 DEF CreateFirst, Insert, Inv, TypeOK
    <2>4. raced' \subseteq Users /\ reopened' \in BOOLEAN
      BY <2>2, <2>3, RacingTyped
    <2>. QED  BY <1>1, <2>1, <2>2, <2>4, CreateFirstInv
  <1>. QED  BY <1>2, <1>3, <1>4, <1>5

\* What the administrator of users does, in the JSON interface or the pages.
LEMMA UserStepInv ==
    ASSUME Inv, NEW o \in Organizations, NEW actor \in Users, UserStep(actor, o)
    PROVE  Inv'
  <1>1. PICK u \in Users, role \in Names :
           \/ CreateUser(actor, o, u, role) \/ UpdateUser(actor, o, u, role)
           \/ UserCreate(actor, o, u, role) \/ UserSetRole(actor, o, u, role)
    BY DEF UserStep
  <1>2. /\ Requires(actor, "user:manage", o) /\ WriteUser(o, u, role, deciding)
        /\ u \in DOMAIN users => users[u].organization = o
        /\ raced' = raced \ {u}
    BY <1>1 DEF CreateUser, UpdateUser, UserCreate, UserSetRole, UserInOrg
  <1>3. o \in organizations /\ role \in Name /\ raced' \subseteq Users
    BY <1>2, ActorsTenancy DEF Name, Inv, TypeOK
  <1>. QED  BY <1>2, <1>3, WriteUserInv

LEMMA RoleStepInv ==
    ASSUME Inv, NEW o \in Organizations, NEW actor \in Users, RoleStep(actor, o)
    PROVE  Inv'
  <1>1. PICK r \in RoleId :
           \/ RoleDelete(actor, o, r)
           \/ \E name \in Names, permissions \in Submitted :
                 \/ RoleCreate(actor, o, r, name, permissions)
                 \/ RoleUpdateSubmit(actor, o, r, name, permissions)
    BY DEF RoleStep
  <1>2. CASE RoleDelete(actor, o, r)
    <2>1. /\ DeleteRow(r, deciding) /\ raced' = raced
          /\ r \in DOMAIN roles /\ ~roles[r].is_system
      BY <1>2 DEF RoleDelete, MayDelete, RoleInOrg
    <2>. QED  BY <2>1, DeleteRowInv DEF Inv, TypeOK
  <1>3. ASSUME NEW name \in Names, NEW permissions \in Submitted,
               RoleUpdateSubmit(actor, o, r, name, permissions)
        PROVE  Inv'
    <2>1. /\ MayUpdate(actor, o, r, name) /\ raced' = raced
          /\ users' = Cascaded(o, roles[r].name, RenamedTo(r, name))
          /\ WriteRole(r, RenamedTo(r, name), permissions, deciding)
      BY <1>3 DEF RoleUpdateSubmit
    <2>2. /\ r \in DOMAIN roles /\ ~IsAdminRole(r) /\ RenamedTo(r, name) # "Admin"
          /\ roles[r].name \in Name /\ RenamedTo(r, name) \in Name
      BY <2>1, UpdateFound
    <2>3. raced' \subseteq Users /\ permissions \in SUBSET Permission
      BY <2>1, SubmittedAssumption DEF Inv, TypeOK
    <2>. QED  BY <2>1, <2>2, <2>3, WriteRoleInv
  <1>. QED  BY <1>1, <1>2, <1>3, RoleCreateInv

LEMMA SetupInv ==
    ASSUME Inv, NEW o \in Organizations, NEW u \in Users, SetupSubmit(o, u)
    PROVE  Inv'
  <1>1. CreateFirst(o, u, deciding) /\ raced' = raced /\ reopened' = reopened
    BY DEF SetupSubmit, history
  <1>. QED  BY <1>1, CreateFirstInv DEF Inv, TypeOK

\* The kinds of step there are.
LEMMA Steps ==
    ASSUME Next
    PROVE  \/ \E o \in Organizations, u \in Users : SetupSubmit(o, u)
           \/ \E o \in Organizations, actor \in Users : UserStep(actor, o)
           \/ \E o \in Organizations, actor \in Users : RoleStep(actor, o)
           \/ \E u \in Users : Register(u)
           \/ OtherProcess
  BY DEF Next

LEMMA OtherProcessInv ==
    ASSUME Inv, OtherProcess
    PROVE  Inv'
  <1>1. CASE \E p \in deciding :
                \/ p.op \in {"assign", "create"} /\ CommitAssign(p)
                \/ p.op = "update" /\ CommitUpdate(p)
                \/ p.op = "delete" /\ CommitDelete(p)
                \/ p.op = "setup" /\ CommitSetup(p)
                \/ Abandon(p)
    BY <1>1, CommitsInv, AbandonInv
  <1>2. ASSUME NEW request \in Requests, NEW o \in Organizations,
               \/ \E u \in Users : BeginSetup(request, o, u)
               \/ \E actor, u \in Users, role \in Names : BeginAssign(request, actor, o, u, role)
               \/ \E actor \in Users, r \in RoleId :
                     \/ BeginDelete(request, actor, o, r)
                     \/ \E name \in Names, permissions \in Submitted :
                           BeginUpdate(request, actor, o, r, name, permissions)
        PROVE  Inv'
    <2>1. ASSUME NEW u \in Users, BeginSetup(request, o, u)
          PROVE  Inv'
      BY <2>1, BeginSetupInv
    <2>2. ASSUME NEW actor \in Users, NEW u \in Users, NEW role \in Names,
                 BeginAssign(request, actor, o, u, role)
          PROVE  Inv'
      BY <2>2, BeginAssignInv
    <2>3. ASSUME NEW actor \in Users, NEW r \in RoleId, BeginDelete(request, actor, o, r)
          PROVE  Inv'
      BY <2>3, BeginDeleteInv
    <2>4. ASSUME NEW actor \in Users, NEW r \in RoleId, NEW name \in Names,
                 NEW permissions \in Submitted,
                 BeginUpdate(request, actor, o, r, name, permissions)
          PROVE  Inv'
      BY <2>4, BeginUpdateInv
    <2>. QED  BY <1>2, <2>1, <2>2, <2>3, <2>4
  <1>. QED  BY <1>1, <1>2 DEF OtherProcess

LEMMA InitInv == ASSUME Init PROVE Inv
  BY DEF Init, Inv, TypeOK, Tenancy, AdminLocked

LEMMA StepInv ==
    ASSUME Inv, [Next]_vars
    PROVE  Inv'
  <1>1. CASE Next
    BY <1>1, Steps, SetupInv, UserStepInv, RoleStepInv, RegisterInv, OtherProcessInv
  <1>2. CASE UNCHANGED vars
    BY <1>2 DEF vars, history, Inv, TypeOK, Tenancy, AdminLocked, Sound, IsAdminRole, UserInOrg
  <1>. QED  BY <1>1, <1>2

\* Every table keeps its type, whatever requests overlap: no user is ever
\* without a role's name, and the permissions of a role are permissions.
THEOREM TypeCorrect == Spec => []TypeOK
  <1>1. Init => Inv
    BY InitInv
  <1>2. Inv /\ [Next]_vars => Inv'
    BY StepInv
  <1>3. Inv => TypeOK
    BY DEF Inv
  <1>. QED  BY <1>1, <1>2, <1>3, PTL DEF Spec

----------------------------------------------------------------------------
(* The kinds of step, and what they found *)

Overlapped(o) ==
    raced' = raced \cup {u \in DOMAIN users' : users'[u].organization = o}

UserWritten(o, u, role, pending) ==
    /\ WriteUser(o, u, role, pending)
    /\ u \in DOMAIN users => users[u].organization = o
    /\ \/ IsAssignableRole(o, role) /\ raced' = raced \ {u}
       \/ Overlapped(o)

RoleWritten(r, name, permissions, old, new, pending) ==
    /\ WriteRole(r, name, permissions, pending)
    /\ users' = Cascaded(roles[r].organization, old, new)
    /\ RolesNamed(roles[r].organization, name) \subseteq {r}
    /\ old # "Admin"
    /\ \/ old = roles[r].name /\ new = name /\ raced' = raced
       \/ Overlapped(roles[r].organization)

RoleDeleted(r, pending) ==
    /\ DeleteRow(r, pending)
    /\ \/ UsersWithRole(roles[r].organization, roles[r].name) = {} /\ raced' = raced
       \/ Overlapped(roles[r].organization)

FirstCreated(o, u, pending) ==
    /\ CreateFirst(o, u, pending)
    /\ organizations = {} \/ reopened'
    /\ reopened => reopened'
    /\ raced \subseteq raced'

RoleAdded(o, r, name, permissions) ==
    /\ r \notin DOMAIN roles /\ RolesNamed(o, name) = {}
    /\ roles' = Insert(roles, r, [organization |-> o, name |-> name, is_system |-> FALSE,
                                  permissions |-> permissions])
    /\ deciding' = Overtaken(deciding, {})
    /\ UNCHANGED <<organizations, users, history>>

Waiting == UNCHANGED <<organizations, roles, users, history>>

Kind ==
    \/ \E o \in organizations, u \in Users, role \in Name, pending \in SUBSET deciding :
          UserWritten(o, u, role, pending)
    \/ \E r \in DOMAIN roles, name, old, new \in Name, pending \in SUBSET deciding :
          \E permissions : RoleWritten(r, name, permissions, old, new, pending)
    \/ \E r \in DOMAIN roles, pending \in SUBSET deciding : RoleDeleted(r, pending)
    \/ \E o \in Organizations, u \in Users, pending \in SUBSET deciding :
          FirstCreated(o, u, pending)
    \/ \E o \in Organizations : \E r, name, permissions : RoleAdded(o, r, name, permissions)
    \/ \E u \in Users : Register(u)
    \/ Waiting /\ Fresh'

LEMMA UserStepKind ==
    ASSUME IInv, NEW o \in Organizations, NEW actor \in Users, UserStep(actor, o)
    PROVE  Kind
  <1>1. PICK u \in Users, role \in Names :
           \/ CreateUser(actor, o, u, role) \/ UpdateUser(actor, o, u, role)
           \/ UserCreate(actor, o, u, role) \/ UserSetRole(actor, o, u, role)
    BY DEF UserStep
  <1>2. /\ Requires(actor, "user:manage", o) /\ WriteUser(o, u, role, deciding)
        /\ IsAssignableRole(o, role)
        /\ u \in DOMAIN users => UserInOrg(u, o)
        /\ raced' = raced \ {u}
    BY <1>1 DEF CreateUser, UpdateUser, UserCreate, UserSetRole, IsAssignableRole
  <1>3. o \in organizations /\ role \in Name /\ deciding \in SUBSET deciding
    BY <1>2, ActorsTenancy DEF IInv, Name
  <1>4. UserWritten(o, u, role, deciding)
    BY <1>2 DEF UserWritten, UserInOrg
  <1>. QED  BY <1>3, <1>4 DEF Kind

LEMMA RoleStepKind ==
    ASSUME IInv, NEW o \in Organizations, NEW actor \in Users, RoleStep(actor, o)
    PROVE  Kind
  <1>1. PICK r \in RoleId :
           \/ RoleDelete(actor, o, r)
           \/ \E name \in Names, permissions \in Submitted :
                 \/ RoleCreate(actor, o, r, name, permissions)
                 \/ RoleUpdateSubmit(actor, o, r, name, permissions)
    BY DEF RoleStep
  <1>2. CASE RoleDelete(actor, o, r)
    <2>1. r \in DOMAIN roles /\ RoleDeleted(r, deciding)
      BY <1>2 DEF RoleDelete, MayDelete, RoleInOrg, RoleDeleted
    <2>. QED  BY <2>1 DEF Kind
  <1>3. ASSUME NEW name \in Names, NEW permissions \in Submitted,
               RoleCreate(actor, o, r, name, permissions)
        PROVE  Kind
    <2>1. RoleAdded(o, r, name, permissions)
      BY <1>3 DEF RoleCreate, RoleAdded
    <2>. QED  BY <2>1 DEF Kind
  <1>4. ASSUME NEW name \in Names, NEW permissions \in Submitted,
               RoleUpdateSubmit(actor, o, r, name, permissions)
        PROVE  Kind
    <2>1. /\ MayUpdate(actor, o, r, name) /\ raced' = raced
          /\ users' = Cascaded(o, roles[r].name, RenamedTo(r, name))
          /\ WriteRole(r, RenamedTo(r, name), permissions, deciding)
      BY <1>4 DEF RoleUpdateSubmit
    <2>2. /\ r \in DOMAIN roles /\ roles[r].organization = o /\ roles[r].name # "Admin"
          /\ roles[r].name \in Name /\ RenamedTo(r, name) \in Name
      BY <2>1, UpdateFound DEF IInv
    <2>3. RolesNamed(o, RenamedTo(r, name)) \subseteq {r}
      BY <2>1, <2>2 DEF MayUpdate, RolesNamed, IInv, Unique
    <2>4. RoleWritten(r, RenamedTo(r, name), permissions, roles[r].name, RenamedTo(r, name), deciding)
      BY <2>1, <2>2, <2>3 DEF RoleWritten
    <2>. QED  BY <2>2, <2>4 DEF Kind
  <1>. QED  BY <1>1, <1>2, <1>3, <1>4

LEMMA SetupKind ==
    ASSUME IInv, NEW o \in Organizations, NEW u \in Users, SetupSubmit(o, u)
    PROVE  Kind
  <1>1. /\ CreateFirst(o, u, deciding) /\ ~AdminExists
        /\ raced' = raced /\ reopened' = reopened
    BY DEF SetupSubmit, history
  <1>2. FirstCreated(o, u, deciding)
    BY <1>1 DEF FirstCreated, IInv, Settled
  <1>. QED  BY <1>2 DEF Kind

LEMMA CommitsKind ==
    ASSUME IInv, NEW p \in deciding,
           \/ p.op \in {"assign", "create"} /\ CommitAssign(p)
           \/ p.op = "update" /\ CommitUpdate(p)
           \/ p.op = "delete" /\ CommitDelete(p)
           \/ p.op = "setup" /\ CommitSetup(p)
    PROVE  Kind
  <1> DEFINE pending == deciding \ {p}
  <1>1. /\ pending \in SUBSET deciding /\ p.organization \in Organizations
        /\ Sound(p) /\ UpToDate(p)
    BY Fields DEF IInv, Inv, Fresh
  <1>2. ASSUME Racing(p), p.stale
        PROVE  Overlapped(p.organization)
    BY <1>2 DEF Racing, Overlapped
  <1>. HIDE DEF pending
  <1>3. CASE p.op \in {"assign", "create"} /\ CommitAssign(p)
    <2>1. /\ p.user \in Users /\ p.role \in Name /\ p.organization \in organizations
      BY <1>1, <1>3, Fields DEF IInv, Inv, Sound
    <2>2. WriteUser(p.organization, p.user, p.role, pending) /\ Racing(p)
      BY <1>3 DEF CommitAssign, pending
    <2>3. p.user \in DOMAIN users => users[p.user].organization = p.organization
      BY <1>1, <1>3 DEF CommitAssign, Sound, UserInOrg
    <2>4. ASSUME ~p.stale
          PROVE  IsAssignableRole(p.organization, p.role) /\ raced' = raced \ {p.user}
      BY <1>1, <1>3, <2>2, <2>4 DEF UpToDate, Racing
    <2>5. UserWritten(p.organization, p.user, p.role, pending)
      BY <1>2, <2>2, <2>3, <2>4 DEF UserWritten
    <2>. QED  BY <1>1, <2>1, <2>5 DEF Kind
  <1>4. CASE p.op = "update" /\ CommitUpdate(p)
    <2>1. /\ p.id \in DOMAIN roles /\ roles[p.id].organization = p.organization
          /\ p.name # "Admin"
          /\ NewName(p) \in Name /\ p.name \in Name /\ p.new \in Name
          /\ users' = Cascaded(p.organization, p.name, p.new)
          /\ WriteRole(p.id, NewName(p), NewPermissions(p), pending)
          /\ Racing(p)
      BY <1>4, UpdateCommitted DEF IInv, pending
    <2>2. RolesNamed(p.organization, NewName(p)) \subseteq {p.id}
      BY <1>4 DEF CommitUpdate, NewName
    <2>3. ASSUME ~p.stale
          PROVE  RoleWritten(p.id, NewName(p), NewPermissions(p), p.name, p.new, pending)
      <3>1. p.name = roles[p.id].name /\ raced' = raced
        BY <1>1, <1>4, <2>1, <2>3 DEF UpToDate, Racing
      <3>2. NewName(p) = p.new
        BY <3>1 DEF NewName
      <3>. QED  BY <2>1, <2>2, <3>1, <3>2 DEF RoleWritten
    <2>4. RoleWritten(p.id, NewName(p), NewPermissions(p), p.name, p.new, pending)
      BY <1>2, <2>1, <2>2, <2>3 DEF RoleWritten
    <2>. QED  BY <1>1, <2>1, <2>4 DEF Kind
  <1>5. CASE p.op = "delete" /\ CommitDelete(p)
    <2>1. p.id \in DOMAIN roles /\ roles[p.id].organization = p.organization
      BY <1>1, <1>5 DEF Sound
    <2>2. DeleteRow(p.id, pending) /\ Racing(p)
      BY <1>5 DEF CommitDelete, pending
    <2>3. ~p.stale => /\ UsersWithRole(p.organization, roles[p.id].name) = {}
                      /\ raced' = raced
      BY <1>1, <1>5, <2>2 DEF UpToDate, Racing
    <2>4. RoleDeleted(p.id, pending)
      BY <1>2, <2>1, <2>2, <2>3 DEF RoleDeleted
    <2>. QED  BY <1>1, <2>1, <2>4 DEF Kind
  <1>6. CASE p.op = "setup" /\ CommitSetup(p)
    <2>1. p.user \in Users
      BY <1>6, Fields DEF IInv, Inv
    <2>2. /\ CreateFirst(p.organization, p.user, pending) /\ Racing(p)
          /\ reopened' = (reopened \/ p.stale)
      BY <1>6 DEF CommitSetup, pending
    <2>3. organizations = {} \/ reopened'
      BY <1>1, <1>6, <2>2 DEF UpToDate
    <2>4. raced \subseteq raced'
      BY <1>6, <2>2 DEF Racing
    <2>5. FirstCreated(p.organization, p.user, pending)
      BY <2>2, <2>3, <2>4 DEF FirstCreated
    <2>. QED  BY <1>1, <2>1, <2>5 DEF Kind
  <1>. QED  BY <1>3, <1>4, <1>5, <1>6

\* A handler that starts leaves what the others have found, and finds the same.
LEMMA BeginKind ==
    ASSUME IInv, NEW p, Begin(p), UpToDate(p)
    PROVE  Kind
  <1>1. /\ Waiting /\ deciding' = deciding \cup {p}
    BY DEF Begin, Waiting
  <1>2. \A q \in deciding' : UpToDate(q)
    BY <1>1 DEF IInv, Fresh
  <1>3. \A q : UpToDate(q)' = UpToDate(q)
    BY <1>1 DEF Waiting, history, UpToDate, IsAssignableRole, RolesNamed, UserInOrg, UsersWithRole
  <1>. QED  BY <1>1, <1>2, <1>3 DEF Kind, Fresh

LEMMA AbandonKind ==
    ASSUME IInv, NEW p, Abandon(p)
    PROVE  Kind
  <1>1. /\ Waiting /\ deciding' = deciding \ {p}
    BY DEF Abandon, Waiting
  <1>2. \A q \in deciding' : UpToDate(q)
    BY <1>1 DEF IInv, Fresh
  <1>3. \A q : UpToDate(q)' = UpToDate(q)
    BY <1>1 DEF Waiting, history, UpToDate, IsAssignableRole, RolesNamed, UserInOrg, UsersWithRole
  <1>. QED  BY <1>1, <1>2, <1>3 DEF Kind, Fresh

LEMMA BeginsKind ==
    ASSUME IInv, NEW request \in Requests, NEW o \in Organizations
    PROVE  /\ \A u \in Users : BeginSetup(request, o, u) => Kind
           /\ \A actor, u \in Users, role \in Names : BeginAssign(request, actor, o, u, role) => Kind
           /\ \A actor \in Users, r \in RoleId : BeginDelete(request, actor, o, r) => Kind
           /\ \A actor \in Users, r \in RoleId, new \in Names, permissions \in Submitted :
                 BeginUpdate(request, actor, o, r, new, permissions) => Kind
  <1>1. ASSUME NEW u \in Users, BeginSetup(request, o, u)
        PROVE  Kind
    <2> DEFINE p == [request |-> request, op |-> "setup", organization |-> o, user |-> u,
                     stale |-> FALSE]
    <2>1. p.op = "setup" /\ Begin(p)
      BY <1>1 DEF BeginSetup
    <2>2. organizations = {} \/ reopened
      BY <1>1 DEF BeginSetup, IInv, Settled
    <2>. HIDE DEF p
    <2>. QED  BY <2>1, <2>2, BeginKind DEF UpToDate
  <1>2. ASSUME NEW actor \in Users, NEW u \in Users, NEW role \in Names,
               BeginAssign(request, actor, o, u, role)
        PROVE  Kind
    <2> DEFINE p == [request |-> request,
                     op |-> IF u \in DOMAIN users THEN "assign" ELSE "create",
                     organization |-> o, user |-> u, role |-> role, stale |-> FALSE]
    <2>1. /\ p.op \in {"assign", "create"} /\ p.organization = o /\ p.user = u /\ p.role = role
          /\ p.op = "assign" => u \in DOMAIN users
          /\ Begin(p)
      BY <1>2 DEF BeginAssign
    <2>2. /\ IsAssignableRole(o, role)
          /\ u \in DOMAIN users => UserInOrg(u, o)
      BY <1>2 DEF BeginAssign
    <2>. HIDE DEF p
    <2>3. UpToDate(p)
      BY <2>1, <2>2 DEF UpToDate
    <2>. QED  BY <2>1, <2>3, BeginKind
  <1>3. ASSUME NEW actor \in Users, NEW r \in RoleId, BeginDelete(request, actor, o, r)
        PROVE  Kind
    <2> DEFINE p == [request |-> request, op |-> "delete", organization |-> o, id |-> r,
                     stale |-> FALSE]
    <2>1. p.op = "delete" /\ p.organization = o /\ p.id = r /\ Begin(p)
      BY <1>3 DEF BeginDelete
    <2>2. UsersWithRole(o, roles[r].name) = {}
      BY <1>3 DEF BeginDelete, MayDelete
    <2>. HIDE DEF p
    <2>. QED  BY <2>1, <2>2, BeginKind DEF UpToDate
  <1>4. ASSUME NEW actor \in Users, NEW r \in RoleId, NEW new \in Names,
               NEW permissions \in Submitted,
               BeginUpdate(request, actor, o, r, new, permissions)
        PROVE  Kind
    <2> DEFINE p == [request |-> request, op |-> "update", organization |-> o, id |-> r,
                     name |-> roles[r].name, new |-> RenamedTo(r, new),
                     permissions |-> permissions, edited |-> FALSE, stale |-> FALSE]
    <2>1. p.op = "update" /\ p.id = r /\ p.name = roles[r].name /\ Begin(p)
      BY <1>4 DEF BeginUpdate
    <2>. HIDE DEF p
    <2>. QED  BY <2>1, BeginKind DEF UpToDate
  <1>. QED  BY <1>1, <1>2, <1>3, <1>4

LEMMA OtherProcessKind ==
    ASSUME IInv, OtherProcess
    PROVE  Kind
  <1>1. CASE \E p \in deciding :
                \/ p.op \in {"assign", "create"} /\ CommitAssign(p)
                \/ p.op = "update" /\ CommitUpdate(p)
                \/ p.op = "delete" /\ CommitDelete(p)
                \/ p.op = "setup" /\ CommitSetup(p)
                \/ Abandon(p)
    BY <1>1, CommitsKind, AbandonKind
  <1>2. ASSUME NEW request \in Requests, NEW o \in Organizations,
               \/ \E u \in Users : BeginSetup(request, o, u)
               \/ \E actor, u \in Users, role \in Names : BeginAssign(request, actor, o, u, role)
               \/ \E actor \in Users, r \in RoleId :
                     \/ BeginDelete(request, actor, o, r)
                     \/ \E name \in Names, permissions \in Submitted :
                           BeginUpdate(request, actor, o, r, name, permissions)
        PROVE  Kind
    BY <1>2, BeginsKind
  <1>. QED  BY <1>1, <1>2 DEF OtherProcess

LEMMA NextKind ==
    ASSUME IInv, Next
    PROVE  Kind
  <1>1. (\E u \in Users : Register(u)) => Kind
    BY DEF Kind
  <1>. QED  BY <1>1, Steps, SetupKind, UserStepKind, RoleStepKind, OtherProcessKind

----------------------------------------------------------------------------
(* Each kind of step preserves the rest, and grants follow decisions *)

Rest == Unique /\ Settled /\ Fresh /\ RolesResolve

\* What GrantsFollowDecisions asks of a step.
Follows(u) ==
    Granted(u)' # Granted(u) =>
       \/ UNCHANGED roles /\ users'[u].role # users[u].role
       \/ RowOf(u) # {} /\ RowOf(u)' = RowOf(u)
       \/ RowOf(u) = {} /\ RowOf(u)' # {}

GrantsFollow == \A u \in DOMAIN users \ raced' : Follows(u)

LEMMA FreshAfterWrite ==
    ASSUME IInv, NEW pending \in SUBSET deciding, NEW edited,
           deciding' = Overtaken(pending, edited)
    PROVE  Fresh'
  <1>1. \A q \in deciding' : q.stale
    BY Survivors DEF IInv, Inv, Survives
  <1>. QED  BY <1>1 DEF Fresh, UpToDate

\* A user is granted the same while he and the row of his role stay the same.
LEMMA SameGrants ==
    ASSUME NEW u, users'[u] = users[u], RowOf(u)' = RowOf(u),
           \A r \in RowOf(u) : roles'[r].permissions = roles[r].permissions
    PROVE  Granted(u)' = Granted(u)
  <1>1. {roles'[r].permissions : r \in RowOf(u)} = {roles[r].permissions : r \in RowOf(u)}
    OBVIOUS
  <1>. QED  BY <1>1 DEF Granted, RowOf

LEMMA UserWrittenKeeps ==
    ASSUME IInv, NEW o \in organizations, NEW u \in Users, NEW role \in Name,
           NEW pending \in SUBSET deciding, UserWritten(o, u, role, pending)
    PROVE  Rest' /\ GrantsFollow
  <1>1. /\ users' = Insert(users, u, [organization |-> o, role |-> role])
        /\ organizations' = organizations /\ roles' = roles
        /\ deciding' = Overtaken(pending, {})
        /\ reopened' = (reopened \/ (AdminExists /\ ~AdminExists'))
    BY DEF UserWritten, WriteUser
  <1>2. /\ DOMAIN users' = DOMAIN users \cup {u}
        /\ users'[u] = [organization |-> o, role |-> role]
        /\ \A v \in DOMAIN users : v # u => users'[v] = users[v]
    BY <1>1 DEF Insert
  <1>3. u \in raced' \/ /\ IsAssignableRole(o, role)
                        /\ u \in DOMAIN users => users[u].organization = o
    BY <1>2 DEF UserWritten, Overlapped
  <1>4. raced \ {u} \subseteq raced'
    BY DEF UserWritten, Overlapped
  <1>5. Fresh'
    BY <1>1, FreshAfterWrite
  <1>6. Unique'
    BY <1>1 DEF IInv, Unique
  <1>7. Settled'
    BY <1>1 DEF IInv, Settled
  <1>8. RolesResolve'
    <2>1. ASSUME NEW v \in DOMAIN users' \ raced'
          PROVE  (RowOf(v) # {} \/ users[v].role \in Role)'
      <3>1. CASE v = u
        BY <1>1, <1>2, <1>3, <3>1 DEF IsAssignableRole, RowOf, RolesNamed
      <3>2. CASE v # u
        BY <1>1, <1>2, <1>4, <3>2 DEF IInv, RolesResolve, RowOf, RolesNamed
      <3>. QED  BY <3>1, <3>2
    <2>. QED  BY <2>1 DEF RolesResolve
  <1>9. GrantsFollow
    <2>1. ASSUME NEW v \in DOMAIN users \ raced'
          PROVE  Follows(v)
      <3>1. CASE users'[v] = users[v]
        <4>1. RowOf(v)' = RowOf(v)
          BY <1>1, <3>1 DEF RowOf, RolesNamed
        <4>2. Granted(v)' = Granted(v)
          BY <1>1, <3>1, <4>1, SameGrants
        <4>. QED  BY <4>2 DEF Follows
      <3>2. CASE users'[v] # users[v]
        <4>1. v = u /\ users[v].organization = o /\ users[v] \in User
          BY <1>2, <1>3, <3>2 DEF IInv, Inv, TypeOK
        <4>2. users'[v].role # users[v].role
          BY <1>2, <3>2, <4>1 DEF User
        <4>. QED  BY <1>1, <4>2 DEF Follows
      <3>. QED  BY <3>1, <3>2
    <2>. QED  BY <2>1 DEF GrantsFollow
  <1>. QED  BY <1>5, <1>6, <1>7, <1>8, <1>9 DEF Rest

LEMMA RoleWrittenKeeps ==
    ASSUME IInv, NEW r \in DOMAIN roles, NEW name \in Name, NEW permissions,
           NEW old \in Name, NEW new \in Name, NEW pending \in SUBSET deciding,
           RoleWritten(r, name, permissions, old, new, pending)
    PROVE  Rest' /\ GrantsFollow
  <1> DEFINE o == roles[r].organization
  <1>1. /\ roles' = [roles EXCEPT ![r].name = name, ![r].permissions = permissions]
        /\ deciding' = Overtaken(pending, {r})
        /\ organizations' = organizations /\ reopened' = reopened
        /\ users' = Cascaded(o, old, new)
        /\ RolesNamed(o, name) \subseteq {r} /\ old # "Admin"
    BY DEF RoleWritten, WriteRole
  <1>2. \/ old = roles[r].name /\ new = name /\ raced' = raced
        \/ Overlapped(o)
    BY DEF RoleWritten
  <1>3. roles[r] \in RoleDefinition
    BY DEF IInv, Inv, TypeOK
  <1>4. /\ DOMAIN roles' = DOMAIN roles
        /\ \A x \in DOMAIN roles : x # r => roles'[x] = roles[x]
        /\ roles'[r] = [roles[r] EXCEPT !.name = name, !.permissions = permissions]
    BY <1>1
  <1>5. roles'[r].organization = o /\ roles'[r].name = name
    BY <1>3, <1>4 DEF RoleDefinition
  <1>6. /\ DOMAIN users' = DOMAIN users
        /\ \A v \in DOMAIN users :
              /\ users'[v].organization = users[v].organization
              /\ users[v].organization = o /\ users[v].role = old => users'[v].role = new
              /\ ~(users[v].organization = o /\ users[v].role = old) => users'[v] = users[v]
    BY <1>1 DEF Cascaded, UsersWithRole, IInv, Inv, TypeOK, User
  <1>. HIDE DEF o
  <1>7. Fresh'
    BY <1>1, FreshAfterWrite
  <1>8. Unique'
    BY <1>1, <1>4, <1>5 DEF IInv, Unique, RolesNamed, o
  <1>9. Settled'
    <2>1. AdminExists => AdminExists'
      BY <1>1, <1>6 DEF AdminExists
    <2>. QED  BY <1>1, <2>1 DEF IInv, Settled
  <1>10. raced \subseteq raced'
    BY <1>2 DEF Overlapped
  <1>11. ASSUME NEW v \in DOMAIN users, users[v].organization # o
         PROVE  users'[v] = users[v] /\ RowOf(v)' = RowOf(v) /\ r \notin RowOf(v)
    <2>1. users'[v] = users[v]
      BY <1>6, <1>11
    <2>2. r \notin RowOf(v) /\ r \notin RowOf(v)'
      BY <1>5, <1>11, <2>1 DEF RowOf, RolesNamed, o
    <2>3. \A x : x \in RowOf(v)' <=> x \in RowOf(v)
      BY <1>4, <2>1, <2>2 DEF RowOf, RolesNamed
    <2>. QED  BY <2>1, <2>2, <2>3
  <1>12. ASSUME NEW v \in DOMAIN users, v \notin raced', users[v].organization = o
         PROVE  old = roles[r].name /\ new = name
    BY <1>2, <1>6, <1>12 DEF Overlapped
  <1>13. ASSUME NEW v \in DOMAIN users, v \notin raced', users[v].organization = o,
                users[v].role = old
         PROVE  RowOf(v) = {r} /\ RowOf(v)' = {r}
    <2>1. old = roles[r].name /\ new = name
      BY <1>12, <1>13
    <2>2. r \in RowOf(v)
      BY <1>13, <2>1 DEF RowOf, RolesNamed, o
    <2>3. r \in RowOf(v)'
      BY <1>4, <1>5, <1>6, <1>13, <2>1 DEF RowOf, RolesNamed, o
    <2>4. \A x \in RowOf(v) : x = r
      <3>1. \A x \in RowOf(v) :
               /\ x \in DOMAIN roles
               /\ roles[x].organization = roles[r].organization
               /\ roles[x].name = roles[r].name
        BY <1>13, <2>1 DEF RowOf, RolesNamed, o
      <3>. QED  BY <3>1 DEF IInv, Unique
    <2>5. \A x \in RowOf(v)' : x = r
      <3>1. \A x \in RowOf(v)' :
               /\ x \in DOMAIN roles
               /\ roles'[x].organization = o /\ roles'[x].name = name
        BY <1>4, <1>6, <1>13, <2>1 DEF RowOf, RolesNamed
      <3>. QED  BY <1>1, <1>4, <3>1 DEF RolesNamed
    <2>. QED  BY <2>2, <2>3, <2>4, <2>5
  <1>14. ASSUME NEW v \in DOMAIN users, v \notin raced', users[v].organization = o,
                users[v].role # old
         PROVE  /\ users'[v] = users[v] /\ r \notin RowOf(v)
                /\ RowOf(v) \subseteq RowOf(v)'
                /\ RowOf(v) # {} => RowOf(v)' = RowOf(v)
    <2>1. old = roles[r].name /\ new = name
      BY <1>12, <1>14
    <2>2. users'[v] = users[v] /\ r \notin RowOf(v)
      BY <1>6, <1>14, <2>1 DEF RowOf, RolesNamed
    <2>3. RowOf(v) \subseteq RowOf(v)'
      BY <1>4, <2>2 DEF RowOf, RolesNamed
    <2>4. ASSUME RowOf(v) # {}
          PROVE  RowOf(v)' \subseteq RowOf(v)
      <3>1. users[v].role # name
        BY <1>1, <1>14, <2>2, <2>4 DEF RowOf
      <3>. QED  BY <1>4, <1>5, <2>2, <3>1 DEF RowOf, RolesNamed
    <2>. QED  BY <2>2, <2>3, <2>4
  <1>15. RolesResolve'
    <2>1. ASSUME NEW v \in DOMAIN users' \ raced'
          PROVE  (RowOf(v) # {} \/ users[v].role \in Role)'
      <3>1. v \in DOMAIN users \ raced
        BY <1>6, <1>10
      <3>2. RowOf(v) # {} \/ users[v].role \in Role
        BY <3>1 DEF IInv, RolesResolve
      <3>. QED  BY <1>11, <1>13, <1>14, <3>1, <3>2
    <2>. QED  BY <2>1 DEF RolesResolve
  <1>16. GrantsFollow
    <2>1. ASSUME NEW v \in DOMAIN users \ raced'
          PROVE  Follows(v)
      <3>1. CASE users[v].organization = o /\ users[v].role = old
        BY <1>13, <3>1 DEF Follows
      <3>2. CASE users'[v] = users[v] /\ RowOf(v)' = RowOf(v) /\ r \notin RowOf(v)
        <4>1. \A x \in RowOf(v) : roles'[x].permissions = roles[x].permissions
          BY <1>4, <3>2 DEF RowOf, RolesNamed
        <4>2. Granted(v)' = Granted(v)
          BY <3>2, <4>1, SameGrants
        <4>. QED  BY <4>2 DEF Follows
      <3>3. CASE RowOf(v) = {} /\ RowOf(v)' # {}
        BY <3>3 DEF Follows
      <3>. QED  BY <1>11, <1>14, <3>1, <3>2, <3>3
    <2>. QED  BY <2>1 DEF GrantsFollow
  <1>. QED  BY <1>7, <1>8, <1>9, <1>15, <1>16 DEF Rest

LEMMA RoleDeletedKeeps ==
    ASSUME IInv, NEW r \in DOMAIN roles, NEW pending \in SUBSET deciding, RoleDeleted(r, pending)
    PROVE  Rest' /\ GrantsFollow
  <1> DEFINE kept == {p \in pending : p.op \in {"update", "delete"} => p.id # r}
  <1>1. /\ roles' = [x \in DOMAIN roles \ {r} |-> roles[x]]
        /\ deciding' = Overtaken(kept, {})
        /\ organizations' = organizations /\ users' = users /\ reopened' = reopened
    BY DEF RoleDeleted, DeleteRow
  <1>2. kept \in SUBSET deciding
    OBVIOUS
  <1>. HIDE DEF kept
  <1>3. /\ DOMAIN roles' = DOMAIN roles \ {r}
        /\ \A x \in DOMAIN roles' : roles'[x] = roles[x]
    BY <1>1
  <1>4. raced \subseteq raced'
    BY DEF RoleDeleted, Overlapped
  <1>5. Fresh' /\ Unique' /\ Settled'
    BY <1>1, <1>2, <1>3, FreshAfterWrite DEF IInv, Unique, Settled, AdminExists
  <1>6. ASSUME NEW v \in DOMAIN users, v \notin raced'
        PROVE  /\ RowOf(v)' = RowOf(v)
               /\ \A x \in RowOf(v) : roles'[x] = roles[x]
    <2>1. r \notin RowOf(v)
      BY <1>1, <1>6 DEF RoleDeleted, Overlapped, UsersWithRole, RowOf, RolesNamed
    <2>. QED  BY <1>1, <1>3, <2>1 DEF RowOf, RolesNamed
  <1>7. RolesResolve'
    BY <1>1, <1>4, <1>6 DEF IInv, RolesResolve
  <1>8. GrantsFollow
    BY <1>1, <1>6, SameGrants DEF GrantsFollow, Follows
  <1>. QED  BY <1>5, <1>7, <1>8 DEF Rest

LEMMA FirstCreatedKeeps ==
    ASSUME IInv, NEW o \in Organizations, NEW u \in Users, NEW pending \in SUBSET deciding,
           FirstCreated(o, u, pending)
    PROVE  Rest' /\ GrantsFollow
  <1> DEFINE admin == <<o, "Admin">>
             user  == <<o, "User">>
  <1>1. /\ o \notin organizations /\ u \notin DOMAIN users
        /\ organizations' = organizations \cup {o}
        /\ roles' = SeedSystemRoles(o)
        /\ users' = Insert(users, u, [organization |-> o, role |-> "Admin"])
        /\ deciding' = Overtaken(pending, {})
        /\ organizations = {} \/ reopened'
        /\ reopened => reopened'
        /\ raced \subseteq raced'
    BY DEF FirstCreated, CreateFirst
  <1>2. admin # user
    OBVIOUS
  <1>3. /\ DOMAIN roles' = DOMAIN roles \cup {admin, user}
        /\ roles'[admin].organization = o /\ roles'[admin].name = "Admin"
        /\ roles'[user].organization = o /\ roles'[user].name = "User"
        /\ \A x \in DOMAIN roles : x \notin {admin, user} => roles'[x] = roles[x]
    BY <1>1, <1>2 DEF SeedSystemRoles
  <1>4. {admin, user} \cap DOMAIN roles = {}
    BY <1>1 DEF IInv, Inv, Tenancy
  <1>. HIDE DEF admin, user
  <1>5. /\ DOMAIN users' = DOMAIN users \cup {u}
        /\ users'[u] = [organization |-> o, role |-> "Admin"]
        /\ \A v \in DOMAIN users : users'[v] = users[v]
    BY <1>1 DEF Insert
  <1>6. \A x \in DOMAIN roles : roles'[x] = roles[x] /\ roles[x].organization # o
    BY <1>1, <1>3, <1>4 DEF IInv, Inv, Tenancy
  <1>7. \A v \in DOMAIN users : users[v].organization # o
    BY <1>1, NullAssumption DEF IInv, Inv, Tenancy
  <1>8. ASSUME NEW v \in DOMAIN users
        PROVE  /\ RowOf(v)' = RowOf(v)
               /\ \A x \in RowOf(v) : roles'[x] = roles[x]
    BY <1>3, <1>5, <1>6, <1>7 DEF RowOf, RolesNamed
  <1>9. Fresh'
    BY <1>1, FreshAfterWrite
  <1>10. Unique'
    BY <1>2, <1>3, <1>6 DEF IInv, Unique
  <1>11. Settled'
    <2>1. AdminExists'
      BY <1>5 DEF AdminExists
    <2>. QED  BY <1>1, <2>1 DEF Settled
  <1>12. RolesResolve'
    BY <1>1, <1>5, <1>8 DEF IInv, RolesResolve, Role
  <1>13. GrantsFollow
    BY <1>5, <1>8, SameGrants DEF GrantsFollow, Follows
  <1>. QED  BY <1>9, <1>10, <1>11, <1>12, <1>13 DEF Rest

LEMMA RoleAddedKeeps ==
    ASSUME IInv, NEW o \in Organizations, NEW r, NEW name, NEW permissions,
           RoleAdded(o, r, name, permissions)
    PROVE  Rest' /\ GrantsFollow
  <1>1. /\ r \notin DOMAIN roles /\ RolesNamed(o, name) = {}
        /\ roles' = Insert(roles, r, [organization |-> o, name |-> name, is_system |-> FALSE,
                                      permissions |-> permissions])
        /\ deciding' = Overtaken(deciding, {})
        /\ organizations' = organizations /\ users' = users
        /\ raced' = raced /\ reopened' = reopened
    BY DEF RoleAdded, history
  <1>2. /\ DOMAIN roles' = DOMAIN roles \cup {r}
        /\ roles'[r].organization = o /\ roles'[r].name = name
        /\ \A x \in DOMAIN roles : roles'[x] = roles[x]
    BY <1>1 DEF Insert
  <1>3. Fresh'
    BY <1>1, FreshAfterWrite
  <1>4. Unique'
    <2>1. ASSUME NEW x \in DOMAIN roles
          PROVE  ~(roles[x].organization = o /\ roles[x].name = name)
      BY <1>1 DEF RolesNamed
    <2>2. ASSUME NEW x \in DOMAIN roles', NEW y \in DOMAIN roles',
                 roles'[x].organization = roles'[y].organization, roles'[x].name = roles'[y].name
          PROVE  x = y
      <3>1. CASE x = r \/ y = r
        BY <1>2, <2>1, <2>2, <3>1
      <3>2. CASE x # r /\ y # r
        BY <1>2, <2>2, <3>2 DEF IInv, Unique
      <3>. QED  BY <3>1, <3>2
    <2>. QED  BY <2>2 DEF Unique
  <1>5. Settled'
    BY <1>1 DEF IInv, Settled, AdminExists
  <1>6. ASSUME NEW v \in DOMAIN users
        PROVE  /\ RowOf(v) \subseteq RowOf(v)'
               /\ RowOf(v) # {} => RowOf(v)' = RowOf(v)
    <2>1. CASE users[v].organization = o /\ users[v].role = name
      BY <1>1, <2>1 DEF RowOf
    <2>2. CASE ~(users[v].organization = o /\ users[v].role = name)
      BY <1>1, <1>2, <2>2 DEF RowOf, RolesNamed
    <2>. QED  BY <2>1, <2>2
  <1>7. RolesResolve'
    BY <1>1, <1>6 DEF IInv, RolesResolve
  <1>8. ASSUME NEW v \in DOMAIN users
        PROVE  Follows(v)
    <2>1. \A x \in RowOf(v) : roles'[x].permissions = roles[x].permissions
      BY <1>2 DEF RowOf, RolesNamed
    <2>2. RowOf(v)' = RowOf(v) => Granted(v)' = Granted(v)
      BY <1>1, <2>1, SameGrants
    <2>. QED  BY <1>6, <2>2 DEF Follows
  <1>. QED  BY <1>3, <1>4, <1>5, <1>7, <1>8 DEF Rest, GrantsFollow

LEMMA RegisterKeeps ==
    ASSUME IInv, NEW u \in Users, Register(u)
    PROVE  Rest' /\ GrantsFollow
  <1>1. /\ users' = Insert(users, u, [organization |-> Null, role |-> "Viewer"])
        /\ u \notin DOMAIN users
        /\ organizations' = organizations /\ roles' = roles /\ deciding' = deciding
        /\ raced' = raced /\ reopened' = reopened
    BY DEF Register, history
  <1>2. /\ DOMAIN users' = DOMAIN users \cup {u}
        /\ users'[u] = [organization |-> Null, role |-> "Viewer"]
        /\ \A v \in DOMAIN users : users'[v] = users[v]
    BY <1>1 DEF Insert
  <1>3. Unique'
    BY <1>1 DEF IInv, Unique
  <1>4. Settled'
    BY <1>1, <1>2 DEF IInv, Settled, AdminExists
  <1>5. ASSUME NEW p \in deciding
        PROVE  UpToDate(p)'
    <2>1. p.organization # Null
      BY Fields, NullAssumption DEF IInv, Inv
    <2>2. \A name : UsersWithRole(p.organization, name)' = UsersWithRole(p.organization, name)
      BY <1>2, <2>1 DEF UsersWithRole
    <2>. QED  BY <1>1, <1>2, <2>2 DEF IInv, Fresh, UpToDate, IsAssignableRole, RolesNamed, UserInOrg
  <1>6. \A v \in DOMAIN users : RowOf(v)' = RowOf(v)
    BY <1>1, <1>2 DEF RowOf, RolesNamed
  <1>7. RolesResolve'
    BY <1>1, <1>2, <1>6 DEF IInv, RolesResolve, Role
  <1>8. GrantsFollow
    BY <1>1, <1>2, <1>6, SameGrants DEF GrantsFollow, Follows
  <1>. QED  BY <1>1, <1>3, <1>4, <1>5, <1>7, <1>8 DEF Rest, Fresh

LEMMA UnchangedKeeps ==
    ASSUME IInv, Waiting
    PROVE  Unique' /\ Settled' /\ RolesResolve' /\ GrantsFollow
  <1>1. /\ organizations' = organizations /\ roles' = roles /\ users' = users
        /\ raced' = raced /\ reopened' = reopened
    BY DEF Waiting, history
  <1>2. \A v : RowOf(v)' = RowOf(v)
    BY <1>1 DEF RowOf, RolesNamed
  <1>3. GrantsFollow
    BY <1>1, <1>2, SameGrants DEF GrantsFollow, Follows
  <1>. QED  BY <1>1, <1>2, <1>3 DEF IInv, Unique, Settled, AdminExists, RolesResolve

LEMMA NextKeeps ==
    ASSUME IInv, Next
    PROVE  Rest' /\ GrantsFollow
  <1>1. Kind
    BY NextKind
  <1>2. CASE Waiting /\ Fresh'
    BY <1>2, UnchangedKeeps DEF Rest
  <1>. QED  BY <1>1, <1>2, UserWrittenKeeps, RoleWrittenKeeps, RoleDeletedKeeps,
               FirstCreatedKeeps, RoleAddedKeeps, RegisterKeeps DEF Kind

LEMMA InitIInv == ASSUME Init PROVE IInv
  BY InitInv DEF Init, IInv, Unique, Settled, Fresh, RolesResolve

LEMMA StepIInv ==
    ASSUME IInv, [Next]_vars
    PROVE  IInv'
  <1>1. CASE Next
    BY <1>1, StepInv, NextKeeps DEF IInv, Rest
  <1>2. CASE UNCHANGED vars
    <2>1. Waiting /\ deciding' = deciding
      BY <1>2 DEF vars, Waiting
    <2>2. \A q : UpToDate(q)' = UpToDate(q)
      BY <2>1 DEF Waiting, history, UpToDate, IsAssignableRole, RolesNamed, UserInOrg, UsersWithRole
    <2>3. Fresh'
      BY <2>1, <2>2 DEF IInv, Fresh
    <2>. QED  BY <2>1, <2>3, StepInv, UnchangedKeeps DEF IInv
  <1>. QED  BY <1>1, <1>2

LEMMA Invariance == Spec => []IInv
  BY InitIInv, StepIInv, PTL DEF Spec

\* Every organization keeps its system role Admin, and no other role of it ever
\* gets that name, which grants every permission: not by a form, and not by a
\* rename whose commit was overtaken by other requests.
THEOREM AdminStaysLocked == Spec => []AdminLocked
  <1>1. IInv => AdminLocked
    BY DEF IInv, Inv
  <1>. QED  BY <1>1, Invariance, PTL

\* No two roles of an organization ever have the same name, also when creations
\* and renames overlap: the name that a user carries means one role.
THEOREM RoleNamesUnique == Spec => []Unique
  <1>1. IInv => Unique
    BY DEF IInv
  <1>. QED  BY <1>1, Invariance, PTL

\* No user keeps the name of a role that was renamed or deleted, unless
\* requests have overlapped in his organization.
THEOREM RolesAlwaysResolve == Spec => []RolesResolve
  <1>1. IInv => RolesResolve
    BY DEF IInv
  <1>. QED  BY <1>1, Invariance, PTL

\* What a user is granted changes only by a decision about it, in any number of
\* organizations with any roles, unless requests have overlapped.
THEOREM GrantsFollowAlways == Spec => GrantsFollowDecisions
  <1>1. IInv /\ [Next]_vars => [GrantsFollow]_vars
    BY NextKeeps
  <1>. QED  BY <1>1, Invariance, PTL DEF Spec, GrantsFollowDecisions, GrantsFollow, Follows

\* The setup makes one organization and no second one, unless the last
\* administrator has lost his role or two setups have overlapped.
THEOREM SetupOnlyOnce == Spec => []SetupOnce
  <1>1. IInv => SetupOnce
    <2>1. Cardinality({}) = 0 /\ \A o : Cardinality({o}) = 1
      BY FS_EmptySet, FS_Singleton
    <2>. QED  BY <2>1 DEF IInv, Settled, SetupOnce
  <1>. QED  BY <1>1, Invariance, PTL

----------------------------------------------------------------------------
(* Organizations are apart *)

RolesStay ==
    \A r \in DOMAIN roles \cap DOMAIN roles' : roles'[r].organization = roles[r].organization

\* What a step does to users and roles concerns the organization o: the rows of
\* the others stay, and what is new belongs to o.
ConfinedTo(o) ==
    /\ UsersStay /\ RolesStay
    /\ \A u \in DOMAIN users : users[u].organization # o => users'[u] = users[u]
    /\ \A u \in DOMAIN users' \ DOMAIN users : users'[u].organization = o
    /\ \A r \in DOMAIN roles : roles[r].organization # o =>
          r \in DOMAIN roles' /\ roles'[r] = roles[r]
    /\ \A r \in DOMAIN roles' \ DOMAIN roles : roles'[r].organization = o

Confined == \E o \in Organizations \cup {Null} : ConfinedTo(o)

LEMMA UserWrittenConfined ==
    ASSUME NEW o, NEW u, NEW role, NEW pending, UserWritten(o, u, role, pending)
    PROVE  ConfinedTo(o)
  <1>1. /\ users' = Insert(users, u, [organization |-> o, role |-> role])
        /\ roles' = roles
        /\ u \in DOMAIN users => users[u].organization = o
    BY DEF UserWritten, WriteUser
  <1>2. /\ DOMAIN users' = DOMAIN users \cup {u}
        /\ users'[u].organization = o
        /\ \A v \in DOMAIN users : v # u => users'[v] = users[v]
    BY <1>1 DEF Insert
  <1>. QED  BY <1>1, <1>2 DEF ConfinedTo, UsersStay, RolesStay

LEMMA RoleWrittenConfined ==
    ASSUME IInv, NEW r \in DOMAIN roles, NEW name, NEW permissions, NEW old, NEW new, NEW pending,
           RoleWritten(r, name, permissions, old, new, pending)
    PROVE  ConfinedTo(roles[r].organization)
  <1> DEFINE o == roles[r].organization
  <1>1. /\ roles' = [roles EXCEPT ![r].name = name, ![r].permissions = permissions]
        /\ users' = Cascaded(o, old, new)
    BY DEF RoleWritten, WriteRole
  <1>2. roles[r] \in RoleDefinition /\ users \in [DOMAIN users -> User]
    BY DEF IInv, Inv, TypeOK
  <1>3. /\ DOMAIN roles' = DOMAIN roles
        /\ \A x \in DOMAIN roles : x # r => roles'[x] = roles[x]
        /\ roles'[r].organization = o
    BY <1>1, <1>2 DEF RoleDefinition
  <1>4. /\ DOMAIN users' = DOMAIN users
        /\ \A v \in DOMAIN users : users'[v].organization = users[v].organization
        /\ \A v \in DOMAIN users : users[v].organization # o => users'[v] = users[v]
    BY <1>1, <1>2 DEF Cascaded, UsersWithRole, User
  <1>. QED  BY <1>3, <1>4 DEF ConfinedTo, UsersStay, RolesStay

LEMMA RoleDeletedConfined ==
    ASSUME NEW r \in DOMAIN roles, NEW pending, RoleDeleted(r, pending)
    PROVE  ConfinedTo(roles[r].organization)
  <1>1. roles' = [x \in DOMAIN roles \ {r} |-> roles[x]] /\ users' = users
    BY DEF RoleDeleted, DeleteRow
  <1>. QED  BY <1>1 DEF ConfinedTo, UsersStay, RolesStay

LEMMA FirstCreatedConfined ==
    ASSUME IInv, NEW o \in Organizations, NEW u, NEW pending, FirstCreated(o, u, pending)
    PROVE  ConfinedTo(o)
  <1> DEFINE admin == <<o, "Admin">>
             user  == <<o, "User">>
  <1>1. /\ o \notin organizations /\ u \notin DOMAIN users
        /\ roles' = SeedSystemRoles(o)
        /\ users' = Insert(users, u, [organization |-> o, role |-> "Admin"])
    BY DEF FirstCreated, CreateFirst
  <1>2. admin # user
    OBVIOUS
  <1>3. /\ DOMAIN roles' = DOMAIN roles \cup {admin, user}
        /\ roles'[admin].organization = o /\ roles'[user].organization = o
        /\ \A x \in DOMAIN roles : x \notin {admin, user} => roles'[x] = roles[x]
    BY <1>1, <1>2 DEF SeedSystemRoles
  <1>4. {admin, user} \cap DOMAIN roles = {}
    BY <1>1 DEF IInv, Inv, Tenancy
  <1>5. /\ DOMAIN users' = DOMAIN users \cup {u}
        /\ users'[u].organization = o
        /\ \A v \in DOMAIN users : users'[v] = users[v]
    BY <1>1 DEF Insert
  <1>. HIDE DEF admin, user
  <1>. QED  BY <1>3, <1>4, <1>5 DEF ConfinedTo, UsersStay, RolesStay

LEMMA RoleAddedConfined ==
    ASSUME NEW o, NEW r, NEW name, NEW permissions, RoleAdded(o, r, name, permissions)
    PROVE  ConfinedTo(o)
  <1>1. /\ r \notin DOMAIN roles /\ users' = users
        /\ roles' = Insert(roles, r, [organization |-> o, name |-> name, is_system |-> FALSE,
                                      permissions |-> permissions])
    BY DEF RoleAdded
  <1>2. /\ DOMAIN roles' = DOMAIN roles \cup {r}
        /\ roles'[r].organization = o
        /\ \A x \in DOMAIN roles : roles'[x] = roles[x]
    BY <1>1 DEF Insert
  <1>. QED  BY <1>1, <1>2 DEF ConfinedTo, UsersStay, RolesStay

LEMMA RegisterConfined ==
    ASSUME NEW u, Register(u)
    PROVE  ConfinedTo(Null)
  <1>1. /\ users' = Insert(users, u, [organization |-> Null, role |-> "Viewer"])
        /\ u \notin DOMAIN users /\ roles' = roles
    BY DEF Register
  <1>2. /\ DOMAIN users' = DOMAIN users \cup {u}
        /\ users'[u].organization = Null
        /\ \A v \in DOMAIN users : users'[v] = users[v]
    BY <1>1 DEF Insert
  <1>. QED  BY <1>1, <1>2 DEF ConfinedTo, UsersStay, RolesStay

LEMMA NextConfined ==
    ASSUME IInv, Next
    PROVE  Confined
  <1>1. organizations \subseteq Organizations
        /\ \A r \in DOMAIN roles : roles[r].organization \in Organizations
    BY DEF IInv, Inv, TypeOK, RoleDefinition
  <1>2. CASE Waiting
    BY <1>2 DEF Waiting, Confined, ConfinedTo, UsersStay, RolesStay
  <1>3. Kind
    BY NextKind
  <1>. QED  BY <1>1, <1>2, <1>3, UserWrittenConfined, RoleWrittenConfined, RoleDeletedConfined,
               FirstCreatedConfined, RoleAddedConfined, RegisterConfined DEF Kind, Confined

\* Organizations are apart: no step, not even the commit of a request that was
\* overtaken by others, touches the users or the roles of two of them, and no
\* user and no role is ever moved from one to another.  A registration concerns
\* those who are in none.
THEOREM OrganizationsApart == Spec => [][Confined]_vars
  <1>1. IInv /\ [Next]_vars => [Confined]_vars
    BY NextConfined
  <1>. QED  BY <1>1, Invariance, PTL DEF Spec

----------------------------------------------------------------------------
(* Requests that nothing has overtaken are as good as requests at once *)

\* The handlers as they would be in one process: none is ever under way.
One == INSTANCE AccessControl WITH deciding <- {}

\* What a request has checked would still let it pass when nothing was written
\* since: the rights of whoever sent it, and the rows it concerns.
Entitled(p) ==
    ~p.stale =>
       /\ p.op \in {"assign", "create"} =>
             /\ p.role \in Names /\ IsAssignableRole(p.organization, p.role)
             /\ \E actor \in Users : Requires(actor, "user:manage", p.organization)
       /\ p.op = "update" =>
             /\ ~p.edited /\ p.name = roles[p.id].name
             /\ \E actor \in Users, new \in Names :
                   MayUpdate(actor, p.organization, p.id, new) /\ p.new = RenamedTo(p.id, new)
       /\ p.op = "delete" => \E actor \in Users : MayDelete(actor, p.organization, p.id)
       /\ p.op = "setup" => ~AdminExists

AllEntitled == \A p \in deciding : Entitled(p)

\* A write leaves all the requests under way stale.
Overtakes == \E pending \in SUBSET deciding : \E edited : deciding' = Overtaken(pending, edited)

LEMMA OvertakenStale ==
    ASSUME TypeOK, Overtakes
    PROVE  AllEntitled'
  <1>1. PICK pending \in SUBSET deciding : \E edited : deciding' = Overtaken(pending, edited)
    BY DEF Overtakes
  <1>2. PICK edited : deciding' = Overtaken(pending, edited)
    BY <1>1
  <1>3. \A q \in deciding' : q.stale
    BY <1>2, Survivors DEF Survives
  <1>. QED  BY <1>3 DEF AllEntitled, Entitled

LEMMA CommitOvertakes ==
    ASSUME NEW p \in deciding,
           CommitAssign(p) \/ CommitUpdate(p) \/ CommitDelete(p) \/ CommitSetup(p)
    PROVE  Overtakes
  <1>. DEFINE pending == deciding \ {p}
              kept    == {q \in pending : q.op \in {"update", "delete"} => q.id # p.id}
  <1>1. pending \in SUBSET deciding /\ kept \in SUBSET deciding
    OBVIOUS
  <1>2. CASE CommitAssign(p)
    BY <1>1, <1>2 DEF CommitAssign, WriteUser, Overtakes
  <1>3. CASE CommitUpdate(p)
    BY <1>1, <1>3 DEF CommitUpdate, WriteRole, Overtakes
  <1>4. CASE CommitDelete(p)
    <2>1. deciding' = Overtaken(kept, {})
      BY <1>4 DEF CommitDelete, DeleteRow
    <2>. QED  BY <1>1, <2>1 DEF Overtakes
  <1>5. CASE CommitSetup(p)
    BY <1>1, <1>5 DEF CommitSetup, CreateFirst, Overtakes
  <1>. QED  BY <1>2, <1>3, <1>4, <1>5

LEMMA OneStepOvertakes ==
    ASSUME NEW o,
           \/ \E u \in Users : SetupSubmit(o, u)
           \/ \E actor \in Users : UserStep(actor, o) \/ RoleStep(actor, o)
    PROVE  Overtakes
  <1>1. deciding \in SUBSET deciding
    OBVIOUS
  <1>2. ASSUME NEW u, SetupSubmit(o, u)
        PROVE  Overtakes
    BY <1>1, <1>2 DEF SetupSubmit, CreateFirst, Overtakes
  <1>3. ASSUME NEW actor, UserStep(actor, o)
        PROVE  Overtakes
    BY <1>1, <1>3 DEF UserStep, CreateUser, UpdateUser, UserCreate, UserSetRole, WriteUser, Overtakes
  <1>4. ASSUME NEW actor, RoleStep(actor, o)
        PROVE  Overtakes
    <2>1. ASSUME NEW r, RoleDelete(actor, o, r)
          PROVE  Overtakes
      <3>. DEFINE kept == {q \in deciding : q.op \in {"update", "delete"} => q.id # r}
      <3>1. kept \in SUBSET deciding /\ deciding' = Overtaken(kept, {})
        BY <2>1 DEF RoleDelete, DeleteRow
      <3>. QED  BY <3>1 DEF Overtakes
    <2>2. ASSUME NEW r, NEW name, NEW permissions, RoleCreate(actor, o, r, name, permissions)
          PROVE  Overtakes
      BY <1>1, <2>2 DEF RoleCreate, Overtakes
    <2>3. ASSUME NEW r, NEW name, NEW permissions, RoleUpdateSubmit(actor, o, r, name, permissions)
          PROVE  Overtakes
      BY <1>1, <2>3 DEF RoleUpdateSubmit, WriteRole, Overtakes
    <2>. QED  BY <1>4, <2>1, <2>2, <2>3 DEF RoleStep
  <1>. QED  BY <1>2, <1>3, <1>4

\* What a handler has checked when it starts.
LEMMA BeginsEntitled ==
    ASSUME NEW request, NEW o
    PROVE  /\ \A u \in Users : BeginSetup(request, o, u) => \E p : Begin(p) /\ Entitled(p)
           /\ \A actor, u \in Users, role \in Names :
                 BeginAssign(request, actor, o, u, role) => \E p : Begin(p) /\ Entitled(p)
           /\ \A actor \in Users, r \in RoleId :
                 BeginDelete(request, actor, o, r) => \E p : Begin(p) /\ Entitled(p)
           /\ \A actor \in Users, r \in RoleId, new \in Names, permissions \in Submitted :
                 BeginUpdate(request, actor, o, r, new, permissions)
                    => \E p : Begin(p) /\ Entitled(p)
  <1>1. ASSUME NEW u \in Users, BeginSetup(request, o, u)
        PROVE  \E p : Begin(p) /\ Entitled(p)
    <2> DEFINE p == [request |-> request, op |-> "setup", organization |-> o, user |-> u,
                     stale |-> FALSE]
    <2>1. p.op = "setup" /\ Begin(p) /\ ~AdminExists
      BY <1>1 DEF BeginSetup
    <2>. HIDE DEF p
    <2>2. Entitled(p)
      BY <2>1 DEF Entitled
    <2>. QED  BY <2>1, <2>2
  <1>2. ASSUME NEW actor \in Users, NEW u \in Users, NEW role \in Names,
               BeginAssign(request, actor, o, u, role)
        PROVE  \E p : Begin(p) /\ Entitled(p)
    <2> DEFINE p == [request |-> request,
                     op |-> IF u \in DOMAIN users THEN "assign" ELSE "create",
                     organization |-> o, user |-> u, role |-> role, stale |-> FALSE]
    <2>1. /\ p.op \in {"assign", "create"} /\ p.organization = o /\ p.role = role
          /\ Begin(p)
      BY <1>2 DEF BeginAssign
    <2>2. IsAssignableRole(o, role) /\ Requires(actor, "user:manage", o)
      BY <1>2 DEF BeginAssign
    <2>. HIDE DEF p
    <2>3. Entitled(p)
      BY <2>1, <2>2 DEF Entitled
    <2>. QED  BY <2>1, <2>3
  <1>3. ASSUME NEW actor \in Users, NEW r \in RoleId, BeginDelete(request, actor, o, r)
        PROVE  \E p : Begin(p) /\ Entitled(p)
    <2> DEFINE p == [request |-> request, op |-> "delete", organization |-> o, id |-> r,
                     stale |-> FALSE]
    <2>1. p.op = "delete" /\ p.organization = o /\ p.id = r /\ Begin(p)
      BY <1>3 DEF BeginDelete
    <2>2. MayDelete(actor, o, r)
      BY <1>3 DEF BeginDelete
    <2>. HIDE DEF p
    <2>3. Entitled(p)
      BY <2>1, <2>2 DEF Entitled
    <2>. QED  BY <2>1, <2>3
  <1>4. ASSUME NEW actor \in Users, NEW r \in RoleId, NEW new \in Names,
               NEW permissions \in Submitted,
               BeginUpdate(request, actor, o, r, new, permissions)
        PROVE  \E p : Begin(p) /\ Entitled(p)
    <2> DEFINE p == [request |-> request, op |-> "update", organization |-> o, id |-> r,
                     name |-> roles[r].name, new |-> RenamedTo(r, new),
                     permissions |-> permissions, edited |-> FALSE, stale |-> FALSE]
    <2>1. /\ p.op = "update" /\ p.organization = o /\ p.id = r /\ ~p.edited
          /\ p.name = roles[r].name /\ p.new = RenamedTo(r, new)
      OBVIOUS
    <2>2. MayUpdate(actor, o, r, new) /\ Begin(p)
      BY <1>4 DEF BeginUpdate
    <2>. HIDE DEF p
    <2>3. Entitled(p)
      BY <2>1, <2>2 DEF Entitled
    <2>. QED  BY <2>2, <2>3
  <1>. QED  BY <1>1, <1>2, <1>3, <1>4

\* A registration gives nobody in an organization a right and takes none away.
LEMMA RegisterEntitled ==
    ASSUME TypeOK, AllEntitled, NEW u \in Users, Register(u)
    PROVE  AllEntitled'
  <1>1. /\ users' = Insert(users, u, [organization |-> Null, role |-> "Viewer"])
        /\ u \notin DOMAIN users /\ roles' = roles /\ deciding' = deciding
    BY DEF Register
  <1>2. /\ DOMAIN users' = DOMAIN users \cup {u}
        /\ users'[u] = [organization |-> Null, role |-> "Viewer"]
        /\ \A v \in DOMAIN users : users'[v] = users[v]
    BY <1>1 DEF Insert
  <1>3. \A o, name : RolesNamed(o, name)' = RolesNamed(o, name)
    BY <1>1 DEF RolesNamed
  <1>4. ASSUME NEW v \in DOMAIN users
        PROVE  Granted(v)' = Granted(v)
    BY <1>1, <1>2, <1>3, SameGrants DEF RowOf
  <1>5. ASSUME NEW actor, NEW permission, NEW o, Requires(actor, permission, o)
        PROVE  Requires(actor, permission, o)'
    BY <1>2, <1>4, <1>5 DEF Requires
  <1>6. ASSUME NEW p \in deciding, ~p.stale
        PROVE  Entitled(p)'
    <2>1. p.organization # Null /\ Entitled(p)
      BY Fields, NullAssumption DEF AllEntitled
    <2>2. \A name : UsersWithRole(p.organization, name)' = UsersWithRole(p.organization, name)
      BY <1>2, <2>1 DEF UsersWithRole
    <2>3. CASE p.op \in {"assign", "create"}
      BY <1>1, <1>3, <1>5, <1>6, <2>1, <2>3 DEF Entitled, IsAssignableRole
    <2>4. CASE p.op = "update"
      <3>1. PICK actor \in Users, new \in Names :
               MayUpdate(actor, p.organization, p.id, new) /\ p.new = RenamedTo(p.id, new)
        BY <1>6, <2>1, <2>4 DEF Entitled
      <3>2. Requires(actor, "settings:manage", p.organization)'
        BY <1>5, <3>1 DEF MayUpdate
      <3>3. MayUpdate(actor, p.organization, p.id, new)' /\ p.new = RenamedTo(p.id, new)'
        BY <1>1, <1>3, <3>1, <3>2 DEF MayUpdate, RenamedTo, RoleInOrg, IsAdminRole
      <3>4. ~p.edited /\ p.name = roles'[p.id].name
        BY <1>1, <1>6, <2>1, <2>4 DEF Entitled
      <3>. QED  BY <2>4, <3>3, <3>4 DEF Entitled
    <2>5. CASE p.op = "delete"
      <3>1. PICK actor \in Users : MayDelete(actor, p.organization, p.id)
        BY <1>6, <2>1, <2>5 DEF Entitled
      <3>2. Requires(actor, "settings:manage", p.organization)'
        BY <1>5, <3>1 DEF MayDelete
      <3>3. MayDelete(actor, p.organization, p.id)'
        BY <1>1, <2>2, <3>1, <3>2 DEF MayDelete, RoleInOrg
      <3>. QED  BY <2>5, <3>3 DEF Entitled
    <2>6. CASE p.op = "setup"
      BY <1>2, <1>6, <2>1, <2>6 DEF Entitled, AdminExists
    <2>. QED  BY <2>3, <2>4, <2>5, <2>6, Fields
  <1>7. \A p \in deciding : Entitled(p)'
    BY <1>6 DEF Entitled
  <1>. QED  BY <1>1, <1>7 DEF AllEntitled

LEMMA QuietEntitled ==
    ASSUME UNCHANGED <<roles, users>>, NEW p, Entitled(p)
    PROVE  Entitled(p)'
  BY DEF Entitled, IsAssignableRole, RolesNamed, Requires, Granted, MayUpdate, MayDelete, RoleInOrg,
         IsAdminRole, RenamedTo, UsersWithRole, AdminExists

LEMMA StepEntitled ==
    ASSUME TypeOK, AllEntitled, [Next]_vars
    PROVE  AllEntitled'
  <1>1. CASE UNCHANGED vars
    BY <1>1, QuietEntitled DEF vars, AllEntitled
  <1>2. ASSUME NEW p, Begin(p), Entitled(p)
        PROVE  AllEntitled'
    BY <1>2, QuietEntitled DEF Begin, AllEntitled
  <1>3. ASSUME NEW p, Abandon(p)
        PROVE  AllEntitled'
    BY <1>3, QuietEntitled DEF Abandon, AllEntitled
  <1>4. CASE OtherProcess
    <2>1. CASE \E p \in deciding :
                  \/ p.op \in {"assign", "create"} /\ CommitAssign(p)
                  \/ p.op = "update" /\ CommitUpdate(p)
                  \/ p.op = "delete" /\ CommitDelete(p)
                  \/ p.op = "setup" /\ CommitSetup(p)
                  \/ Abandon(p)
      BY <1>3, <2>1, CommitOvertakes, OvertakenStale
    <2>2. ASSUME NEW request \in Requests, NEW o \in Organizations,
                 \/ \E u \in Users : BeginSetup(request, o, u)
                 \/ \E actor, u \in Users, role \in Names : BeginAssign(request, actor, o, u, role)
                 \/ \E actor \in Users, r \in RoleId :
                       \/ BeginDelete(request, actor, o, r)
                       \/ \E name \in Names, permissions \in Submitted :
                             BeginUpdate(request, actor, o, r, name, permissions)
          PROVE  AllEntitled'
      <3>1. \E p : Begin(p) /\ Entitled(p)
        BY <2>2, BeginsEntitled
      <3>. QED  BY <1>2, <3>1
    <2>. QED  BY <1>4, <2>1, <2>2 DEF OtherProcess
  <1>5. CASE Next
    BY <1>4, <1>5, Steps, OneStepOvertakes, OvertakenStale, RegisterEntitled
  <1>. QED  BY <1>1, <1>5

EntitledInv == IInv /\ AllEntitled

LEMMA EntitledInvariant == Spec => []EntitledInv
  <1>1. Init => EntitledInv
    BY InitIInv DEF Init, EntitledInv, AllEntitled
  <1>2. EntitledInv /\ [Next]_vars => EntitledInv'
    BY StepIInv, StepEntitled DEF EntitledInv, IInv, Inv
  <1>. QED  BY <1>1, <1>2, PTL DEF Spec

\* What is looked up is the same, whoever is under way.
LEMMA SameRules ==
    /\ \A o, name : /\ One!RolesNamed(o, name) = RolesNamed(o, name)
                    /\ One!UsersWithRole(o, name) = UsersWithRole(o, name)
                    /\ IsAssignableRole(o, name) => One!IsAssignableRole(o, name)
    /\ \A u, permission, o : Requires(u, permission, o) => One!Requires(u, permission, o)
    /\ \A actor, o, r, new : MayUpdate(actor, o, r, new) => One!MayUpdate(actor, o, r, new)
    /\ \A actor, o, r : MayDelete(actor, o, r) => One!MayDelete(actor, o, r)
    /\ \A u, o : UserInOrg(u, o) => One!UserInOrg(u, o)
    /\ \A r, new : One!RenamedTo(r, new) = RenamedTo(r, new)
    /\ One!AdminExists => AdminExists
    /\ One!RoleId = RoleId /\ One!Role = Role
  <1>1. One!RoleId = RoleId /\ One!Role = Role
    BY DEF One!RoleId, RoleId, One!Role, Role
  <1>2. \A o, name : /\ One!RolesNamed(o, name) = RolesNamed(o, name)
                     /\ One!UsersWithRole(o, name) = UsersWithRole(o, name)
    BY DEF One!RolesNamed, RolesNamed, One!UsersWithRole, UsersWithRole
  <1>3. \A o, name : IsAssignableRole(o, name) => One!IsAssignableRole(o, name)
    BY <1>1, <1>2 DEF One!IsAssignableRole, IsAssignableRole
  <1>4. One!Permission = Permission
    BY DEF One!Permission, Permission
  <1>5. One!ROLE_PERMISSIONS = ROLE_PERMISSIONS
    BY <1>1, <1>4 DEF One!ROLE_PERMISSIONS, ROLE_PERMISSIONS
  <1>6. \A u : One!Granted(u) = Granted(u)
    BY <1>1, <1>2, <1>4, <1>5 DEF One!Granted, Granted
  <1>7. \A u, permission, o : Requires(u, permission, o) => One!Requires(u, permission, o)
    BY <1>6 DEF One!Requires, Requires
  <1>8. \A r, new : One!RenamedTo(r, new) = RenamedTo(r, new)
    BY DEF One!RenamedTo, RenamedTo
  <1>9. \A actor, o, r, new : MayUpdate(actor, o, r, new) => One!MayUpdate(actor, o, r, new)
    BY <1>2, <1>7, <1>8 DEF One!MayUpdate, MayUpdate, One!RoleInOrg, RoleInOrg,
                            One!IsAdminRole, IsAdminRole
  <1>10. \A actor, o, r : MayDelete(actor, o, r) => One!MayDelete(actor, o, r)
    BY <1>2, <1>7 DEF One!MayDelete, MayDelete, One!RoleInOrg, RoleInOrg
  <1>11. /\ \A u, o : UserInOrg(u, o) => One!UserInOrg(u, o)
         /\ One!AdminExists => AdminExists
    BY DEF One!UserInOrg, UserInOrg, One!AdminExists, AdminExists
  <1>. QED  BY <1>1, <1>2, <1>3, <1>7, <1>8, <1>9, <1>10, <1>11

\* What is written is the same, but for the requests under way.
LEMMA SameWrites ==
    /\ \A o, u, role, pending : WriteUser(o, u, role, pending) => One!WriteUser(o, u, role, {})
    /\ \A r, name, permissions, pending :
          WriteRole(r, name, permissions, pending) => One!WriteRole(r, name, permissions, {})
    /\ \A r, pending : DeleteRow(r, pending) => One!DeleteRow(r, {})
    /\ \A o, u, pending : CreateFirst(o, u, pending) => One!CreateFirst(o, u, {})
    /\ \A o, old, new : One!Cascaded(o, old, new) = Cascaded(o, old, new)
  <1>1. \A edited : One!Overtaken({}, edited) = {}
    BY DEF One!Overtaken
  <1>2. ASSUME NEW o, NEW u, NEW role, NEW pending, WriteUser(o, u, role, pending)
        PROVE  One!WriteUser(o, u, role, {})
    BY <1>1, <1>2 DEF WriteUser, One!WriteUser, Insert, One!Insert, AdminExists, One!AdminExists
  <1>3. ASSUME NEW r, NEW name, NEW permissions, NEW pending,
               WriteRole(r, name, permissions, pending)
        PROVE  One!WriteRole(r, name, permissions, {})
    BY <1>1, <1>3 DEF WriteRole, One!WriteRole
  <1>4. ASSUME NEW r, NEW pending, DeleteRow(r, pending)
        PROVE  One!DeleteRow(r, {})
    <2>1. One!Overtaken({p \in {} : p.op \in {"update", "delete"} => p.id # r}, {}) = {}
      BY DEF One!Overtaken
    <2>. QED  BY <1>4, <2>1 DEF DeleteRow, One!DeleteRow
  <1>5. ASSUME NEW o, NEW u, NEW pending, CreateFirst(o, u, pending)
        PROVE  One!CreateFirst(o, u, {})
    <2>1. One!SeedSystemRoles(o) = SeedSystemRoles(o)
      <3>1. One!Permission = Permission
        BY DEF One!Permission, Permission
      <3>. QED  BY <3>1 DEF One!SeedSystemRoles, SeedSystemRoles
    <2>. QED  BY <1>1, <1>5, <2>1 DEF CreateFirst, One!CreateFirst, Insert, One!Insert
  <1>6. \A o, old, new : One!Cascaded(o, old, new) = Cascaded(o, old, new)
    BY SameRules DEF Cascaded, One!Cascaded
  <1>. QED  BY <1>2, <1>3, <1>4, <1>5, <1>6

\* A request is committed.
Commits(p) ==
    \/ p.op \in {"assign", "create"} /\ CommitAssign(p)
    \/ p.op = "update" /\ CommitUpdate(p)
    \/ p.op = "delete" /\ CommitDelete(p)
    \/ p.op = "setup" /\ CommitSetup(p)

LEMMA CommitAsOne ==
    ASSUME EntitledInv, NEW p \in deciding, Commits(p), ~p.stale
    PROVE  One!Next
  <1>. DEFINE o == p.organization
  <1>1. /\ o \in Organizations /\ Sound(p) /\ Entitled(p) /\ reopened \in BOOLEAN
    BY Fields DEF EntitledInv, IInv, Inv, TypeOK, AllEntitled
  <1>. USE DEF One!history
  <1>2. CASE p.op \in {"assign", "create"} /\ CommitAssign(p)
    <2>1. /\ WriteUser(o, p.user, p.role, deciding \ {p})
          /\ raced' = raced \ {p.user}
      BY <1>2 DEF CommitAssign, Racing
    <2>2. /\ p.user \in Users /\ p.role \in Names
          /\ IsAssignableRole(o, p.role)
      BY <1>1, <1>2, Fields DEF EntitledInv, IInv, Inv, Entitled
    <2>3. PICK actor \in Users : Requires(actor, "user:manage", o)
      BY <1>1, <1>2 DEF Entitled
    <2>4. p.user \notin DOMAIN users \/ UserInOrg(p.user, o)
      BY <1>1, <1>2 DEF CommitAssign, Sound
    <2>5. /\ One!Requires(actor, "user:manage", o) /\ One!IsAssignableRole(o, p.role)
          /\ One!WriteUser(o, p.user, p.role, {})
          /\ p.user \notin DOMAIN users \/ One!UserInOrg(p.user, o)
      BY <2>1, <2>2, <2>3, <2>4, SameRules, SameWrites
    <2>6. One!UserCreate(actor, o, p.user, p.role) \/ One!UserSetRole(actor, o, p.user, p.role)
      BY <2>1, <2>5 DEF One!UserCreate, One!UserSetRole
    <2>7. One!UserStep(actor, o)
      BY <2>2, <2>6 DEF One!UserStep
    <2>. QED  BY <1>1, <2>7 DEF One!Next
  <1>3. CASE p.op = "update" /\ CommitUpdate(p)
    <2>1. /\ p.id \in RoleId /\ p.permissions \in Submitted
          /\ ~p.edited /\ p.name = roles[p.id].name
      BY <1>1, <1>3, Fields DEF EntitledInv, IInv, Inv, Entitled
    <2>2. PICK actor \in Users, new \in Names :
             MayUpdate(actor, o, p.id, new) /\ p.new = RenamedTo(p.id, new)
      BY <1>1, <1>3 DEF Entitled
    <2>3. p.permissions \cup {} = p.permissions
      OBVIOUS
    <2>4. /\ users' = Cascaded(o, roles[p.id].name, p.new)
          /\ WriteRole(p.id, p.new, p.permissions, deciding \ {p})
          /\ raced' = raced
      BY <1>3, <2>1, <2>3 DEF CommitUpdate, Racing
    <2>5. One!RoleUpdateSubmit(actor, o, p.id, new, p.permissions)
      BY <2>2, <2>4, SameRules, SameWrites DEF One!RoleUpdateSubmit
    <2>6. One!RoleStep(actor, o)
      BY <2>1, <2>5, SameRules DEF One!RoleStep
    <2>. QED  BY <1>1, <2>6 DEF One!Next
  <1>4. CASE p.op = "delete" /\ CommitDelete(p)
    <2>1. p.id \in RoleId
      BY <1>4, Fields DEF EntitledInv, IInv, Inv
    <2>2. PICK actor \in Users : MayDelete(actor, o, p.id)
      BY <1>1, <1>4 DEF Entitled
    <2>3. DeleteRow(p.id, deciding \ {p}) /\ raced' = raced
      BY <1>4 DEF CommitDelete, Racing
    <2>4. One!RoleDelete(actor, o, p.id)
      BY <2>2, <2>3, SameRules, SameWrites DEF One!RoleDelete
    <2>5. One!RoleStep(actor, o)
      BY <2>1, <2>4, SameRules DEF One!RoleStep
    <2>. QED  BY <1>1, <2>5 DEF One!Next
  <1>5. CASE p.op = "setup" /\ CommitSetup(p)
    <2>1. p.user \in Users /\ ~AdminExists
      BY <1>1, <1>5, Fields DEF EntitledInv, IInv, Inv, Entitled
    <2>2. /\ CreateFirst(o, p.user, deciding \ {p})
          /\ raced' = raced /\ reopened' = reopened
      BY <1>1, <1>5 DEF CommitSetup, Racing
    <2>3. One!SetupSubmit(o, p.user)
      BY <2>1, <2>2, SameRules, SameWrites DEF One!SetupSubmit
    <2>. QED  BY <1>1, <2>1, <2>3 DEF One!Next
  <1>. QED  BY <1>2, <1>3, <1>4, <1>5 DEF Commits

LEMMA OneStepAsOne ==
    ASSUME NEW o \in Organizations,
           \/ \E u \in Users : SetupSubmit(o, u)
           \/ \E actor \in Users : UserStep(actor, o) \/ RoleStep(actor, o)
    PROVE  One!Next
  <1>. USE DEF One!history
  <1>1. ASSUME NEW u \in Users, SetupSubmit(o, u)
        PROVE  One!Next
    <2>1. One!SetupSubmit(o, u)
      BY <1>1, SameRules, SameWrites DEF SetupSubmit, One!SetupSubmit, history
    <2>. QED  BY <2>1 DEF One!Next
  <1>2. ASSUME NEW actor \in Users, UserStep(actor, o)
        PROVE  One!Next
    <2>1. PICK u \in Users, role \in Names :
             \/ CreateUser(actor, o, u, role) \/ UpdateUser(actor, o, u, role)
             \/ UserCreate(actor, o, u, role) \/ UserSetRole(actor, o, u, role)
      BY <1>2 DEF UserStep
    <2>2. \/ One!CreateUser(actor, o, u, role) \/ One!UpdateUser(actor, o, u, role)
          \/ One!UserCreate(actor, o, u, role) \/ One!UserSetRole(actor, o, u, role)
      BY <2>1, SameRules, SameWrites
      DEF CreateUser, UpdateUser, UserCreate, UserSetRole,
          One!CreateUser, One!UpdateUser, One!UserCreate, One!UserSetRole
    <2>3. One!UserStep(actor, o)
      BY <2>2 DEF One!UserStep
    <2>. QED  BY <2>3 DEF One!Next
  <1>3. ASSUME NEW actor \in Users, RoleStep(actor, o)
        PROVE  One!Next
    <2>1. PICK r \in RoleId :
             \/ RoleDelete(actor, o, r)
             \/ \E name \in Names, permissions \in Submitted :
                   \/ RoleCreate(actor, o, r, name, permissions)
                   \/ RoleUpdateSubmit(actor, o, r, name, permissions)
      BY <1>3 DEF RoleStep
    <2>2. RoleDelete(actor, o, r) => One!RoleDelete(actor, o, r)
      BY SameRules, SameWrites DEF RoleDelete, One!RoleDelete
    <2>3. ASSUME NEW name, NEW permissions, RoleCreate(actor, o, r, name, permissions)
          PROVE  One!RoleCreate(actor, o, r, name, permissions)
      <3>1. One!Overtaken({}, {}) = {}
        BY DEF One!Overtaken
      <3>. QED  BY <2>3, <3>1, SameRules DEF RoleCreate, One!RoleCreate, Insert, One!Insert, history
    <2>4. ASSUME NEW name, NEW permissions, RoleUpdateSubmit(actor, o, r, name, permissions)
          PROVE  One!RoleUpdateSubmit(actor, o, r, name, permissions)
      BY <2>4, SameRules, SameWrites DEF RoleUpdateSubmit, One!RoleUpdateSubmit
    <2>5. One!RoleStep(actor, o)
      BY <2>1, <2>2, <2>3, <2>4, SameRules DEF One!RoleStep
    <2>. QED  BY <2>5 DEF One!Next
  <1>. QED  BY <1>1, <1>2, <1>3

\* Nothing is written while a request is decided and not committed.
NoOverlap == \A p \in deciding : ~p.stale

LEMMA StepAsOne ==
    ASSUME EntitledInv, NoOverlap, [Next]_vars
    PROVE  [One!Next]_One!vars
  <1>. USE DEF One!vars, One!history
  <1>1. CASE UNCHANGED vars
    BY <1>1 DEF vars, history
  <1>2. ASSUME NEW u \in Users, Register(u)
        PROVE  One!Next
    <2>1. One!Register(u)
      BY <1>2 DEF Register, One!Register, Insert, One!Insert, history
    <2>. QED  BY <2>1 DEF One!Next
  <1>3. CASE OtherProcess
    <2>1. ASSUME NEW p \in deciding, Commits(p)
          PROVE  One!Next
      BY <2>1, CommitAsOne DEF NoOverlap
    <2>2. ASSUME NEW p \in deciding, Abandon(p)
          PROVE  UNCHANGED One!vars
      BY <2>2 DEF Abandon, history
    <2>3. ASSUME NEW request \in Requests, NEW o \in Organizations,
                 \/ \E u \in Users : BeginSetup(request, o, u)
                 \/ \E actor, u \in Users, role \in Names : BeginAssign(request, actor, o, u, role)
                 \/ \E actor \in Users, r \in RoleId :
                       \/ BeginDelete(request, actor, o, r)
                       \/ \E name \in Names, permissions \in Submitted :
                             BeginUpdate(request, actor, o, r, name, permissions)
          PROVE  UNCHANGED One!vars
      BY <2>3 DEF BeginSetup, BeginAssign, BeginDelete, BeginUpdate, Begin, history
    <2>. QED  BY <1>3, <2>1, <2>2, <2>3 DEF OtherProcess, Commits
  <1>4. CASE Next
    BY <1>2, <1>3, <1>4, Steps, OneStepAsOne
  <1>. QED  BY <1>1, <1>4

\* The commit of a request that no other write has overtaken does what a handler
\* in one process could do at that moment: the right it takes is still somebody's
\* in the organization, and everything the handler has checked still holds.  A
\* registration meanwhile, which marks no request, does no harm.
THEOREM UndisturbedActsAtOnce ==
    Spec => [][\A p \in deciding : Commits(p) /\ ~p.stale => One!Next]_vars
  <1>1. EntitledInv /\ [Next]_vars
           => [\A p \in deciding : Commits(p) /\ ~p.stale => One!Next]_vars
    BY CommitAsOne
  <1>. QED  BY <1>1, EntitledInvariant, PTL DEF Spec

\* As long as no request under way is overtaken by a write, several processes
\* administer users and roles as one process does.
THEOREM UndisturbedAsOne == Spec /\ []NoOverlap => One!Spec
  <1>1. Init => One!Init
    BY DEF Init, One!Init
  <1>2. EntitledInv /\ NoOverlap /\ [Next]_vars => [One!Next]_One!vars
    BY StepAsOne
  <1>. QED  BY <1>1, <1>2, EntitledInvariant, PTL DEF Spec, One!Spec

=============================================================================
