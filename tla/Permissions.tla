---------------------------- MODULE Permissions ----------------------------
(***************************************************************************)
(* app/core/permissions.py: the permissions and what the built-in roles    *)
(* are granted.  The table of the code lists every grant; here a role is   *)
(* described by what it has more, or less, than another.                   *)
(***************************************************************************)

Permission ==
    {"event:create", "event:read", "event:update", "event:delete", "event:change_status",
     "event:approve_closure", "event:reopen", "event:comment",
     "capa:create", "capa:read", "capa:update", "capa:verify", "capa:reopen", "capa:cancel",
     "document:create", "document:read", "document:update", "document:review",
     "document:approve", "document:obsolete", "document:delete",
     "alert:create", "alert:read", "alert:acknowledge", "alert:close",
     "audit:create", "audit:read", "audit:update", "audit:conduct", "audit:close",
     "audit:delete",
     "training:create", "training:read", "training:update", "training:certify",
     "training:delete",
     "change:create", "change:read", "change:update", "change:assess", "change:approve",
     "change:delete",
     "user:manage", "settings:manage", "dashboard:view", "audit_log:view"}

Role == {"Admin", "QualityManager", "Investigator", "Approver", "Viewer"}

LOCAL Viewing ==
    {"event:read", "capa:read", "document:read", "alert:read", "audit:read",
     "training:read", "change:read", "dashboard:view", "audit_log:view"}

ROLE_PERMISSIONS ==
    [role \in Role |->
        CASE role = "Admin"           -> Permission
          [] role = "QualityManager"  -> Permission \ {"user:manage", "settings:manage"}
          [] role = "Investigator"    -> Viewing \cup
                {"event:create", "event:update", "event:change_status", "event:comment",
                 "capa:create", "capa:update", "document:create", "document:update",
                 "alert:create", "alert:acknowledge",
                 "audit:create", "audit:update", "audit:conduct",
                 "training:create", "training:update", "training:certify",
                 "change:create", "change:update", "change:assess"}
          [] role = "Approver"        -> Viewing \cup
                {"event:change_status", "event:approve_closure", "event:comment",
                 "capa:verify", "document:review", "document:approve", "document:obsolete",
                 "alert:acknowledge", "audit:close", "training:certify", "change:approve"}
          [] role = "Viewer"          -> Viewing]

============================================================================
