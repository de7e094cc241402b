------------------------------- MODULE Authz -------------------------------
(***************************************************************************)
(* The role x resource x action matrix of internal/pkg/authz/table.go.     *)
(* After New the matrix is only read, so it is a constant operator here.   *)
(***************************************************************************)

readOnly      == {"read"}
crudActions   == {"read", "create", "update", "delete"}
tenantActions == crudActions \cup {"suspend"}
ticketActions == {"read", "create", "update"}

Resource == {"tenant", "support_ticket", "super_admin", "audit_log", "metrics", "settings"}
Action   == tenantActions

Owner == [tenant |-> tenantActions, support_ticket |-> crudActions,
          super_admin |-> crudActions, audit_log |-> readOnly,
          metrics |-> readOnly, settings |-> crudActions]

defaultPolicy ==
  [owner   |-> Owner,
   admin   |-> [Owner EXCEPT !.super_admin = readOnly],
   support |-> [tenant |-> readOnly, support_ticket |-> ticketActions, super_admin |-> {},
                audit_log |-> {}, metrics |-> readOnly, settings |-> readOnly],
   viewer  |-> [tenant |-> readOnly, support_ticket |-> readOnly, super_admin |-> {},
                audit_log |-> readOnly, metrics |-> readOnly, settings |-> readOnly]]

\* Table.Can: a role or a resource the matrix does not list grants nothing.
Can(role, resource, action) == action \in defaultPolicy[role][resource]
===========================================================================
