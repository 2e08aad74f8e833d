---------------------------- MODULE AccessControl ---------------------------
(***************************************************************************)
(* Roles and the contract state of sac-factory (access_control.rs and      *)
(* state_management.rs).  Every operation is one transaction signed by the *)
(* account it names (require_auth), so an action takes its signer as       *)
(* parameter.  start_migration and deprecate have no entry point in        *)
(* lib.rs: the states Migrating and Deprecated are never stored.           *)
(***************************************************************************)
EXTENDS Naturals, FiniteSets

CONSTANTS Account,      \* accounts that may sign, be granted roles and own
          FirstOwners,  \* bound: the accounts that may call initialize
          NewOwners,    \* bound: the accounts ownership is handed to
          GrantableRole \* bound: the roles the owners grant and revoke

Role == {"Owner", "PauseAdmin", "TreasuryAdmin", "FeeAdmin", "EmergencyPauser"}

ASSUME AccessAssumption ==
  /\ FirstOwners \subseteq Account
  /\ NewOwners \subseteq Account
  /\ GrantableRole \subseteq Role

VARIABLES roles,          \* AccessControlKey::Role(account, role) |-> true, per account
          contractState   \* StateKey::State

accessVars == <<roles, contractState>>

HasRole(a, r) == r \in roles[a]
HasAnyRole(a, rs) == roles[a] \cap rs # {}

AccessInit ==
  /\ roles = [a \in Account |-> {}]
  /\ contractState = "Uninitialized"

(* The part of initialize that concerns access; it can run once.           *)
InitializeAccess(owner) ==
  /\ contractState = "Uninitialized"
  /\ roles' = [roles EXCEPT ![owner] = @ \cup {"Owner"}]
  /\ contractState' = "Active"

GrantRole(granter, account, role) ==
  /\ HasRole(granter, "Owner")
  /\ roles' = [roles EXCEPT ![account] = @ \cup {role}]
  /\ UNCHANGED contractState

(* An owner cannot revoke the ownership it holds itself.                   *)
MayRevoke_AnyRole(revoker, account, role) == HasRole(revoker, "Owner")
MayRevoke(revoker, account, role) ==
  HasRole(revoker, "Owner") /\ ~ (role = "Owner" /\ account = revoker)

RevokeRole(revoker, account, role) ==
  /\ MayRevoke(revoker, account, role)
  /\ roles' = [roles EXCEPT ![account] = @ \ {role}]
  /\ UNCHANGED contractState

(* The old entry is removed before the new one is written: handing the     *)
(* ownership to oneself keeps it.                                          *)
HandOver(rs, from, to) ==
  [[rs EXCEPT ![from] = @ \ {"Owner"}] EXCEPT ![to] = @ \cup {"Owner"}]

TransferOwnership(from, to) ==
  /\ HasRole(from, "Owner")
  /\ roles' = HandOver(roles, from, to)
  /\ UNCHANGED contractState

Pause(admin) ==
  /\ HasAnyRole(admin, {"PauseAdmin", "EmergencyPauser", "Owner"})
  /\ contractState # "Paused"
  /\ contractState' = "Paused"
  /\ UNCHANGED roles

MayUnpause(admin) == HasAnyRole(admin, {"PauseAdmin", "Owner"})

Unpause(admin) ==
  /\ MayUnpause(admin)
  /\ contractState = "Paused"
  /\ contractState' = "Active"
  /\ UNCHANGED roles

RoleStep ==
  \/ \E a, b \in Account, r \in GrantableRole : GrantRole(a, b, r) \/ RevokeRole(a, b, r)
  \/ \E a \in Account, b \in NewOwners : TransferOwnership(a, b)
PauseStep == \E a \in Account : Pause(a) \/ Unpause(a)

AccessNext == RoleStep \/ PauseStep \/ \E a \in FirstOwners : InitializeAccess(a)

AccessSpec == AccessInit /\ [][AccessNext]_accessVars

-----------------------------------------------------------------------------
AccessTypeOK ==
  /\ roles \in [Account -> SUBSET Role]
  /\ contractState \in {"Uninitialized", "Active", "Paused"}

Owners == {a \in Account : HasRole(a, "Owner")}

(* From initialization on somebody is the owner, through every order of    *)
(* grants, revocations and transfers by any of the owners: no sequence of  *)
(* calls leaves the contract without the account that can unpause, upgrade *)
(* and configure it (the safety check of access_control.rs:75-77).         *)
OwnerNeverLost == contractState # "Uninitialized" => Owners # {}
=============================================================================
