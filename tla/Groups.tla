------------------------------- MODULE Groups -------------------------------
(***************************************************************************)
(* One group: its members and their roles, an invite code with a limited   *)
(* number of uses, direct invitations, archival.                           *)
(* A request passes a guard in front of its handler, reads again inside    *)
(* its transaction and then writes; the database runs transactions at READ *)
(* COMMITTED, so others may commit between any two of these steps, and     *)
(* only unique indexes and the keys of the written rows arbitrate.         *)
(***************************************************************************)
EXTENDS Integers, FiniteSets

CONSTANTS
    Users,
    Creator,      \* the user who created the group
    Requests,     \* requests in flight
    None,
    MaxUses       \* maxUses of the invite code

ASSUME GroupsAssumption ==
    /\ Creator \in Users /\ IsFiniteSet(Users)
    /\ IsFiniteSet(Requests) /\ Requests # {}
    /\ None \notin Users \cup {"member", "admin"}
    /\ MaxUses \in Nat

VARIABLES
    role,         \* user -> role of the GroupMember row, None without one
    archived,
    code,         \* the invite code: "none", "open", or "lapsed" past expiresAt
    uses,         \* its use counter
    joins,        \* how many members it let in
    invited,      \* users with a PENDING invitation
    req           \* request -> its handler's progress and what it has read

groupVars == <<role, archived, code, uses, joins, invited>>
vars == <<groupVars, req>>

Roles == {"member", "admin"}
Members == {u \in Users : role[u] # None}
Admins == {u \in Users : role[u] = "admin"}

\* Routes for admins of a live group, and the other ones.
LiveAdminOps == {"setRole", "patchRole", "remove", "mint", "invite"}
Ops == LiveAdminOps \cup {"archive", "leave", "join"}

Idle == [at |-> "idle", op |-> None, by |-> None, on |-> None, to |-> None,
         live |-> FALSE, saw |-> [u \in Users |-> None]]

Init ==
    /\ role = [u \in Users |-> IF u = Creator THEN "admin" ELSE None]
    /\ archived = FALSE
    /\ code = "none" /\ uses = 0 /\ joins = 0
    /\ invited = {}
    /\ req = [r \in Requests |-> Idle]

End(r) == req' = [req EXCEPT ![r] = Idle]

(***************************************************************************)
(* The guard in front of the handler.                                      *)
(***************************************************************************)
\* requireGroupMember and requireGroupAdmin, with or without active: true.
RequireGroupRole(op, by) ==
    CASE op = "leave"        -> role[by] # None
      [] op = "archive"      -> role[by] = "admin"
      [] op \in LiveAdminOps -> role[by] = "admin" /\ ~archived

Guard(r, op, by, on, to) ==
    /\ req[r].at = "idle"
    /\ on = None <=> op \notin {"setRole", "patchRole", "remove", "invite"}
    /\ to = None <=> op \notin {"setRole", "patchRole"}
    /\ RequireGroupRole(op, by)
    /\ op = "remove" => on # by
    /\ req' = [req EXCEPT ![r] =
                 [Idle EXCEPT !.at = "guarded", !.op = op, !.by = by, !.on = on, !.to = to,
                              !.live = ~archived]]
    /\ UNCHANGED groupVars

(***************************************************************************)
(* The reads inside the transaction.                                       *)
(***************************************************************************)
\* What requireAdmin or requireMembership says of the caller now; the archived
\* flag is not read again.
StillAllowed(q) ==
    IF q.op = "leave" THEN role[q.by] # None ELSE role[q.by] = "admin"

(* mutant: the last-admin rule is left to the database *)
RefusedUncounted(q) ==
    CASE q.op \in {"setRole", "patchRole", "remove"} -> role[q.on] = None
      [] q.op = "invite" -> q.on \in Members \cup invited
      [] OTHER           -> FALSE

\* The refusals of each handler once the caller is allowed.
Refused(q) ==
    CASE q.op = "setRole"   -> \/ role[q.on] = None
                               \/ /\ role[q.on] = "admin" /\ q.to # "admin"
                                  /\ Cardinality(Admins) <= 1
      [] q.op = "patchRole" -> role[q.on] = None
      [] q.op = "remove"    -> \/ role[q.on] = None
                               \/ role[q.on] = "admin" /\ Cardinality(Admins) <= 1
      [] q.op = "leave"     -> /\ role[q.by] = "admin"
                               /\ Cardinality(Admins) = 1 /\ Cardinality(Members) > 1
      [] q.op = "invite"    -> q.on \in Members \cup invited
      [] OTHER              -> FALSE

\* Nothing to change: the role is the one asked for.
Unchanged(q) == q.op = "setRole" /\ role[q.on] = q.to

Check(r) ==
    /\ req[r].at = "guarded"
    /\ IF StillAllowed(req[r]) /\ ~Refused(req[r]) /\ ~Unchanged(req[r])
         THEN req' = [req EXCEPT ![r].at = "checked", ![r].saw = role]
         ELSE End(r)
    /\ UNCHANGED groupVars

(***************************************************************************)
(* The writes.  A row that is gone fails the update or the delete.         *)
(***************************************************************************)
Checked(r, op) == req[r].at = "checked" /\ req[r].op = op /\ End(r)

\* POST /groups/:id/members/role and its alias PATCH /groups/:id/members/:memberId.
ChangeRole(r) ==
    /\ Checked(r, "setRole") \/ Checked(r, "patchRole")
    /\ role' = IF role[req[r].on] = None THEN role
                                         ELSE [role EXCEPT ![req[r].on] = req[r].to]
    /\ UNCHANGED <<archived, code, uses, joins, invited>>

Depart(u) ==
    /\ role' = [role EXCEPT ![u] = None]
    /\ UNCHANGED <<archived, code, uses, joins, invited>>

Leave(r) == Checked(r, "leave") /\ Depart(req[r].by)

RemoveGroupMember(r) == Checked(r, "remove") /\ Depart(req[r].on)

MintInvite(r) ==
    /\ Checked(r, "mint")
    /\ code' = IF code = "none" THEN "open" ELSE code   \* bound: one code
    /\ UNCHANGED <<role, archived, uses, joins, invited>>

Invite(r) ==
    /\ Checked(r, "invite")
    /\ invited' = invited \cup {req[r].on}   \* the unique index refuses a second
    /\ UNCHANGED <<role, archived, code, uses, joins>>

Archive(r) ==
    /\ Checked(r, "archive")
    /\ archived' = TRUE
    /\ UNCHANGED <<role, code, uses, joins, invited>>

(***************************************************************************)
(* Joining: every check is made before the transaction.                    *)
(***************************************************************************)
ReadInvite(r, u) ==
    /\ req[r].at = "idle"
    /\ code = "open" /\ uses < MaxUses
    /\ role[u] = None
    /\ req' = [req EXCEPT ![r] =
                 [Idle EXCEPT !.at = "joining", !.op = "join", !.by = u]]
    /\ UNCHANGED groupVars

\* The member row and the increment are one transaction; a second row for the
\* user violates the unique index and takes the increment back with it.
Join(r) ==
    /\ req[r].at = "joining"
    /\ IF role[req[r].by] # None
         THEN UNCHANGED <<role, uses, joins>>
         ELSE /\ role' = [role EXCEPT ![req[r].by] = "member"]
              /\ uses' = uses + 1
              /\ joins' = joins + 1
    /\ End(r)
    /\ UNCHANGED <<archived, code, invited>>

InviteLapses ==
    /\ code = "open"
    /\ code' = "lapsed"
    /\ UNCHANGED <<role, archived, uses, joins, invited, req>>

Step(r) ==
    \/ Check(r)
    \/ ChangeRole(r)
    \/ Leave(r)
    \/ RemoveGroupMember(r)
    \/ MintInvite(r)
    \/ Invite(r)
    \/ Archive(r)
    \/ Join(r)

Next ==
    \/ \E r \in Requests :
         \/ \E op \in Ops \ {"join"}, by \in Users,
               on \in Users \cup {None}, to \in Roles \cup {None} : Guard(r, op, by, on, to)
         \/ \E u \in Users : ReadInvite(r, u)
         \/ Step(r)
    \/ InviteLapses

Spec == Init /\ [][Next]_vars

-----------------------------------------------------------------------------
\* The columns of a group, its members and its invite code keep their types, and a
\* handler in flight holds what its guard and its checks read (routes/groups.ts).
TypeOK ==
    /\ role \in [Users -> Roles \cup {None}]
    /\ archived \in BOOLEAN
    /\ code \in {"none", "open", "lapsed"}
    /\ uses \in Nat /\ joins \in Nat
    /\ invited \subseteq Users
    /\ req \in [Requests -> [at : {"idle", "guarded", "checked", "joining"},
                             op : Ops \cup {None}, by : Users \cup {None},
                             on : Users \cup {None}, to : Roles \cup {None},
                             live : BOOLEAN, saw : [Users -> Roles \cup {None}]]]

\* The use counter of an invite code is the number of members it let in, however
\* joins overlap (the increment of POST /groups/join).
UsesCountJoins == uses = joins

\* The use limit is checked before the transaction and enforced by nothing else:
\* a code may let in more members, by fewer than requests were in flight at once.
LimitHoldsUpToRaces == joins < MaxUses + Cardinality(Requests)

\* A group that keeps members loses its last admin in two ways only: by the PATCH
\* alias, which counts no admins, or by a handler whose count is no longer true.
LastAdminNeedsRace ==
    [][Admins # {} /\ Admins' = {} /\ Members' # {}
         => \E r \in Requests : /\ req[r].at = "checked"
                                /\ req'[r].at = "idle"
                                /\ req[r].op = "patchRole" \/ req[r].saw # role]_vars

\* Archival closes a group: afterwards only joins, departures and the requests
\* whose guard had seen it live change its members and invitations.
ArchivedIsClosed ==
    [][archived /\ <<role, code, invited>>' # <<role, code, invited>>
         => \/ InviteLapses
            \/ \E r \in Requests : /\ req[r].at \in {"checked", "joining"}
                                   /\ req'[r].at = "idle"
                                   /\ req[r].op \in {"join", "leave"} \/ req[r].live]_vars
=============================================================================
