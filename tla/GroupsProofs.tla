---------------------------- MODULE GroupsProofs ----------------------------
(***************************************************************************)
(* Proofs about groups and the books they keep.                            *)
(*                                                                         *)
(* Groups: the use limit needs the requests that have passed its check and *)
(* not joined yet; the two action properties need what a handler knew when *)
(* it passed its checks.                                                   *)
(*                                                                         *)
(* Ledger: the books are typed by what each request read when it passed    *)
(* its checks (LedgerInv).  That money is conserved and that the suggested *)
(* transfers settle follow from the invariant by lemmas about sums, about  *)
(* exact division and about the loop that pairs debtors with creditors,    *)
(* each an induction over a finite set or over the turns of the loop.      *)
(***************************************************************************)
EXTENDS Groups, Ledger, FiniteSetTheorems, WellFoundedInduction, TLAPS

Joining == {r \in Requests : req[r].at = "joining"}

\* Members let in and members about to be, against the limit.
LimitInv == uses + Cardinality(Joining) =< MaxUses - 1 + Cardinality(Requests)

AdminsIn(m) == {u \in Users : m[u] = "admin"}
MembersIn(m) == {u \in Users : m[u] # None}

\* What the checks of a handler said of the members it saw.
SawAnotherAdmin(q) ==
    CASE q.op = "setRole" -> /\ q.on \in Users /\ q.to \in Roles
                             /\ q.saw[q.on] = "admin" /\ q.to # "admin"
                                  => Cardinality(AdminsIn(q.saw)) > 1
      [] q.op = "remove"  -> /\ q.on \in Users
                             /\ q.saw[q.on] = "admin" => Cardinality(AdminsIn(q.saw)) > 1
      [] q.op = "leave"   -> /\ q.by \in Users
                             /\ q.saw[q.by] = "admin"
                                  => \/ Cardinality(AdminsIn(q.saw)) # 1
                                     \/ Cardinality(MembersIn(q.saw)) =< 1
      [] OTHER            -> TRUE

\* A request holds a caller and what its route needs, and a route for a live group
\* has seen it live.
Sane(q) ==
    /\ q.at # "idle" => q.by \in Users
    /\ q.at = "joining" => q.op = "join"
    /\ q.at \in {"guarded", "checked"} => q.op \in Ops \ {"join"}
    /\ q.at # "idle" /\ q.op \in {"setRole", "patchRole", "remove", "invite"} => q.on \in Users
    /\ q.at # "idle" /\ q.op \in {"setRole", "patchRole"} => q.to \in Roles
    /\ q.at # "idle" /\ q.op \in LiveAdminOps => q.live

HandlersInv ==
    \A r \in Requests : /\ Sane(req[r])
                        /\ req[r].at = "checked" => SawAnotherAdmin(req[r])

GroupInv == TypeOK /\ UsesCountJoins /\ LimitInv /\ HandlersInv

-----------------------------------------------------------------------------
(* A handler at work on a request: which steps of the specification they   *)
(* are, one disjunct each.                                                 *)
LEMMA NextSteps ==
    ASSUME Next
    PROVE \/ \E r \in Requests :
               \/ \E op \in Ops \ {"join"}, by \in Users,
                     on \in Users \cup {None}, to \in Roles \cup {None} :
                        Guard(r, op, by, on, to)
               \/ \E u \in Users : ReadInvite(r, u)
               \/ Check(r) \/ ChangeRole(r) \/ Leave(r) \/ RemoveGroupMember(r)
               \/ MintInvite(r) \/ Invite(r) \/ Archive(r) \/ Join(r)
          \/ InviteLapses
    BY DEF Next, Step

LEMMA IdleType ==
    /\ Idle \in [at : {"idle", "guarded", "checked", "joining"},
                 op : Ops \cup {None}, by : Users \cup {None},
                 on : Users \cup {None}, to : Roles \cup {None},
                 live : BOOLEAN, saw : [Users -> Roles \cup {None}]]
    /\ Idle.at = "idle"
    BY DEF Idle

LEMMA InitGroup == Init => GroupInv
<1> SUFFICES ASSUME Init PROVE GroupInv
    OBVIOUS
<1>1. TypeOK
    BY GroupsAssumption, IdleType DEF Init, TypeOK, Roles
<1>2. UsesCountJoins
    BY DEF Init, UsesCountJoins
<1>3. LimitInv
  <2>1. Joining = {}
    BY IdleType DEF Init, Joining
  <2>2. Cardinality(Requests) \in Nat /\ Cardinality(Requests) # 0
    BY GroupsAssumption, FS_CardinalityType, FS_EmptySet
  <2> QED
    BY <2>1, <2>2, FS_EmptySet, GroupsAssumption DEF Init, LimitInv
<1>4. HandlersInv
    BY IdleType DEF Init, HandlersInv, Sane
<1> QED
    BY <1>1, <1>2, <1>3, <1>4 DEF GroupInv

-----------------------------------------------------------------------------
LEMMA TypeStep == TypeOK /\ HandlersInv /\ Next => TypeOK'
<1> SUFFICES ASSUME TypeOK, HandlersInv, Next PROVE TypeOK'
    OBVIOUS
<1> USE IdleType, GroupsAssumption DEF TypeOK, groupVars, End
<1>1. ASSUME NEW r \in Requests, NEW op \in Ops \ {"join"}, NEW by \in Users,
             NEW on \in Users \cup {None}, NEW to \in Roles \cup {None},
             Guard(r, op, by, on, to)
      PROVE TypeOK'
    BY <1>1 DEF Guard
<1>2. ASSUME NEW r \in Requests, NEW u \in Users, ReadInvite(r, u)
      PROVE TypeOK'
  <2>1. [Idle EXCEPT !.at = "joining", !.op = "join", !.by = u] \in
          [at : {"idle", "guarded", "checked", "joining"},
           op : Ops \cup {None}, by : Users \cup {None},
           on : Users \cup {None}, to : Roles \cup {None},
           live : BOOLEAN, saw : [Users -> Roles \cup {None}]]
    BY DEF Ops
  <2> QED
    BY <1>2, <2>1 DEF ReadInvite
<1>3. ASSUME NEW r \in Requests, Check(r) PROVE TypeOK'
  <2>1. UNCHANGED groupVars
    BY <1>3 DEF Check
  <2>2. CASE End(r)
    BY <2>1, <2>2
  <2>3. CASE ~ End(r)
    <3>1. req' = [req EXCEPT ![r].at = "checked", ![r].saw = role]
      BY <1>3, <2>3 DEF Check
    <3>2. [req[r] EXCEPT !.at = "checked", !.saw = role] \in
            [at : {"idle", "guarded", "checked", "joining"},
             op : Ops \cup {None}, by : Users \cup {None},
             on : Users \cup {None}, to : Roles \cup {None},
             live : BOOLEAN, saw : [Users -> Roles \cup {None}]]
      OBVIOUS
    <3>3. req' = [req EXCEPT ![r] = [req[r] EXCEPT !.at = "checked", !.saw = role]]
      BY <3>1
    <3> QED
      BY <2>1, <3>2, <3>3
  <2> QED
    BY <2>2, <2>3
<1>4. ASSUME NEW r \in Requests, ChangeRole(r) PROVE TypeOK'
  <2>1. End(r)
    BY <1>4 DEF ChangeRole, Checked
  <2>2. req[r].on \in Users \cup {None} /\ req[r].to \in Roles \cup {None}
    OBVIOUS
  <2>3. role' \in [Users -> Roles \cup {None}]
    BY <1>4, <2>2 DEF ChangeRole
  <2>4. UNCHANGED <<archived, code, uses, joins, invited>>
    BY <1>4 DEF ChangeRole
  <2> QED
    BY <2>1, <2>3, <2>4
<1>5. ASSUME NEW r \in Requests, Leave(r) \/ RemoveGroupMember(r) PROVE TypeOK'
  <2>1. End(r)
    BY <1>5 DEF Leave, RemoveGroupMember, Checked
  <2>2. PICK u : Depart(u)
    BY <1>5 DEF Leave, RemoveGroupMember
  <2>3. role' \in [Users -> Roles \cup {None}]
    BY <2>2 DEF Depart
  <2> QED
    BY <2>1, <2>2, <2>3 DEF Depart
<1>6. ASSUME NEW r \in Requests, MintInvite(r) \/ Archive(r) PROVE TypeOK'
  <2>1. End(r)
    BY <1>6 DEF MintInvite, Archive, Checked
  <2>2. /\ code' \in {"none", "open", "lapsed"} /\ archived' \in BOOLEAN
        /\ UNCHANGED <<role, uses, joins, invited>>
    BY <1>6 DEF MintInvite, Archive
  <2> QED
    BY <2>1, <2>2
<1>7. ASSUME NEW r \in Requests, Invite(r) PROVE TypeOK'
    BY <1>7 DEF Invite, Checked, HandlersInv, Sane
<1>8. ASSUME NEW r \in Requests, Join(r) PROVE TypeOK'
    BY <1>8 DEF Join, Roles
<1>9. CASE InviteLapses
    BY <1>9 DEF InviteLapses
<1> QED
    BY <1>1, <1>2, <1>3, <1>4, <1>5, <1>6, <1>7, <1>8, <1>9, NextSteps

-----------------------------------------------------------------------------
(* The requests about to join, and their number, after a step. *)
LEMMA JoiningFinite ==
    /\ IsFiniteSet(Joining) /\ Cardinality(Joining) \in Nat
    /\ IsFiniteSet(Joining') /\ Cardinality(Joining)' \in Nat
    /\ Cardinality(Joining)' =< Cardinality(Requests)
    /\ Cardinality(Requests) \in Nat
<1>1. Joining \subseteq Requests /\ Joining' \subseteq Requests
    BY DEF Joining
<1> QED
    BY <1>1, FS_Subset, FS_CardinalityType, GroupsAssumption

(* Every handler but a join leaves the counter alone, and the set of       *)
(* requests about to join.                                                 *)
LEMMA OtherSteps ==
    ASSUME TypeOK, NEW r \in Requests,
           \/ \E op \in Ops \ {"join"}, by \in Users,
                 on \in Users \cup {None}, to \in Roles \cup {None} : Guard(r, op, by, on, to)
           \/ Check(r) \/ ChangeRole(r) \/ Leave(r) \/ RemoveGroupMember(r)
           \/ MintInvite(r) \/ Invite(r) \/ Archive(r)
    PROVE UNCHANGED <<uses, joins>> /\ Joining' = Joining
<1>1. /\ UNCHANGED <<uses, joins>>
      /\ \A s \in Requests \ {r} : req'[s] = req[s]
      /\ req[r].at # "joining" /\ req'[r].at # "joining"
  <2>1. ASSUME NEW op \in Ops \ {"join"}, NEW by \in Users, NEW on \in Users \cup {None},
               NEW to \in Roles \cup {None}, Guard(r, op, by, on, to)
        PROVE /\ UNCHANGED <<uses, joins>>
              /\ \A s \in Requests \ {r} : req'[s] = req[s]
              /\ req[r].at # "joining" /\ req'[r].at # "joining"
    BY <2>1, IdleType DEF Guard, groupVars, TypeOK
  <2>2. CASE Check(r)
    BY <2>2, IdleType DEF Check, End, groupVars, TypeOK
  <2>3. CASE \/ ChangeRole(r) \/ Leave(r) \/ RemoveGroupMember(r)
             \/ MintInvite(r) \/ Invite(r) \/ Archive(r)
    <3>1. req[r].at = "checked" /\ End(r) /\ UNCHANGED <<uses, joins>>
      BY <2>3 DEF ChangeRole, Leave, RemoveGroupMember, Depart, MintInvite, Invite, Archive,
         Checked
    <3> QED
      BY <3>1, IdleType DEF End, TypeOK
  <2> QED
    BY <2>1, <2>2, <2>3
<1> QED
    BY <1>1 DEF Joining

LEMMA LimitStep == TypeOK /\ UsesCountJoins /\ LimitInv /\ Next
                      => UsesCountJoins' /\ LimitInv'
<1> SUFFICES ASSUME TypeOK, UsesCountJoins, LimitInv, Next
             PROVE UsesCountJoins' /\ LimitInv'
    OBVIOUS
<1> USE DEF UsesCountJoins, LimitInv
<1>1. ASSUME NEW r \in Requests, NEW u \in Users, ReadInvite(r, u)
      PROVE UsesCountJoins' /\ LimitInv'
  <2>1. uses' = uses /\ joins' = joins /\ uses < MaxUses
    BY <1>1 DEF ReadInvite, groupVars
  <2> QED
    BY <2>1, JoiningFinite, GroupsAssumption DEF TypeOK
<1>2. ASSUME NEW r \in Requests, Join(r)
      PROVE UsesCountJoins' /\ LimitInv'
  <2>1. r \in Joining
    BY <1>2 DEF Join, Joining
  <2>2. Joining' = Joining \ {r}
    BY <1>2, IdleType DEF Join, Joining, End, TypeOK
  <2>3. Cardinality(Joining)' = Cardinality(Joining) - 1
    BY <2>1, <2>2, JoiningFinite, FS_RemoveElement
  <2>4. uses' =< uses + 1 /\ uses' \in Nat
    BY <1>2 DEF Join, TypeOK
  <2>5. uses \in Nat /\ joins \in Nat /\ MaxUses \in Nat
    BY GroupsAssumption DEF TypeOK
  <2>6. UsesCountJoins'
    BY <1>2 DEF Join
  <2>7. LimitInv'
    BY <2>3, <2>4, <2>5, JoiningFinite
  <2> QED
    BY <2>6, <2>7
<1>3. CASE InviteLapses
  <2>1. UNCHANGED <<uses, joins>> /\ Joining' = Joining
    BY <1>3 DEF InviteLapses, Joining
  <2> QED
    BY <2>1
<1> QED
    BY <1>1, <1>2, <1>3, NextSteps, OtherSteps

-----------------------------------------------------------------------------
(* What a handler knows survives the steps of the others, which leave its  *)
(* record alone; its own checks establish it.                              *)
LEMMA HandlersKept ==
    ASSUME HandlersInv, NEW r \in Requests, \A s \in Requests \ {r} : req'[s] = req[s],
           Sane(req'[r]), req'[r].at = "checked" => SawAnotherAdmin(req'[r])
    PROVE HandlersInv'
<1> SUFFICES ASSUME NEW s \in Requests
             PROVE /\ Sane(req'[s])
                   /\ req'[s].at = "checked" => SawAnotherAdmin(req'[s])
    BY DEF HandlersInv, Sane, SawAnotherAdmin, AdminsIn, MembersIn
<1>1. CASE s = r
    BY <1>1
<1>2. CASE s # r
    BY <1>2 DEF HandlersInv
<1> QED
    BY <1>1, <1>2

LEMMA HandlersStep == TypeOK /\ HandlersInv /\ Next => HandlersInv'
<1> SUFFICES ASSUME TypeOK, HandlersInv, Next PROVE HandlersInv'
    OBVIOUS
<1> USE IdleType, GroupsAssumption
<1>1. ASSUME NEW r \in Requests, NEW op \in Ops \ {"join"}, NEW by \in Users,
             NEW on \in Users \cup {None}, NEW to \in Roles \cup {None},
             Guard(r, op, by, on, to)
      PROVE HandlersInv'
  <2>1. /\ req'[r] = [Idle EXCEPT !.at = "guarded", !.op = op, !.by = by, !.on = on,
                                  !.to = to, !.live = ~archived]
        /\ \A s \in Requests \ {r} : req'[s] = req[s]
    BY <1>1 DEF Guard, TypeOK
  <2>2. op \in LiveAdminOps => ~archived
    BY <1>1 DEF Guard, RequireGroupRole, LiveAdminOps
  <2>3. /\ op \in {"setRole", "patchRole", "remove", "invite"} => on \in Users
        /\ op \in {"setRole", "patchRole"} => to \in Roles
    BY <1>1 DEF Guard
  <2>4. /\ req'[r].at = "guarded" /\ req'[r].op = op /\ req'[r].by = by
        /\ req'[r].on = on /\ req'[r].to = to /\ req'[r].live = ~archived
    BY <2>1 DEF Idle
  <2>5. Sane(req'[r])
    BY <2>2, <2>3, <2>4 DEF Sane
  <2> QED
    BY <2>1, <2>4, <2>5, HandlersKept
<1>2. ASSUME NEW r \in Requests, NEW u \in Users, ReadInvite(r, u)
      PROVE HandlersInv'
  <2>1. /\ req'[r].at = "joining" /\ req'[r].op = "join" /\ req'[r].by = u
        /\ \A s \in Requests \ {r} : req'[s] = req[s]
    BY <1>2 DEF ReadInvite, TypeOK, Idle
  <2>2. Sane(req'[r])
    BY <2>1 DEF Sane, LiveAdminOps
  <2> QED
    BY <2>1, <2>2, HandlersKept
<1>3. ASSUME NEW r \in Requests, End(r) PROVE HandlersInv'
  <2>1. req'[r] = Idle /\ \A s \in Requests \ {r} : req'[s] = req[s]
    BY <1>3 DEF End, TypeOK
  <2>2. Sane(req'[r]) /\ req'[r].at # "checked"
    BY <2>1 DEF Sane
  <2> QED
    BY <2>1, <2>2, HandlersKept
<1>4. ASSUME NEW r \in Requests, Check(r) PROVE HandlersInv'
  <2>1. CASE End(r)
    BY <2>1, <1>3
  <2>2. CASE ~ End(r)
    <3>1. /\ req[r].at = "guarded" /\ ~ Refused(req[r])
          /\ req' = [req EXCEPT ![r].at = "checked", ![r].saw = role]
      BY <1>4, <2>2 DEF Check
    <3> DEFINE q == req[r]
               p == req'[r]
    <3>2. /\ p.at = "checked" /\ p.saw = role /\ p.op = q.op /\ p.by = q.by
          /\ p.on = q.on /\ p.to = q.to /\ p.live = q.live
          /\ \A s \in Requests \ {r} : req'[s] = req[s]
      BY <3>1 DEF TypeOK
    <3>3. Sane(q)
      BY DEF HandlersInv
    <3>4. Sane(p)
      BY <3>1, <3>2, <3>3 DEF Sane
    <3>5. AdminsIn(role) = Admins /\ MembersIn(role) = Members
      BY DEF AdminsIn, MembersIn, Admins, Members
    <3>6. Cardinality(Admins) \in Nat /\ Cardinality(Members) \in Nat
      BY FS_Subset, FS_CardinalityType DEF Admins, Members
    <3>7. SawAnotherAdmin(p)
      <4> HIDE DEF q, p
      <4>1. CASE q.op = "setRole"
        BY <4>1, <3>1, <3>2, <3>3, <3>5, <3>6 DEF SawAnotherAdmin, Refused, Sane, q
      <4>2. CASE q.op = "remove"
        BY <4>2, <3>1, <3>2, <3>3, <3>5, <3>6 DEF SawAnotherAdmin, Refused, Sane, q
      <4>3. CASE q.op = "leave"
        BY <4>3, <3>1, <3>2, <3>3, <3>5, <3>6 DEF SawAnotherAdmin, Refused, Sane, q
      <4>4. CASE q.op \notin {"setRole", "remove", "leave"}
        BY <4>4, <3>2 DEF SawAnotherAdmin
      <4> QED
        BY <4>1, <4>2, <4>3, <4>4
    <3> QED
      BY <3>2, <3>4, <3>7, HandlersKept
  <2> QED
    BY <2>1, <2>2
<1>5. ASSUME NEW r \in Requests,
             \/ ChangeRole(r) \/ Leave(r) \/ RemoveGroupMember(r) \/ MintInvite(r)
             \/ Invite(r) \/ Archive(r) \/ Join(r)
      PROVE HandlersInv'
  <2>1. End(r)
    BY <1>5 DEF ChangeRole, Leave, RemoveGroupMember, MintInvite, Invite, Archive, Join, Checked
  <2> QED
    BY <2>1, <1>3
<1>6. CASE InviteLapses
    BY <1>6 DEF InviteLapses, HandlersInv
<1> QED
    BY <1>1, <1>2, <1>4, <1>5, <1>6, NextSteps

-----------------------------------------------------------------------------
LEMMA GroupStep == GroupInv /\ [Next]_vars => GroupInv'
<1> SUFFICES ASSUME GroupInv, [Next]_vars PROVE GroupInv'
    OBVIOUS
<1>1. CASE Next
    BY <1>1, TypeStep, LimitStep, HandlersStep DEF GroupInv
<1>2. CASE UNCHANGED vars
    BY <1>2 DEF vars, groupVars, GroupInv, TypeOK, UsesCountJoins, LimitInv, Joining,
       HandlersInv
<1> QED
    BY <1>1, <1>2

(* The inductive invariant: types, the counter, the limit with the joins   *)
(* in flight, and what each handler knew when it passed its checks.        *)
THEOREM GroupInvariant == Spec => []GroupInv
    BY InitGroup, GroupStep, PTL DEF Spec

(* The columns and the handlers of a group keep their types.               *)
THEOREM GroupTypes == Spec => []TypeOK
<1>1. GroupInv => TypeOK
    BY DEF GroupInv
<1> QED
    BY <1>1, GroupInvariant, PTL

(* A code lets in more members than its limit by fewer than there are      *)
(* requests in flight at once: the limit is read before the transaction.   *)
THEOREM LimitPassedOnlyByRaces == Spec => []LimitHoldsUpToRaces
<1>1. GroupInv => LimitHoldsUpToRaces
    BY JoiningFinite, GroupsAssumption DEF GroupInv, TypeOK, UsesCountJoins, LimitInv,
                                       LimitHoldsUpToRaces
<1> QED
    BY <1>1, GroupInvariant, PTL

-----------------------------------------------------------------------------
(* The steps that change members, invitations or the code.                 *)
LEMMA ArchivedStep ==
    ASSUME GroupInv, [Next]_vars, archived,
           <<role, code, invited>>' # <<role, code, invited>>
    PROVE \/ InviteLapses
          \/ \E r \in Requests : /\ req[r].at \in {"checked", "joining"}
                                 /\ req'[r].at = "idle"
                                 /\ req[r].op \in {"join", "leave"} \/ req[r].live
<1> USE IdleType DEF GroupInv
<1>1. Next
    BY DEF vars, groupVars
<1>2. ASSUME NEW r \in Requests, req[r].at = "checked", End(r),
             req[r].op \in {"leave", "setRole", "patchRole", "remove", "mint", "invite"}
      PROVE /\ req[r].at \in {"checked", "joining"}
            /\ req'[r].at = "idle"
            /\ req[r].op \in {"join", "leave"} \/ req[r].live
    BY <1>2 DEF End, TypeOK, HandlersInv, Sane, LiveAdminOps
<1>3. ASSUME NEW r \in Requests, Join(r)
      PROVE /\ req[r].at \in {"checked", "joining"}
            /\ req'[r].at = "idle"
            /\ req[r].op \in {"join", "leave"} \/ req[r].live
    BY <1>3 DEF Join, End, TypeOK, HandlersInv, Sane
<1>4. ASSUME NEW r \in Requests,
             \/ ChangeRole(r) \/ Leave(r) \/ RemoveGroupMember(r) \/ MintInvite(r) \/ Invite(r)
      PROVE /\ req[r].at = "checked" /\ End(r)
            /\ req[r].op \in {"leave", "setRole", "patchRole", "remove", "mint", "invite"}
    BY <1>4 DEF ChangeRole, Leave, RemoveGroupMember, MintInvite, Invite, Checked
<1>5. ASSUME NEW r \in Requests,
             \/ \E op \in Ops \ {"join"}, by \in Users,
                   on \in Users \cup {None}, to \in Roles \cup {None} :
                      Guard(r, op, by, on, to)
             \/ \E u \in Users : ReadInvite(r, u)
             \/ Check(r) \/ Archive(r)
      PROVE FALSE
    BY <1>5 DEF Guard, ReadInvite, Check, Archive, groupVars
<1> QED
    BY <1>1, <1>2, <1>3, <1>4, <1>5, NextSteps

(* Archival closes a group but for joins, departures and requests whose    *)
(* guard had seen it live.                                                 *)
THEOREM ArchivalCloses == Spec => ArchivedIsClosed
<1>1. GroupInv /\ [Next]_vars
        => [archived /\ <<role, code, invited>>' # <<role, code, invited>>
              => \/ InviteLapses
                 \/ \E r \in Requests : /\ req[r].at \in {"checked", "joining"}
                                        /\ req'[r].at = "idle"
                                        /\ req[r].op \in {"join", "leave"} \/ req[r].live]_vars
    BY ArchivedStep
<1> QED
    BY <1>1, GroupInvariant, PTL DEF Spec, ArchivedIsClosed

-----------------------------------------------------------------------------
(* If the members lose their last admin to a departure, or to a lesser     *)
(* role, there was one.                                                    *)
LEMMA SoleAdmin ==
    ASSUME TypeOK, NEW u \in Users, Admins # {}, Admins' = {},
           \A v \in Users \ {u} : role'[v] = role[v]
    PROVE role[u] = "admin" /\ Admins = {u} /\ Cardinality(AdminsIn(role)) = 1
<1>1. Admins = {u}
    BY DEF Admins
<1>2. AdminsIn(role) = {u}
    BY <1>1 DEF Admins, AdminsIn
<1> QED
    BY <1>1, <1>2, FS_Singleton DEF Admins

AdminsGone == Admins # {} /\ Admins' = {} /\ Members' # {}

StaleWriter ==
    \E r \in Requests : /\ req[r].at = "checked"
                        /\ req'[r].at = "idle"
                        /\ req[r].op = "patchRole" \/ req[r].saw # role

LEMMA LastAdminStep ==
    ASSUME GroupInv, [Next]_vars, AdminsGone PROVE StaleWriter
<1> USE IdleType, GroupsAssumption DEF GroupInv, AdminsGone, StaleWriter
<1>1. Next
    BY DEF vars, groupVars, Admins
<1>2. role' # role
    BY DEF Admins
<1>3. ASSUME NEW r \in Requests, End(r) PROVE req'[r].at = "idle"
    BY <1>3 DEF End, TypeOK
<1>4. ASSUME NEW r \in Requests, Join(r) PROVE FALSE
  <2>1. req[r].by \in Users /\ role[req[r].by] = None
    BY <1>2, <1>4 DEF Join, HandlersInv, Sane
  <2>2. role' = [role EXCEPT ![req[r].by] = "member"]
    BY <1>2, <1>4 DEF Join
  <2>3. Admins \subseteq Admins'
    BY <2>1, <2>2 DEF Admins, TypeOK
  <2> QED
    BY <2>3
<1>5. ASSUME NEW r \in Requests, ChangeRole(r)
      PROVE /\ req[r].at = "checked" /\ req'[r].at = "idle"
            /\ req[r].op = "patchRole" \/ req[r].saw # role
  <2>1. req[r].at = "checked" /\ End(r) /\ req[r].op \in {"setRole", "patchRole"}
    BY <1>5 DEF ChangeRole, Checked
  <2>2. CASE req[r].op = "setRole" /\ req[r].saw = role
    <3>1. req[r].on \in Users /\ req[r].to \in Roles /\ SawAnotherAdmin(req[r])
      BY <2>1 DEF HandlersInv, Sane
    <3>2. role' = [role EXCEPT ![req[r].on] = req[r].to]
      BY <1>2, <1>5 DEF ChangeRole
    <3>3. role[req[r].on] = "admin" /\ Cardinality(AdminsIn(role)) = 1
      BY <3>1, <3>2, SoleAdmin DEF TypeOK
    <3>4. req[r].to # "admin"
      BY <3>1, <3>2 DEF Admins, TypeOK
    <3> QED
      BY <2>2, <3>1, <3>3, <3>4 DEF SawAnotherAdmin
  <2> QED
    BY <1>3, <2>1, <2>2
<1>6. ASSUME NEW r \in Requests, RemoveGroupMember(r)
      PROVE /\ req[r].at = "checked" /\ req'[r].at = "idle" /\ req[r].saw # role
  <2>1. req[r].at = "checked" /\ End(r) /\ req[r].op = "remove" /\ Depart(req[r].on)
    BY <1>6 DEF RemoveGroupMember, Checked
  <2>2. CASE req[r].saw = role
    <3>1. req[r].on \in Users /\ SawAnotherAdmin(req[r])
      BY <2>1 DEF HandlersInv, Sane
    <3>2. role[req[r].on] = "admin" /\ Cardinality(AdminsIn(role)) = 1
      BY <2>1, <3>1, SoleAdmin DEF TypeOK, Depart
    <3> QED
      BY <2>1, <2>2, <3>1, <3>2 DEF SawAnotherAdmin
  <2> QED
    BY <1>3, <2>1, <2>2
<1>7. ASSUME NEW r \in Requests, Leave(r)
      PROVE /\ req[r].at = "checked" /\ req'[r].at = "idle" /\ req[r].saw # role
  <2> DEFINE u == req[r].by
  <2>1. req[r].at = "checked" /\ End(r) /\ req[r].op = "leave" /\ Depart(u)
    BY <1>7 DEF Leave, Checked
  <2>2. CASE req[r].saw = role
    <3>1. u \in Users /\ SawAnotherAdmin(req[r])
      BY <2>1 DEF HandlersInv, Sane
    <3>2. role[u] = "admin" /\ Cardinality(AdminsIn(role)) = 1
      BY <2>1, <3>1, SoleAdmin DEF TypeOK, Depart
    <3>3. Cardinality(Members) =< 1
      BY <2>1, <2>2, <3>1, <3>2 DEF SawAnotherAdmin, MembersIn, Members
    <3>4. u \in Members /\ IsFiniteSet(Members)
      BY <3>1, <3>2, FS_Subset DEF Members
    <3>5. Members' = Members \ {u}
      BY <2>1, <3>1 DEF Members, Depart, TypeOK
    <3>6. /\ IsFiniteSet(Members \ {u}) /\ Cardinality(Members \ {u}) \in Nat
          /\ Cardinality(Members \ {u}) = Cardinality(Members) - 1
      <4> HIDE DEF u
      <4> QED
        BY <3>4, FS_RemoveElement, FS_CardinalityType
    <3>7. Cardinality(Members \ {u}) = 0
      BY <3>3, <3>4, <3>6, FS_CardinalityType
    <3>8. Members \ {u} = {}
      BY <3>6, <3>7, FS_EmptySet
    <3> QED
      BY <3>5, <3>8
  <2> QED
    BY <1>3, <2>1, <2>2
<1>8. ASSUME NEW r \in Requests,
             \/ \E op \in Ops \ {"join"}, by \in Users,
                   on \in Users \cup {None}, to \in Roles \cup {None} :
                      Guard(r, op, by, on, to)
             \/ \E u \in Users : ReadInvite(r, u)
             \/ Check(r) \/ MintInvite(r) \/ Invite(r) \/ Archive(r)
      PROVE FALSE
    BY <1>2, <1>8 DEF Guard, ReadInvite, Check, MintInvite, Invite, Archive, groupVars
<1>9. ~ InviteLapses
    BY <1>2 DEF InviteLapses
<1> QED
    BY <1>1, <1>4, <1>5, <1>6, <1>7, <1>8, <1>9, NextSteps

(* With any number of users and requests, a group that keeps members is    *)
(* left without an admin by the PATCH alias or by a stale count only.      *)
THEOREM LastAdminLostToRaces == Spec => LastAdminNeedsRace
<1>1. GroupInv /\ [Next]_vars => [AdminsGone => StaleWriter]_vars
    BY LastAdminStep
<1> QED
    BY <1>1, GroupInvariant, PTL DEF Spec, LastAdminNeedsRace, AdminsGone, StaleWriter

-----------------------------------------------------------------------------
(* Sums over finite sets.  FS_StrictSubsetOrderingWellFounded and WFMin give
   induction over a finite set for a set of subsets, without an operator
   parameter; the library's sums are then one function each. *)

(* Induction over a finite set in the form of a set that holds its subsets.  *)
LEMMA SubsetInduction ==
    ASSUME NEW S, IsFiniteSet(S), NEW G,
           \A T \in SUBSET S : (\A U \in SUBSET T : U # T => U \in G) => T \in G
    PROVE  S \in G
<1> SUFFICES ASSUME S \notin G PROVE FALSE
    OBVIOUS
<1> DEFINE B == {T \in SUBSET S : T \notin G}
<1>1. B \subseteq FiniteSubsetsOf(S) /\ B # {}
    BY FS_FiniteSubsetsOfFinite
<1>2. PICK T \in B : \A U \in B : ~(<<U, T>> \in StrictSubsetOrdering(S))
  <2> HIDE DEF B
  <2>1. IsWellFoundedOn(StrictSubsetOrdering(S), FiniteSubsetsOf(S))
      BY FS_StrictSubsetOrderingWellFounded
  <2> QED
      BY <1>1, <2>1, WFMin
<1>3. ASSUME NEW U \in SUBSET T, U # T PROVE U \in G
    BY <1>2, <1>3 DEF StrictSubsetOrdering
<1> QED
    BY <1>3

\* Induction over a finite set, one member at a time.
LEMMA FiniteInduction ==
    ASSUME NEW S, IsFiniteSet(S), NEW G,
           {} \in G,
           \A T \in SUBSET S : \A x \in S : T \in G /\ x \notin T => T \cup {x} \in G
    PROVE  S \in G
<1>1. ASSUME NEW T \in SUBSET S, \A U \in SUBSET T : U # T => U \in G
      PROVE  T \in G
  <2>1. CASE T = {}
      BY <2>1
  <2>2. ASSUME NEW x \in T PROVE T \in G
    <3>1. /\ T \ {x} \in SUBSET T /\ T \ {x} # T /\ x \notin T \ {x}
          /\ (T \ {x}) \cup {x} = T
        OBVIOUS
    <3>2. T \ {x} \in G
        BY <1>1, <3>1
    <3>3. T \ {x} \in SUBSET S /\ x \in S
        OBVIOUS
    <3>4. (T \ {x}) \cup {x} \in G
        BY <3>1, <3>2, <3>3
    <3> QED
        BY <3>1, <3>4
  <2> QED
      BY <2>1, <2>2
<1> QED
    BY <1>1, SubsetInduction

Pick(s) == CHOOSE x \in s : TRUE
Rest(s) == s \ {Pick(s)}

\* g computes the sums of f over the subsets of S.
Sums(f, g, S) ==
    g = [s \in SUBSET S |-> IF s = {} THEN 0 ELSE f[Pick(s)] + g[Rest(s)]]

\* The library's sum is the one function that satisfies its recursion.
LEMMA SumIsChosen ==
    ASSUME NEW f, NEW S
    PROVE  SumFunctionOnSet(f, S) = (CHOOSE g : Sums(f, g, S))[S]
    BY DEF SumFunctionOnSet, FoldFunctionOnSet, MapThenFoldSet, Sums, Pick, Rest

\* The member chosen of a set that is not empty, and what stays.
LEMMA PickIn ==
    ASSUME NEW s, s # {}
    PROVE  Pick(s) \in s /\ Rest(s) \in SUBSET s /\ Rest(s) # s
    BY DEF Pick, Rest

\* Two functions that satisfy the recursion agree.
LEMMA SumsUnique ==
    ASSUME NEW f, NEW S, IsFiniteSet(S), NEW g, NEW h, Sums(f, g, S), Sums(f, h, S)
    PROVE  g[S] = h[S]
<1> DEFINE G == {T \in SUBSET S : g[T] = h[T]}
<1>1. ASSUME NEW T \in SUBSET S, \A U \in SUBSET T : U # T => U \in G
      PROVE  T \in G
  <2>1. CASE T = {}
      BY <2>1 DEF Sums
  <2>2. CASE T # {}
    <3>1. g[Rest(T)] = h[Rest(T)]
        BY <1>1, <2>2, PickIn
    <3> QED
        BY <2>2, <3>1 DEF Sums
  <2> QED
      BY <2>1, <2>2
<1>2. S \in G
  <2> HIDE DEF G
  <2> QED
      BY <1>1, SubsetInduction
<1> QED
    BY <1>2

\* The sums over the subsets of a subset.
LEMMA SumsRestrict ==
    ASSUME NEW f, NEW S, NEW g, Sums(f, g, S), NEW T \in SUBSET S
    PROVE  Sums(f, [s \in SUBSET T |-> g[s]], T)
<1> DEFINE h == [s \in SUBSET T |-> g[s]]
<1>1. ASSUME NEW s \in SUBSET T
      PROVE  h[s] = IF s = {} THEN 0 ELSE f[Pick(s)] + h[Rest(s)]
  <2>1. g[s] = IF s = {} THEN 0 ELSE f[Pick(s)] + g[Rest(s)]
      BY DEF Sums
  <2>2. s # {} => h[Rest(s)] = g[Rest(s)]
      BY PickIn
  <2> QED
      BY <2>1, <2>2
<1>2. h = [s \in SUBSET T |-> IF s = {} THEN 0 ELSE f[Pick(s)] + h[Rest(s)]]
    BY <1>1
<1> QED
    BY <1>2 DEF Sums

\* The recursion has a solution on every finite set.
LEMMA SumsExist ==
    ASSUME NEW f, NEW S, IsFiniteSet(S)
    PROVE  \E g : Sums(f, g, S)
<1> DEFINE G == {T \in SUBSET S : \E g : Sums(f, g, T)}
           H(T) == CHOOSE g : Sums(f, g, T)
<1>1. ASSUME NEW T \in SUBSET S, \A U \in SUBSET T : U # T => U \in G
      PROVE  T \in G
  <2> DEFINE h == [s \in SUBSET T |-> IF s = {} THEN 0 ELSE f[Pick(s)] + H(Rest(s))[Rest(s)]]
  <2>1. ASSUME NEW s \in SUBSET T, s # T
        PROVE  h[s] = H(s)[s]
    <3> HIDE DEF H
    <3>1. Sums(f, H(s), s)
        BY <1>1, <2>1 DEF H
    <3>2. CASE s = {}
        BY <3>1, <3>2 DEF Sums
    <3>3. CASE s # {}
      <4>1. Rest(s) \in SUBSET T /\ Rest(s) # T
          BY <3>3, <2>1, PickIn
      <4>2. Sums(f, H(Rest(s)), Rest(s))
          BY <4>1, <1>1 DEF H
      <4>3. Sums(f, [u \in SUBSET Rest(s) |-> H(s)[u]], Rest(s))
          BY <3>1, <3>3, PickIn, SumsRestrict
      <4>4. IsFiniteSet(Rest(s))
          BY <4>1, FS_Subset
      <4>5. H(Rest(s))[Rest(s)] = [u \in SUBSET Rest(s) |-> H(s)[u]][Rest(s)]
          BY <4>2, <4>3, <4>4, SumsUnique
      <4>6. H(s)[s] = f[Pick(s)] + H(s)[Rest(s)]
          BY <3>1, <3>3 DEF Sums
      <4> QED
          BY <3>3, <4>5, <4>6
    <3> QED
        BY <3>2, <3>3
  <2>2. ASSUME NEW s \in SUBSET T, s # {}
        PROVE  h[s] = f[Pick(s)] + h[Rest(s)]
    <3>1. Rest(s) \in SUBSET T /\ Rest(s) # T
        BY <2>2, PickIn
    <3>2. h[Rest(s)] = H(Rest(s))[Rest(s)]
        BY <2>1, <3>1
    <3> HIDE DEF H
    <3> QED
        BY <3>2, <2>2
  <2>3. h = [s \in SUBSET T |-> IF s = {} THEN 0 ELSE f[Pick(s)] + h[Rest(s)]]
    <3> HIDE DEF H
    <3> QED
        BY <2>2
  <2>4. Sums(f, h, T)
      BY <2>3 DEF Sums
  <2> HIDE DEF h
  <2> QED
      BY <2>4
<1>2. S \in G
  <2> HIDE DEF G
  <2> QED
    BY <1>1, SubsetInduction
<1> QED
    BY <1>2

\* What SumFunctionOnSet computes, one element at a time.
LEMMA SumStep ==
    ASSUME NEW f, NEW S, IsFiniteSet(S)
    PROVE  SumFunctionOnSet(f, S) =
             IF S = {} THEN 0 ELSE f[Pick(S)] + SumFunctionOnSet(f, Rest(S))
<1> DEFINE H(T) == CHOOSE g : Sums(f, g, T)
<1>1. ASSUME NEW T \in SUBSET S
      PROVE  Sums(f, H(T), T) /\ SumFunctionOnSet(f, T) = H(T)[T]
  <2>1. IsFiniteSet(T)
      BY FS_Subset
  <2> QED
      BY <2>1, SumsExist, SumIsChosen
<1> HIDE DEF H
<1>2. CASE S = {}
    BY <1>1, <1>2 DEF Sums
<1>3. CASE S # {}
  <2>1. Rest(S) \in SUBSET S /\ IsFiniteSet(Rest(S))
      BY <1>3, PickIn, FS_Subset
  <2>2. Sums(f, [u \in SUBSET Rest(S) |-> H(S)[u]], Rest(S))
      BY <1>1, <2>1, SumsRestrict
  <2>3. H(Rest(S))[Rest(S)] = [u \in SUBSET Rest(S) |-> H(S)[u]][Rest(S)]
      BY <2>1, <2>2, <1>1, SumsUnique
  <2>4. H(S)[S] = f[Pick(S)] + H(S)[Rest(S)]
      BY <1>1, <1>3 DEF Sums
  <2> QED
      BY <1>1, <2>1, <2>3, <2>4, <1>3
<1> QED
    BY <1>2, <1>3

\* The empty sum.
LEMMA SumEmpty ==
    ASSUME NEW f
    PROVE  SumFunctionOnSet(f, {}) = 0
    BY SumStep, FS_EmptySet

\* A sum of integers is an integer.
LEMMA SumType ==
    ASSUME NEW f, NEW S, IsFiniteSet(S), \A x \in S : f[x] \in Int
    PROVE  SumFunctionOnSet(f, S) \in Int
<1> DEFINE G == {T \in SUBSET S : SumFunctionOnSet(f, T) \in Int}
<1>1. ASSUME NEW T \in SUBSET S, \A U \in SUBSET T : U # T => U \in G
      PROVE  T \in G
  <2>1. IsFiniteSet(T)
      BY FS_Subset
  <2>2. CASE T = {}
      BY <2>2, SumEmpty
  <2>3. CASE T # {}
    <3>1. SumFunctionOnSet(f, Rest(T)) \in Int /\ f[Pick(T)] \in Int
        BY <1>1, <2>3, PickIn
    <3>2. SumFunctionOnSet(f, T) = f[Pick(T)] + SumFunctionOnSet(f, Rest(T))
        BY <2>1, <2>3, SumStep
    <3> QED
        BY <3>1, <3>2
  <2> QED
      BY <2>2, <2>3
<1>2. S \in G
  <2> HIDE DEF G
  <2> QED
      BY <1>1, SubsetInduction
<1> QED
    BY <1>2

\* Any element may be taken out first.
LEMMA SumTake ==
    ASSUME NEW f, NEW S, IsFiniteSet(S), \A x \in S : f[x] \in Int, NEW y \in S
    PROVE  SumFunctionOnSet(f, S) = f[y] + SumFunctionOnSet(f, S \ {y})
<1> DEFINE G == {T \in SUBSET S : \A x \in T :
                   SumFunctionOnSet(f, T) = f[x] + SumFunctionOnSet(f, T \ {x})}
<1>0. ASSUME NEW T \in SUBSET S PROVE IsFiniteSet(T) /\ SumFunctionOnSet(f, T) \in Int
  <2>1. IsFiniteSet(T)
      BY FS_Subset
  <2> QED
      BY <2>1, SumType
<1>1. ASSUME NEW T \in SUBSET S, \A U \in SUBSET T : U # T => U \in G
      PROVE  T \in G
  <2> SUFFICES ASSUME NEW x \in T
               PROVE  SumFunctionOnSet(f, T) = f[x] + SumFunctionOnSet(f, T \ {x})
      OBVIOUS
  <2> DEFINE p == Pick(T)
  <2>1. IsFiniteSet(T) /\ p \in T /\ Rest(T) = T \ {p}
      BY <1>0, PickIn DEF Rest
  <2>2. SumFunctionOnSet(f, T) = f[p] + SumFunctionOnSet(f, T \ {p})
      BY <2>1, SumStep
  <2>3. CASE x = p
      BY <2>2, <2>3
  <2>4. CASE x # p
    <3> HIDE DEF p
    <3>1. T \ {p} \in G /\ T \ {x} \in G
      <4>1. /\ T \ {p} \in SUBSET T /\ T \ {p} # T
            /\ T \ {x} \in SUBSET T /\ T \ {x} # T
          BY <2>1
      <4> HIDE DEF G
      <4> QED
          BY <1>1, <4>1
    <3>4. (T \ {x}) \ {p} = (T \ {p}) \ {x}
        OBVIOUS
    <3> DEFINE c == SumFunctionOnSet(f, (T \ {p}) \ {x})
    <3>2. SumFunctionOnSet(f, T \ {p}) = f[x] + c
        BY <3>1, <2>4, <2>1
    <3>3. SumFunctionOnSet(f, T \ {x}) = f[p] + c
        BY <3>1, <2>4, <2>1, <3>4
    <3>5. c \in Int /\ f[p] \in Int /\ f[x] \in Int
        BY <1>0, <2>1
    <3> HIDE DEF c, G
    <3>6. f[p] + (f[x] + c) = f[x] + (f[p] + c)
        BY <3>5
    <3> QED
        BY <2>2, <3>2, <3>3, <3>6
  <2> QED
      BY <2>3, <2>4
<1>2. S \in G
  <2> HIDE DEF G
  <2> QED
      BY <1>1, SubsetInduction
<1> QED
    BY <1>2

\* A member more adds its value.
LEMMA SumAdd ==
    ASSUME NEW f, NEW S, IsFiniteSet(S), NEW y, y \notin S, \A x \in S \cup {y} : f[x] \in Int
    PROVE  SumFunctionOnSet(f, S \cup {y}) = f[y] + SumFunctionOnSet(f, S)
<1>1. IsFiniteSet(S \cup {y}) /\ (S \cup {y}) \ {y} = S /\ y \in S \cup {y}
    BY FS_AddElement
<1>2. SumFunctionOnSet(f, S \cup {y}) = f[y] + SumFunctionOnSet(f, (S \cup {y}) \ {y})
    BY <1>1, SumTake
<1> QED
    BY <1>1, <1>2

\* Functions that agree on a set have the same sum over it.
LEMMA SumCong ==
    ASSUME NEW f, NEW g, NEW S, IsFiniteSet(S), \A x \in S : f[x] = g[x]
    PROVE  SumFunctionOnSet(f, S) = SumFunctionOnSet(g, S)
<1> DEFINE G == {T \in SUBSET S : SumFunctionOnSet(f, T) = SumFunctionOnSet(g, T)}
<1>1. ASSUME NEW T \in SUBSET S, \A U \in SUBSET T : U # T => U \in G
      PROVE  T \in G
  <2>1. IsFiniteSet(T)
      BY FS_Subset
  <2>2. CASE T = {}
      BY <2>2, SumEmpty
  <2>3. CASE T # {}
    <3>1. SumFunctionOnSet(f, Rest(T)) = SumFunctionOnSet(g, Rest(T)) /\ f[Pick(T)] = g[Pick(T)]
        BY <1>1, <2>3, PickIn
    <3>2. /\ SumFunctionOnSet(f, T) = f[Pick(T)] + SumFunctionOnSet(f, Rest(T))
          /\ SumFunctionOnSet(g, T) = g[Pick(T)] + SumFunctionOnSet(g, Rest(T))
        BY <2>1, <2>3, SumStep
    <3> QED
        BY <3>1, <3>2
  <2> QED
      BY <2>2, <2>3
<1>2. S \in G
  <2> HIDE DEF G
  <2> QED
      BY <1>1, SubsetInduction
<1> QED
    BY <1>2

\* The facts an induction over the subsets of S needs of a sum.
LEMMA SumGrows ==
    ASSUME NEW f, NEW S, IsFiniteSet(S), \A x \in S : f[x] \in Int
    PROVE  /\ \A T \in SUBSET S : IsFiniteSet(T) /\ SumFunctionOnSet(f, T) \in Int
           /\ \A T \in SUBSET S : \A y \in S \ T :
                SumFunctionOnSet(f, T \cup {y}) = f[y] + SumFunctionOnSet(f, T)
<1>1. ASSUME NEW T \in SUBSET S
      PROVE  IsFiniteSet(T) /\ SumFunctionOnSet(f, T) \in Int
  <2>1. IsFiniteSet(T)
      BY FS_Subset
  <2> QED
      BY <2>1, SumType
<1>2. ASSUME NEW T \in SUBSET S, NEW y \in S \ T
      PROVE  SumFunctionOnSet(f, T \cup {y}) = f[y] + SumFunctionOnSet(f, T)
  <2>1. y \notin T /\ \A x \in T \cup {y} : f[x] \in Int
      OBVIOUS
  <2> QED
      BY <2>1, <1>1, SumAdd
<1> QED
    BY <1>1, <1>2

\* The sum of a pointwise sum.
LEMMA SumPlus ==
    ASSUME NEW f, NEW g, NEW h, NEW S, IsFiniteSet(S),
           \A x \in S : f[x] \in Int /\ g[x] \in Int /\ h[x] = f[x] + g[x]
    PROVE  SumFunctionOnSet(h, S) = SumFunctionOnSet(f, S) + SumFunctionOnSet(g, S)
<1> DEFINE G == {T \in SUBSET S :
                   SumFunctionOnSet(h, T) = SumFunctionOnSet(f, T) + SumFunctionOnSet(g, T)}
<1>1. {} \in G
    BY SumEmpty
<1>2. ASSUME NEW T \in SUBSET S, NEW y \in S, T \in G, y \notin T
      PROVE  T \cup {y} \in G
  <2>1. /\ SumFunctionOnSet(f, T) \in Int /\ SumFunctionOnSet(g, T) \in Int
        /\ SumFunctionOnSet(f, T \cup {y}) = f[y] + SumFunctionOnSet(f, T)
        /\ SumFunctionOnSet(g, T \cup {y}) = g[y] + SumFunctionOnSet(g, T)
        /\ SumFunctionOnSet(h, T \cup {y}) = h[y] + SumFunctionOnSet(h, T)
    <3>1. \A x \in S : h[x] \in Int
        OBVIOUS
    <3> HIDE DEF G
    <3> QED
        BY <1>2, <3>1, SumGrows
  <2>2. SumFunctionOnSet(h, T \cup {y}) = SumFunctionOnSet(f, T \cup {y}) + SumFunctionOnSet(g, T \cup {y})
      BY <2>1, <1>2
  <2> QED
      BY <2>2
<1>3. S \in G
  <2> HIDE DEF G
  <2> QED
      BY <1>1, <1>2, FiniteInduction
<1> QED
    BY <1>3

\* The sum of a scaled function.
LEMMA SumTimes ==
    ASSUME NEW f, NEW h, NEW c \in Int, NEW S, IsFiniteSet(S),
           \A x \in S : f[x] \in Int /\ h[x] = c * f[x]
    PROVE  SumFunctionOnSet(h, S) = c * SumFunctionOnSet(f, S)
<1> DEFINE G == {T \in SUBSET S : SumFunctionOnSet(h, T) = c * SumFunctionOnSet(f, T)}
<1>1. {} \in G
    BY SumEmpty
<1>2. ASSUME NEW T \in SUBSET S, NEW y \in S, T \in G, y \notin T
      PROVE  T \cup {y} \in G
  <2>1. /\ SumFunctionOnSet(f, T) \in Int /\ f[y] \in Int
        /\ SumFunctionOnSet(f, T \cup {y}) = f[y] + SumFunctionOnSet(f, T)
        /\ SumFunctionOnSet(h, T \cup {y}) = c * f[y] + SumFunctionOnSet(h, T)
    <3>1. \A x \in S : h[x] \in Int
        OBVIOUS
    <3> HIDE DEF G
    <3> QED
        BY <1>2, <3>1, SumGrows
  <2>2. \A a, b \in Int : c * (a + b) = c * a + c * b
      OBVIOUS
  <2>3. SumFunctionOnSet(h, T \cup {y}) = c * SumFunctionOnSet(f, T \cup {y})
      BY <2>1, <2>2, <1>2
  <2> QED
      BY <2>3
<1>3. S \in G
  <2> HIDE DEF G
  <2> QED
      BY <1>1, <1>2, FiniteInduction
<1> QED
    BY <1>3

\* The sum of a constant.
LEMMA SumConst ==
    ASSUME NEW h, NEW c \in Int, NEW S, IsFiniteSet(S), \A x \in S : h[x] = c
    PROVE  SumFunctionOnSet(h, S) = c * Cardinality(S)
<1> DEFINE G == {T \in SUBSET S : SumFunctionOnSet(h, T) = c * Cardinality(T)}
<1>1. {} \in G
    BY SumEmpty, FS_EmptySet
<1>2. ASSUME NEW T \in SUBSET S, NEW y \in S, T \in G, y \notin T
      PROVE  T \cup {y} \in G
  <2>1. IsFiniteSet(T) /\ SumFunctionOnSet(h, T \cup {y}) = c + SumFunctionOnSet(h, T)
    <3> HIDE DEF G
    <3> QED
        BY <1>2, SumGrows
  <2>2. Cardinality(T) \in Nat /\ Cardinality(T \cup {y}) = Cardinality(T) + 1
      BY <2>1, <1>2, FS_AddElement, FS_CardinalityType
  <2>3. \A n \in Nat : c * (n + 1) = c + c * n
      OBVIOUS
  <2>4. SumFunctionOnSet(h, T \cup {y}) = c * Cardinality(T \cup {y})
      BY <2>1, <2>2, <2>3, <1>2
  <2> QED
      BY <2>4
<1>3. S \in G
  <2> HIDE DEF G
  <2> QED
      BY <1>1, <1>2, FiniteInduction
<1> QED
    BY <1>3

\* A pointwise larger function has the larger sum.
LEMMA SumMono ==
    ASSUME NEW f, NEW g, NEW S, IsFiniteSet(S),
           \A x \in S : f[x] \in Int /\ g[x] \in Int /\ f[x] =< g[x]
    PROVE  SumFunctionOnSet(f, S) =< SumFunctionOnSet(g, S)
<1> DEFINE G == {T \in SUBSET S : SumFunctionOnSet(f, T) =< SumFunctionOnSet(g, T)}
<1>1. {} \in G
    BY SumEmpty
<1>2. ASSUME NEW T \in SUBSET S, NEW y \in S, T \in G, y \notin T
      PROVE  T \cup {y} \in G
  <2>1. /\ SumFunctionOnSet(f, T) \in Int /\ SumFunctionOnSet(g, T) \in Int
        /\ SumFunctionOnSet(f, T \cup {y}) = f[y] + SumFunctionOnSet(f, T)
        /\ SumFunctionOnSet(g, T \cup {y}) = g[y] + SumFunctionOnSet(g, T)
    <3> HIDE DEF G
    <3> QED
        BY <1>2, SumGrows
  <2>2. SumFunctionOnSet(f, T \cup {y}) =< SumFunctionOnSet(g, T \cup {y})
      BY <2>1, <1>2
  <2> QED
      BY <2>2
<1>3. S \in G
  <2> HIDE DEF G
  <2> QED
      BY <1>1, <1>2, FiniteInduction
<1> QED
    BY <1>3

\* A sum of naturals is a natural.
LEMMA SumNat ==
    ASSUME NEW f, NEW S, IsFiniteSet(S), \A x \in S : f[x] \in Nat
    PROVE  SumFunctionOnSet(f, S) \in Nat
<1> DEFINE z == [x \in S |-> 0]
<1>1. SumFunctionOnSet(z, S) = 0 * Cardinality(S)
    BY SumConst
<1>2. SumFunctionOnSet(z, S) =< SumFunctionOnSet(f, S)
    BY SumMono
<1>3. SumFunctionOnSet(f, S) \in Int /\ Cardinality(S) \in Nat
    BY SumType, FS_CardinalityType
<1> HIDE DEF z
<1> QED
    BY <1>1, <1>2, <1>3

\* The sum over a part of a set, as one over the whole set.
LEMMA SumPart ==
    ASSUME NEW f, NEW h, NEW S, IsFiniteSet(S), NEW P \in SUBSET S,
           \A x \in P : f[x] \in Int /\ h[x] = f[x],
           \A x \in S \ P : h[x] = 0
    PROVE  SumFunctionOnSet(h, S) = SumFunctionOnSet(f, P)
<1> DEFINE G == {T \in SUBSET S : SumFunctionOnSet(h, T) = SumFunctionOnSet(f, T \cap P)}
<1>1. {} \in G
  <2>1. {} \cap P = {}
      OBVIOUS
  <2> QED
      BY <2>1, SumEmpty
<1>2. ASSUME NEW T \in SUBSET S, NEW y \in S, T \in G, y \notin T
      PROVE  T \cup {y} \in G
  <2>1. \A x \in S : h[x] \in Int
      OBVIOUS
  <2>2. SumFunctionOnSet(h, T \cup {y}) = h[y] + SumFunctionOnSet(h, T) /\ SumFunctionOnSet(h, T) \in Int
    <3> HIDE DEF G
    <3> QED
        BY <1>2, <2>1, SumGrows
  <2>3. CASE y \in P
    <3>1. (T \cup {y}) \cap P = (T \cap P) \cup {y} /\ T \cap P \in SUBSET P /\ y \in P \ (T \cap P)
        BY <2>3, <1>2
    <3>2. SumFunctionOnSet(f, (T \cap P) \cup {y}) = f[y] + SumFunctionOnSet(f, T \cap P)
      <4>1. IsFiniteSet(P)
          BY FS_Subset
      <4> HIDE DEF G
      <4> QED
          BY <3>1, <4>1, SumGrows
    <3>3. SumFunctionOnSet(h, T \cup {y}) = SumFunctionOnSet(f, (T \cup {y}) \cap P)
        BY <3>1, <3>2, <2>2, <2>3, <1>2
    <3> QED
        BY <3>3
  <2>4. CASE y \notin P
    <3>1. (T \cup {y}) \cap P = T \cap P
        BY <2>4
    <3>2. SumFunctionOnSet(h, T \cup {y}) = SumFunctionOnSet(h, T)
        BY <2>2, <2>4
    <3>3. SumFunctionOnSet(h, T \cup {y}) = SumFunctionOnSet(f, (T \cup {y}) \cap P)
        BY <3>1, <3>2, <1>2
    <3> QED
        BY <3>3
  <2> QED
      BY <2>3, <2>4
<1>3. S \in G
  <2> HIDE DEF G
  <2> QED
      BY <1>1, <1>2, FiniteInduction
<1>4. S \cap P = P
    OBVIOUS
<1> QED
    BY <1>3, <1>4

\* A function that differs in one place.
LEMMA SumUpdate ==
    ASSUME NEW f, NEW g, NEW S, IsFiniteSet(S), NEW y \in S, NEW c \in Int,
           \A x \in S : f[x] \in Int,
           \A x \in S : g[x] = IF x = y THEN f[x] + c ELSE f[x]
    PROVE  SumFunctionOnSet(g, S) = SumFunctionOnSet(f, S) + c
<1>1. SumFunctionOnSet(f, S) = f[y] + SumFunctionOnSet(f, S \ {y})
    BY SumTake
<1>2. SumFunctionOnSet(g, S) = g[y] + SumFunctionOnSet(g, S \ {y})
    BY SumTake
<1>3. IsFiniteSet(S \ {y})
    BY FS_Subset
<1>4. SumFunctionOnSet(f, S \ {y}) = SumFunctionOnSet(g, S \ {y})
    BY <1>3, SumCong
<1>5. SumFunctionOnSet(f, S \ {y}) \in Int
    BY <1>3, SumType
<1> QED
    BY <1>1, <1>2, <1>4, <1>5

\* A sum taken group by group.
LEMMA SumByKey ==
    ASSUME NEW f, NEW k, NEW S, IsFiniteSet(S), NEW U, IsFiniteSet(U),
           \A x \in S : f[x] \in Int /\ k[x] \in U
    PROVE  SumFunctionOnSet([u \in U |-> SumFunctionOnSet(f, {x \in S : k[x] = u})], U)
             = SumFunctionOnSet(f, S)
<1> DEFINE by(T) == [u \in U |-> SumFunctionOnSet(f, {x \in T : k[x] = u})]
           G == {T \in SUBSET S : SumFunctionOnSet(by(T), U) = SumFunctionOnSet(f, T)}
<1>0. ASSUME NEW T \in SUBSET S, NEW u \in U
      PROVE  by(T)[u] = SumFunctionOnSet(f, {x \in T : k[x] = u}) /\ by(T)[u] \in Int
  <2>1. {x \in T : k[x] = u} \in SUBSET S
      OBVIOUS
  <2>2. SumFunctionOnSet(f, {x \in T : k[x] = u}) \in Int
    <3> HIDE DEF G
    <3> QED
      BY <2>1, SumGrows
  <2> QED
      BY <2>2
<1>1. {} \in G
  <2>1. ASSUME NEW u \in U PROVE by({})[u] = 0
    <3>1. {x \in {} : k[x] = u} = {}
        OBVIOUS
    <3> QED
        BY <3>1, SumEmpty
  <2> HIDE DEF by
  <2>2. SumFunctionOnSet(by({}), U) = 0 * Cardinality(U)
      BY <2>1, SumConst
  <2>3. Cardinality(U) \in Nat
      BY FS_CardinalityType
  <2>4. SumFunctionOnSet(by({}), U) = SumFunctionOnSet(f, {})
      BY <2>2, <2>3, SumEmpty
  <2> QED
      BY <2>4
<1>2. ASSUME NEW T \in SUBSET S, NEW y \in S, T \in G, y \notin T
      PROVE  T \cup {y} \in G
  <2> DEFINE p == by(T)
             q == by(T \cup {y})
  <2>0. T \cup {y} \in SUBSET S
      OBVIOUS
  <2>1. ASSUME NEW u \in U
        PROVE  q[u] = IF u = k[y] THEN p[u] + f[y] ELSE p[u]
    <3> DEFINE v == SumFunctionOnSet(f, {x \in T : k[x] = u})
    <3>0. p[u] = v /\ v \in Int
        BY <1>0
    <3>1. CASE u = k[y]
      <4>1. {x \in T \cup {y} : k[x] = u} = {x \in T : k[x] = u} \cup {y}
          BY <3>1
      <4>2. {x \in T : k[x] = u} \in SUBSET S /\ y \in S \ {x \in T : k[x] = u}
          BY <1>2
      <4>3. SumFunctionOnSet(f, {x \in T : k[x] = u} \cup {y}) = f[y] + v
        <5> HIDE DEF by, G
        <5> QED
          BY <4>2, SumGrows
      <4>4. q[u] = f[y] + v
          BY <4>1, <4>3
      <4> HIDE DEF by, G, p, q, v
      <4> QED
          BY <3>0, <3>1, <4>4
    <3>2. CASE u # k[y]
      <4>1. {x \in T \cup {y} : k[x] = u} = {x \in T : k[x] = u}
          BY <3>2
      <4> QED
          BY <4>1, <3>2
    <3> QED
        BY <3>1, <3>2
  <2>2. \A u \in U : p[u] \in Int
      BY <1>0
  <2>3. SumFunctionOnSet(q, U) = SumFunctionOnSet(p, U) + f[y]
    <3> HIDE DEF by, G, p, q
    <3> QED
        BY <2>1, <2>2, SumUpdate
  <2>4. SumFunctionOnSet(f, T \cup {y}) = f[y] + SumFunctionOnSet(f, T) /\ SumFunctionOnSet(f, T) \in Int
    <3> HIDE DEF by, G
    <3> QED
        BY <1>2, SumGrows
  <2>5. SumFunctionOnSet(p, U) = SumFunctionOnSet(f, T)
      BY <1>2
  <2>6. SumFunctionOnSet(q, U) = SumFunctionOnSet(f, T \cup {y})
    <3> HIDE DEF by, G, p, q
    <3> QED
        BY <2>3, <2>4, <2>5
  <2>7. T \cup {y} \in SUBSET S
      OBVIOUS
  <2> HIDE DEF by
  <2> QED
      BY <2>6, <2>7
<1>3. S \in G
  <2> HIDE DEF G
  <2> QED
      BY <1>1, <1>2, FiniteInduction
<1> QED
    BY <1>3

\* The order of two sums does not matter.
LEMMA SumSwap ==
    ASSUME NEW a, NEW S, IsFiniteSet(S), NEW U, IsFiniteSet(U),
           \A x \in S, u \in U : a[x][u] \in Int
    PROVE  SumFunctionOnSet([u \in U |-> SumFunctionOnSet([x \in S |-> a[x][u]], S)], U)
             = SumFunctionOnSet([x \in S |-> SumFunctionOnSet(a[x], U)], S)
<1> DEFINE row == [x \in S |-> SumFunctionOnSet(a[x], U)]
           col(u) == [x \in S |-> a[x][u]]
           cols(T) == [u \in U |-> SumFunctionOnSet(col(u), T)]
           G == {T \in SUBSET S : SumFunctionOnSet(cols(T), U) = SumFunctionOnSet(row, T)}
<1>0. /\ \A x \in S : row[x] = SumFunctionOnSet(a[x], U) /\ row[x] \in Int
      /\ \A u \in U, x \in S : col(u)[x] = a[x][u] /\ col(u)[x] \in Int
      /\ \A T, u \in U : cols(T)[u] = SumFunctionOnSet(col(u), T)
    BY SumType
<1>1. {} \in G
  <2>1. \A u \in U : cols({})[u] = 0
      BY <1>0, SumEmpty
  <2> HIDE DEF cols, row, col
  <2>2. SumFunctionOnSet(cols({}), U) = 0 * Cardinality(U)
      BY <2>1, SumConst
  <2>3. Cardinality(U) \in Nat
      BY FS_CardinalityType
  <2>4. SumFunctionOnSet(cols({}), U) = SumFunctionOnSet(row, {})
      BY <2>2, <2>3, SumEmpty
  <2> QED
      BY <2>4
<1>2. ASSUME NEW T \in SUBSET S, NEW y \in S, T \in G, y \notin T
      PROVE  T \cup {y} \in G
  <2>5. SumFunctionOnSet(cols(T), U) = SumFunctionOnSet(row, T)
      BY <1>2
  <2>7. T \cup {y} \in SUBSET S
      OBVIOUS
  <2>6. SumFunctionOnSet(cols(T \cup {y}), U) = SumFunctionOnSet(row, T \cup {y})
    <3> DEFINE p == cols(T)
               q == cols(T \cup {y})
    <3>0. \A u \in U : p[u] = SumFunctionOnSet(col(u), T) /\ q[u] = SumFunctionOnSet(col(u), T \cup {y})
        BY <1>0
    <3> HIDE DEF cols, row, col, G, p, q
    <3>1. ASSUME NEW u \in U
          PROVE  p[u] \in Int /\ a[y][u] \in Int /\ q[u] = a[y][u] + p[u]
      <4>1. /\ SumFunctionOnSet(col(u), T) \in Int
            /\ SumFunctionOnSet(col(u), T \cup {y}) = col(u)[y] + SumFunctionOnSet(col(u), T)
          BY <1>0, <1>2, SumGrows
      <4> QED
          BY <4>1, <1>0, <3>0
    <3>2. SumFunctionOnSet(q, U) = SumFunctionOnSet(a[y], U) + SumFunctionOnSet(p, U)
        BY <3>1, SumPlus
    <3>3. SumFunctionOnSet(row, T \cup {y}) = row[y] + SumFunctionOnSet(row, T)
        BY <1>0, <1>2, SumGrows
    <3> QED
        BY <3>2, <3>3, <2>5, <1>0 DEF p, q
  <2> HIDE DEF cols, row, col
  <2> QED
      BY <2>6, <2>7
<1>3. S \in G
  <2> HIDE DEF G
  <2> QED
      BY <1>1, <1>2, FiniteInduction
<1> QED
    BY <1>3

\* The sum over one member.
LEMMA SumOne ==
    ASSUME NEW f, NEW y, f[y] \in Int
    PROVE  SumFunctionOnSet(f, {y}) = f[y]
<1>1. SumFunctionOnSet(f, {} \cup {y}) = f[y] + SumFunctionOnSet(f, {})
    BY FS_EmptySet, SumAdd
<1>2. {} \cup {y} = {y}
    OBVIOUS
<1> QED
    BY <1>1, <1>2, SumEmpty

\* A sum over a set listed in any order without repetition.
LEMMA SumListed ==
    ASSUME NEW S, NEW I, IsFiniteSet(S), IsFiniteSet(I), NEW b \in [I -> S],
           \A i, j \in I : b[i] = b[j] => i = j,
           \A x \in S : \E i \in I : b[i] = x,
           NEW f, NEW h, \A x \in S : f[x] \in Int, \A i \in I : h[i] = f[b[i]]
    PROVE  SumFunctionOnSet(h, I) = SumFunctionOnSet(f, S)
<1> DEFINE g == [u \in S |-> SumFunctionOnSet(h, {i \in I : b[i] = u})]
<1>1. SumFunctionOnSet(g, S) = SumFunctionOnSet(h, I)
    BY SumByKey
<1>2. ASSUME NEW u \in S PROVE g[u] = f[u]
  <2>1. PICK i \in I : b[i] = u
      OBVIOUS
  <2>2. {j \in I : b[j] = u} = {i}
      BY <2>1
  <2>3. h[i] = f[u] /\ h[i] \in Int
      BY <2>1
  <2> QED
      BY <2>2, <2>3, SumOne
<1> HIDE DEF g
<1>3. SumFunctionOnSet(g, S) = SumFunctionOnSet(f, S)
    BY <1>2, SumCong
<1> QED
    BY <1>1, <1>3

-----------------------------------------------------------------------------
(* The split of an expense. *)

\* The total of a sequence of integers is an integer.
LEMMA TotalType ==
    ASSUME NEW s \in Seq(Int)
    PROVE  Total(s) \in Int /\ IsFiniteSet(DOMAIN s) /\ Total(s) = SumFunctionOnSet(s, DOMAIN s)
<1>1. IsFiniteSet(1..Len(s)) /\ DOMAIN s = 1..Len(s)
    BY FS_Interval
<1>2. \A i \in DOMAIN s : s[i] \in Int
    OBVIOUS
<1> QED
    BY <1>1, <1>2, SumType DEF Total, SumFunction

\* fixRemainder makes the shares add up.
LEMMA FixRemainderExact ==
    ASSUME NEW s \in Seq(Int), Len(s) > 0, NEW total \in Int
    PROVE  /\ FixRemainder(s, total) \in Seq(Int)
           /\ Len(FixRemainder(s, total)) = Len(s)
           /\ Total(FixRemainder(s, total)) = total
<1> DEFINE t == FixRemainder(s, total)
<1>1. Total(s) \in Int /\ Total(s) = SumFunctionOnSet(s, DOMAIN s) /\ IsFiniteSet(DOMAIN s)
    BY TotalType
<1>2. PICK c \in Int : c = total - Total(s)
    BY <1>1
<1>0. t = [s EXCEPT ![1] = s[1] + c]
    BY <1>2 DEF FixRemainder
<1> HIDE DEF t
<1>3. /\ 1 \in DOMAIN s /\ DOMAIN s = 1..Len(s) /\ Len(s) \in Nat /\ DOMAIN t = DOMAIN s
      /\ \A i \in DOMAIN s : s[i] \in Int /\ t[i] = IF i = 1 THEN s[i] + c ELSE s[i]
  <2>1. 1 \in DOMAIN s /\ DOMAIN s = 1..Len(s) /\ Len(s) \in Nat
      OBVIOUS
  <2>2. DOMAIN t = DOMAIN s
      BY <1>0
  <2>3. \A i \in DOMAIN s : s[i] \in Int
      OBVIOUS
  <2>4. \A i \in DOMAIN s : t[i] = IF i = 1 THEN s[i] + c ELSE s[i]
      BY <1>0, <2>1
  <2> QED
      BY <2>1, <2>2, <2>3, <2>4
<1>7. t = [i \in 1..Len(s) |-> IF i = 1 THEN s[i] + c ELSE s[i]]
    BY <1>0, <1>3
<1>8. t \in Seq(Int) /\ Len(t) = Len(s)
  <2>1. \A i \in 1..Len(s) : (IF i = 1 THEN s[i] + c ELSE s[i]) \in Int
      BY <1>3
  <2> QED
      BY <1>3, <1>7, <2>1
<1>4. SumFunctionOnSet(t, DOMAIN s) = SumFunctionOnSet(s, DOMAIN s) + c
  <2> DEFINE D == DOMAIN s
  <2>1. IsFiniteSet(D) /\ 1 \in D /\ \A i \in D : s[i] \in Int
      BY <1>1, <1>3
  <2>2. \A i \in D : t[i] = IF i = 1 THEN s[i] + c ELSE s[i]
      BY <1>3
  <2> HIDE DEF D
  <2>3. SumFunctionOnSet(t, D) = SumFunctionOnSet(s, D) + c
      BY <2>1, <2>2, SumUpdate
  <2> QED
      BY <2>3 DEF D
<1>5. Total(t) = SumFunctionOnSet(t, DOMAIN s)
    BY <1>3 DEF Total, SumFunction
<1>6. Total(t) = total
    BY <1>1, <1>2, <1>4, <1>5
<1> QED
    BY <1>8, <1>6 DEF t

\* computeShares gives the total away whatever the kind of split.
LEMMA SharesExact ==
    ASSUME NEW b \in Bills
    PROVE  LET s == ComputeShares(b.total, b.kind, b.input)
           IN  s \in Seq(Int) /\ Len(s) = Len(b.who) /\ Total(s) = b.total
<1> DEFINE s == ComputeShares(b.total, b.kind, b.input)
<1>0. /\ b.total \in Nat /\ b.input \in Seq(Nat) /\ Len(b.input) > 0 /\ Len(b.who) = Len(b.input)
      /\ b.kind \in {"equal", "custom", "percentage"} /\ Cent \in Nat \ {0}
      /\ Len(b.input) \in Nat
    BY BillsAssumption, SplitMathAssumption DEF ValidSplit
<1>1. CASE b.kind = "custom"
    BY <1>0, <1>1, BillsAssumption DEF ComputeShares, ValidSplit
<1>2. CASE b.kind = "percentage"
  <2> DEFINE q == [i \in DOMAIN b.input |-> (b.total * Rounded(b.input[i])) \div Cent]
  <2>1. ASSUME NEW i \in DOMAIN b.input PROVE (b.total * Rounded(b.input[i])) \div Cent \in Int
    <3>1. b.input[i] \in Nat
        BY <1>0
    <3>2. Rounded(b.input[i]) \in Int
        BY <3>1 DEF Rounded
    <3>3. b.total * Rounded(b.input[i]) \in Int
        BY <3>2, <1>0
    <3> QED
        BY <3>3, <1>0
  <2>2. q \in Seq(Int) /\ Len(q) = Len(b.input)
      BY <2>1, <1>0
  <2>3. s = FixRemainder(q, b.total)
      BY <1>2 DEF ComputeShares
  <2> HIDE DEF q, s
  <2> QED
      BY <2>2, <2>3, <1>0, FixRemainderExact DEF s
<1>3. CASE b.kind = "equal"
  <2> DEFINE q == [i \in DOMAIN b.input |-> b.total \div Len(b.input)]
  <2>1. b.total \div Len(b.input) \in Int
      BY <1>0
  <2>2. q \in Seq(Int) /\ Len(q) = Len(b.input)
      BY <2>1, <1>0
  <2>3. s = FixRemainder(q, b.total)
      BY <1>3 DEF ComputeShares
  <2> HIDE DEF q, s
  <2> QED
      BY <2>2, <2>3, <1>0, FixRemainderExact DEF s
<1> QED
    BY <1>0, <1>1, <1>2, <1>3

-----------------------------------------------------------------------------
(* The inductive invariant of the books. *)

\* Rows hold the split of their bill, and their ids are not given out again.
ExpensesInv ==
    /\ expense \in [Expenses -> ExpenseRow \cup {NoRow}]
    /\ used \in SUBSET Expenses /\ Rows \subseteq used
    /\ \A e \in Rows :
         LET x == expense[e]
         IN  /\ x.share = ComputeShares(x.bill.total, x.bill.kind, x.bill.input)
             /\ Len(x.status) = Len(x.bill.who)

\* A settlement is between two parties, and of a share that is there or of none.
SettlementsInv ==
    /\ settlement \in [Settlements -> SettlementRow \cup {NoRow}]
    /\ \A s \in Paid : /\ settlement[s].from # settlement[s].to
                       /\ settlement[s].of # NoRow =>
                            /\ settlement[s].of \in Rows
                            /\ settlement[s].at \in DOMAIN expense[settlement[s].of].share

\* What the checks of a request said of the row it is about.
CallSane(c) ==
    /\ c.op = "freeform" => c.from # c.to /\ c.amount =< c.read
    /\ c.op # "freeform" => c.id \in used
    /\ c.op = "delete" /\ c.id \in Rows =>
         \A i \in Others(expense[c.id]) : c.read[i] # "settled"
    /\ c.op = "settle" /\ c.id \in Rows =>
         /\ c.at \in Others(expense[c.id])
         /\ expense[c.id].share[c.at] > 0
         /\ c.read[c.at] # "settled"

\* Every request in flight holds what its handler read.
CallsInv ==
    /\ call \in [Handlers -> Call \cup {NoRow}]
    /\ \A r \in Handlers : call[r] # NoRow => CallSane(call[r])

\* The inductive invariant of the books.
LedgerInv == ExpensesInv /\ SettlementsInv /\ CallsInv

-----------------------------------------------------------------------------
\* What the invariant says of a row that is there.
LEMMA RowFacts ==
    ASSUME ExpensesInv, NEW e \in Rows
    PROVE  /\ e \in Expenses /\ e \in used /\ expense[e] \in ExpenseRow
           /\ expense[e].bill \in Bills
           /\ expense[e].share \in Seq(Int)
           /\ expense[e].status \in Seq(Statuses)
           /\ Len(expense[e].share) = Len(expense[e].bill.who)
           /\ Len(expense[e].status) = Len(expense[e].bill.who)
           /\ DOMAIN expense[e].status = DOMAIN expense[e].share
           /\ DOMAIN expense[e].bill.who = DOMAIN expense[e].share
           /\ \A i \in DOMAIN expense[e].share : expense[e].share[i] \in Int /\ expense[e].bill.who[i] \in Parties
           /\ Total(expense[e].share) = expense[e].bill.total
<1>1. e \in Expenses /\ e \in used /\ expense[e] \in ExpenseRow
    BY DEF ExpensesInv, Rows
<1>2. /\ expense[e].bill \in Bills /\ expense[e].share \in Seq(Int)
      /\ expense[e].status \in Seq(Statuses)
    BY <1>1 DEF ExpenseRow
<1>3. /\ Len(expense[e].share) = Len(expense[e].bill.who)
      /\ Total(expense[e].share) = expense[e].bill.total
      /\ Len(expense[e].status) = Len(expense[e].bill.who)
    BY <1>2, SharesExact DEF ExpensesInv
<1>4. expense[e].bill.who \in Seq(Parties)
    BY <1>2, BillsAssumption
<1> HIDE DEF Statuses
<1>5. /\ DOMAIN expense[e].status = DOMAIN expense[e].share
      /\ DOMAIN expense[e].bill.who = DOMAIN expense[e].share
    BY <1>2, <1>3, <1>4
<1>6. \A i \in DOMAIN expense[e].share : expense[e].share[i] \in Int /\ expense[e].bill.who[i] \in Parties
    BY <1>2, <1>4, <1>5
<1> QED
    BY <1>1, <1>2, <1>3, <1>5, <1>6

\* What the invariant says of a settlement that is there.
LEMMA PaidFacts ==
    ASSUME SettlementsInv, NEW s \in Paid
    PROVE  /\ s \in Settlements /\ settlement[s] \in SettlementRow
           /\ settlement[s].from \in Parties /\ settlement[s].to \in Parties
           /\ settlement[s].asset \in Assets /\ settlement[s].amount \in Nat \ {0}
           /\ settlement[s].of \in Expenses \cup {NoRow} /\ settlement[s].at \in Nat
           /\ settlement[s].freeform \in BOOLEAN
           /\ settlement[s].status \in {"pending", "confirmed", "failed"}
           /\ settlement[s].from # settlement[s].to
           /\ settlement[s].of # NoRow =>
                /\ settlement[s].of \in Rows
                /\ settlement[s].at \in DOMAIN expense[settlement[s].of].share
<1>1. s \in Settlements /\ settlement[s] \in SettlementRow
    BY DEF SettlementsInv, Paid
<1> QED
    BY <1>1 DEF SettlementsInv, SettlementRow

\* What the invariant says of a request in flight.
LEMMA CallFacts ==
    ASSUME CallsInv, NEW r \in Handlers, call[r] # NoRow
    PROVE  /\ call[r] \in Call /\ CallSane(call[r])
           /\ call[r].op \in {"delete", "settle", "freeform"}
           /\ call[r].op # "freeform" => call[r].id \in Expenses /\ call[r].read \in Seq(Statuses)
           /\ call[r].op = "settle" => call[r].at \in Nat /\ call[r].asset \in Assets
           /\ call[r].op = "freeform" =>
                /\ call[r].from \in Parties /\ call[r].to \in Parties /\ call[r].asset \in Assets
                /\ call[r].amount \in Nat \ {0} /\ call[r].read \in Int
<1>1. call[r] \in Call /\ CallSane(call[r])
    BY DEF CallsInv
<1> HIDE DEF Statuses
<1> QED
    BY <1>1 DEF Call

\* The absent row is no row.
LEMMA NoRowIsNoRow ==
    /\ \A x \in ExpenseRow : x # NoRow
    /\ \A x \in SettlementRow : x # NoRow
    /\ \A x \in Call : x # NoRow
    /\ \A x \in Expenses : x # NoRow
    BY LedgerAssumption

\* The invariant types the books.
LEMMA InvTypes == LedgerInv => LedgerTypeOK
<1> SUFFICES ASSUME LedgerInv PROVE LedgerTypeOK
    OBVIOUS
<1>1. \A e \in Rows : /\ Len(expense[e].share) = Len(expense[e].bill.who)
                      /\ Len(expense[e].status) = Len(expense[e].bill.who)
    BY RowFacts DEF LedgerInv
<1>2. \A s \in Paid : /\ settlement[s].from # settlement[s].to
                       /\ settlement[s].of # NoRow =>
                            /\ settlement[s].of \in Rows
                            /\ settlement[s].at \in DOMAIN expense[settlement[s].of].share
    BY DEF LedgerInv, SettlementsInv
<1> QED
    BY <1>1, <1>2 DEF LedgerTypeOK, LedgerInv, ExpensesInv, SettlementsInv, CallsInv

\* Empty books satisfy the invariant.
LEMMA LedgerStarts == LedgerInit => LedgerInv
    BY DEF LedgerInit, LedgerInv, ExpensesInv, SettlementsInv, CallsInv, Rows, Paid

\* Calls in flight survive a step that keeps the bills and shares of the rows.
LEMMA CallsKept ==
    ASSUME CallsInv, NEW r \in Handlers, call'[r] = call[r], call[r] # NoRow,
           used \subseteq used',
           \A d \in used : d \in Rows' => /\ d \in Rows
                                          /\ expense'[d].share = expense[d].share
                                          /\ expense'[d].bill = expense[d].bill
    PROVE  CallSane(call[r])'
<1>1. CallSane(call[r])
    BY DEF CallsInv
<1>2. ASSUME NEW d \in used, d \in Rows' PROVE Others(expense[d])' = Others(expense[d])
    BY <1>2 DEF Others
<1>3. CASE call[r].op = "freeform"
    BY <1>1, <1>3 DEF CallSane
<1>4. CASE call[r].op # "freeform"
  <2>1. call[r].id \in used
      BY <1>1, <1>4 DEF CallSane
  <2>2. CASE call[r].id \notin Rows'
      BY <1>4, <2>1, <2>2 DEF CallSane
  <2>3. CASE call[r].id \in Rows'
      BY <1>1, <1>2, <1>4, <2>1, <2>3 DEF CallSane
  <2> QED
      BY <2>2, <2>3
<1> QED
    BY <1>3, <1>4

\* Creating an expense keeps the invariant.
LEMMA CreateKeeps ==
    ASSUME LedgerInv, NEW e \in Expenses, NEW b \in Bills, CreateExpense(e, b)
    PROVE  LedgerInv'
<1> DEFINE s == ComputeShares(b.total, b.kind, b.input)
           t == [i \in DOMAIN b.who |-> IF b.who[i] = b.payer THEN "settled" ELSE "pending"]
           x == [bill |-> b, share |-> s, status |-> t]
<1>1. e \notin used /\ expense' = [expense EXCEPT ![e] = x] /\ used' = used \cup {e}
      /\ UNCHANGED <<settlement, call>>
    BY DEF CreateExpense, NextId
<1>2. s \in Seq(Int) /\ Len(s) = Len(b.who)
    BY SharesExact
<1>3. t \in Seq(Statuses) /\ Len(t) = Len(b.who)
  <2>1. b.who \in Seq(Parties)
      BY BillsAssumption
  <2>2. \A i \in DOMAIN b.who : t[i] \in Statuses
      BY DEF Statuses
  <2> HIDE DEF Statuses
  <2> QED
      BY <2>1, <2>2
<1> HIDE DEF s, t
<1>4. x \in ExpenseRow /\ x # NoRow
    BY <1>2, <1>3, NoRowIsNoRow DEF ExpenseRow
<1>5. Rows' = Rows \cup {e} /\ e \notin Rows /\ \A d \in Expenses : d # e => expense'[d] = expense[d]
    BY <1>1, <1>4 DEF Rows, LedgerInv, ExpensesInv
<1>6. expense'[e] = x
    BY <1>1 DEF LedgerInv, ExpensesInv
<1>7. ExpensesInv'
  <2>1. expense' \in [Expenses -> ExpenseRow \cup {NoRow}]
      BY <1>1, <1>4 DEF LedgerInv, ExpensesInv
  <2>2. used' \in SUBSET Expenses /\ Rows' \subseteq used'
      BY <1>1, <1>5 DEF LedgerInv, ExpensesInv
  <2>3. ASSUME NEW d \in Rows'
        PROVE  /\ expense'[d].share = ComputeShares(expense'[d].bill.total, expense'[d].bill.kind, expense'[d].bill.input)
               /\ Len(expense'[d].status) = Len(expense'[d].bill.who)
    <3>1. CASE d = e
        BY <3>1, <1>6, <1>3 DEF s
    <3>2. CASE d # e
        BY <3>2, <1>5 DEF LedgerInv, ExpensesInv, Rows
    <3> QED
        BY <3>1, <3>2
  <2> QED
      BY <2>1, <2>2, <2>3 DEF ExpensesInv
<1>8. SettlementsInv'
    BY <1>1, <1>5 DEF LedgerInv, SettlementsInv, Paid, Rows
<1>9. CallsInv'
  <2>1. \A d \in used : d \in Rows' => /\ d \in Rows
                                       /\ expense'[d].share = expense[d].share
                                       /\ expense'[d].bill = expense[d].bill
      BY <1>1, <1>5 DEF LedgerInv, ExpensesInv
  <2> QED
      BY <1>1, <2>1, CallsKept DEF LedgerInv, CallsInv
<1> QED
    BY <1>7, <1>8, <1>9 DEF LedgerInv

\* A share changes its status, and nothing else of the row changes.
LEMMA StatusChange ==
    ASSUME ExpensesInv, NEW d \in Rows, NEW i \in DOMAIN expense[d].share, NEW v \in Statuses,
           expense' = [expense EXCEPT ![d].status[i] = v], used' = used
    PROVE  /\ ExpensesInv' /\ Rows' = Rows
           /\ \A e \in Rows : /\ expense'[e].bill = expense[e].bill
                              /\ expense'[e].share = expense[e].share
                              /\ \A j \in DOMAIN expense[e].share :
                                   expense'[e].status[j] =
                                     IF e = d /\ j = i THEN v ELSE expense[e].status[j]
<1> DEFINE x == [expense[d] EXCEPT !.status = [expense[d].status EXCEPT ![i] = v]]
<1>1. expense' = [expense EXCEPT ![d] = x]
    OBVIOUS
<1>2. /\ expense[d] \in ExpenseRow /\ d \in Expenses
      /\ expense[d].status \in Seq(Statuses) /\ DOMAIN expense[d].status = DOMAIN expense[d].share
      /\ Len(expense[d].status) = Len(expense[d].bill.who)
    BY RowFacts
<1>3. /\ [expense[d].status EXCEPT ![i] = v] \in Seq(Statuses)
      /\ Len([expense[d].status EXCEPT ![i] = v]) = Len(expense[d].status)
      /\ \A j \in DOMAIN expense[d].share :
           [expense[d].status EXCEPT ![i] = v][j] = IF j = i THEN v ELSE expense[d].status[j]
  <2> HIDE DEF Statuses
  <2> QED
      BY <1>2
<1>4. /\ x \in ExpenseRow /\ x.bill = expense[d].bill /\ x.share = expense[d].share
      /\ x.status = [expense[d].status EXCEPT ![i] = v]
    BY <1>2, <1>3 DEF ExpenseRow
<1> HIDE DEF x
<1>5. /\ x # NoRow /\ expense'[d] = x
      /\ \A e \in Expenses : e # d => expense'[e] = expense[e]
    BY <1>1, <1>2, <1>4, NoRowIsNoRow DEF ExpensesInv
<1>6. Rows' = Rows
    BY <1>5 DEF Rows
<1>7. \A e \in Rows : /\ expense'[e].bill = expense[e].bill
                      /\ expense'[e].share = expense[e].share
                      /\ \A j \in DOMAIN expense[e].share :
                           expense'[e].status[j] =
                             IF e = d /\ j = i THEN v ELSE expense[e].status[j]
  <2> SUFFICES ASSUME NEW e \in Rows
               PROVE  /\ expense'[e].bill = expense[e].bill
                      /\ expense'[e].share = expense[e].share
                      /\ \A j \in DOMAIN expense[e].share :
                           expense'[e].status[j] =
                             IF e = d /\ j = i THEN v ELSE expense[e].status[j]
      OBVIOUS
  <2>1. CASE e = d
      BY <2>1, <1>5, <1>4, <1>3
  <2>2. CASE e # d
      BY <2>2, <1>5 DEF Rows
  <2> QED
      BY <2>1, <2>2
<1>8. \A e \in Rows : Len(expense'[e].status) = Len(expense'[e].bill.who)
    BY <1>2, <1>3, <1>4, <1>5 DEF Rows, ExpensesInv
<1>9. expense' \in [Expenses -> ExpenseRow \cup {NoRow}]
    BY <1>1, <1>4 DEF ExpensesInv
<1>10. ExpensesInv'
    BY <1>6, <1>7, <1>8, <1>9 DEF ExpensesInv
<1> QED
    BY <1>6, <1>7, <1>10

\* A request ends.
LEMMA CallEnds ==
    ASSUME CallsInv, NEW r \in Handlers, call' = [call EXCEPT ![r] = NoRow],
           used \subseteq used',
           \A d \in used : d \in Rows' => /\ d \in Rows
                                          /\ expense'[d].share = expense[d].share
                                          /\ expense'[d].bill = expense[d].bill
    PROVE  CallsInv'
<1>1. call' \in [Handlers -> Call \cup {NoRow}]
    BY DEF CallsInv
<1>2. ASSUME NEW q \in Handlers, call'[q] # NoRow PROVE CallSane(call[q])'
  <2>1. call'[q] = call[q]
      BY <1>2 DEF CallsInv
  <2> QED
      BY <1>2, <2>1, CallsKept
<1> QED
    BY <1>1, <1>2 DEF CallsInv

\* A request has made its checks.
LEMMA CallStarts ==
    ASSUME CallsInv, NEW r \in Handlers, NEW c \in Call, call' = [call EXCEPT ![r] = c],
           CallSane(c)', UNCHANGED <<expense, used>>
    PROVE  CallsInv'
<1>1. call' \in [Handlers -> Call \cup {NoRow}]
    BY DEF CallsInv
<1>2. ASSUME NEW q \in Handlers, call'[q] # NoRow PROVE CallSane(call[q])'
  <2>1. CASE q = r
    <3>1. call'[q] = c
        BY <2>1 DEF CallsInv
    <3> QED
        BY <3>1 DEF CallSane
  <2>2. CASE q # r
    <3>1. call'[q] = call[q] /\ CallSane(call[q])
        BY <2>2, <1>2 DEF CallsInv
    <3> QED
        BY <3>1 DEF CallSane, Rows, Others
  <2> QED
      BY <2>1, <2>2
<1> QED
    BY <1>1, <1>2 DEF CallsInv

\* The rows that are not written stay as they are.
LEMMA ExpensesKept ==
    ASSUME ExpensesInv, UNCHANGED <<expense, used>>
    PROVE  /\ ExpensesInv' /\ Rows' = Rows
           /\ \A d \in used : d \in Rows' => /\ d \in Rows
                                          /\ expense'[d].share = expense[d].share
                                          /\ expense'[d].bill = expense[d].bill
    BY DEF ExpensesInv, Rows

\* Settlements that are not written stay as they are.
LEMMA SettlementsKept ==
    ASSUME SettlementsInv, UNCHANGED settlement, Rows' = Rows,
           \A e \in Rows : expense'[e].share = expense[e].share
    PROVE  SettlementsInv'
    BY DEF SettlementsInv, Paid

\* A settlement is written.
LEMMA SettlementWritten ==
    ASSUME SettlementsInv, NEW s \in Settlements, NEW x \in SettlementRow,
           settlement' = [settlement EXCEPT ![s] = x], Rows' = Rows,
           \A e \in Rows : expense'[e].share = expense[e].share,
           x.from # x.to,
           x.of # NoRow => x.of \in Rows /\ x.at \in DOMAIN expense[x.of].share
    PROVE  SettlementsInv'
<1>1. settlement' \in [Settlements -> SettlementRow \cup {NoRow}] /\ settlement'[s] = x
    BY DEF SettlementsInv
<1>2. ASSUME NEW t \in Paid'
      PROVE  /\ settlement'[t].from # settlement'[t].to
             /\ settlement'[t].of # NoRow =>
                            /\ settlement'[t].of \in Rows'
                            /\ settlement'[t].at \in DOMAIN expense'[settlement'[t].of].share
  <2>1. CASE t = s
      BY <1>1, <2>1
  <2>2. CASE t # s
    <3>1. t \in Paid /\ settlement'[t] = settlement[t]
        BY <2>2 DEF Paid, SettlementsInv
    <3> QED
        BY <3>1 DEF SettlementsInv
  <2> QED
      BY <2>1, <2>2
<1> QED
    BY <1>1, <1>2 DEF SettlementsInv

\* The finite sets the sums run over.
LEMMA LedgerFinite ==
    /\ IsFiniteSet(Rows) /\ IsFiniteSet(Paid) /\ IsFiniteSet(Parties)
    /\ \A S \in SUBSET Rows : IsFiniteSet(S)
    /\ \A S \in SUBSET Paid : IsFiniteSet(S)
<1>1. Rows \in SUBSET Expenses /\ Paid \in SUBSET Settlements
    BY DEF Rows, Paid
<1>2. IsFiniteSet(Rows) /\ IsFiniteSet(Paid)
    BY <1>1, LedgerAssumption, FS_Subset
<1> QED
    BY <1>2, LedgerAssumption, FS_Subset

\* A part of the shares of a row has an integer sum.
LEMMA ShareSumType ==
    ASSUME ExpensesInv, NEW e \in Rows, NEW S \in SUBSET DOMAIN expense[e].share
    PROVE  IsFiniteSet(S) /\ SumFunctionOnSet(expense[e].share, S) \in Int
<1> DEFINE f == expense[e].share
<1>1. f \in Seq(Int) /\ \A i \in DOMAIN f : f[i] \in Int
    BY RowFacts
<1>2. IsFiniteSet(DOMAIN f)
    BY <1>1, TotalType
<1>3. IsFiniteSet(S)
    BY <1>2, FS_Subset
<1> HIDE DEF f
<1>4. SumFunctionOnSet(f, S) \in Int
    BY <1>1, <1>3, SumType DEF f
<1> QED
    BY <1>3, <1>4 DEF f

\* What one party owes another is an integer.
LEMMA OwedType ==
    ASSUME ExpensesInv, NEW from, NEW to
    PROVE  Owed(from, to) \in Int
<1> DEFINE f == [e \in Rows |-> SumFunctionOnSet(expense[e].share, OwedBy(expense[e], from))]
           S == {e \in Rows : expense[e].bill.payer = to}
<1>1. ASSUME NEW e \in Rows PROVE f[e] \in Int
  <2>1. OwedBy(expense[e], from) \in SUBSET DOMAIN expense[e].share
      BY DEF OwedBy, Unsettled, Others
  <2> QED
      BY <2>1, ShareSumType
<1>2. IsFiniteSet(S)
    BY LedgerFinite
<1>3. \A e \in S : f[e] \in Int
    BY <1>1
<1> HIDE DEF f, S
<1>4. SumFunctionOnSet(f, S) \in Int
    BY <1>2, <1>3, SumType
<1> QED
    BY <1>4 DEF Owed, f, S

\* What one party has sent another is an integer.
LEMMA MovedType ==
    ASSUME SettlementsInv, NEW from, NEW to, NEW st
    PROVE  Moved(from, to, st) \in Int
<1> DEFINE f == [s \in Paid |-> settlement[s].amount]
           S == {s \in Paid : /\ settlement[s].from = from /\ settlement[s].to = to
                              /\ settlement[s].status \in st}
<1>1. \A s \in S : f[s] \in Int
    BY PaidFacts
<1>2. IsFiniteSet(S)
    BY LedgerFinite
<1> HIDE DEF f, S
<1>4. SumFunctionOnSet(f, S) \in Int
    BY <1>2, <1>1, SumType
<1> QED
    BY <1>4 DEF Moved, f, S

\* The checks of a deletion keep the invariant.
LEMMA DeleteCheckKeeps ==
    ASSUME LedgerInv, NEW r \in Handlers, NEW e \in Expenses, DeleteCheck(r, e)
    PROVE  LedgerInv'
<1>0. PICK c : c = [op |-> "delete", id |-> e, read |-> expense[e].status]
    OBVIOUS
<1>1. /\ e \in Rows /\ ~HasSettled(expense[e]) /\ call' = [call EXCEPT ![r] = c]
      /\ UNCHANGED <<expense, used, settlement>>
    BY <1>0 DEF DeleteCheck
<1>2. ExpensesInv /\ SettlementsInv /\ CallsInv
    BY DEF LedgerInv
<1>3. expense[e].status \in Seq(Statuses) /\ e \in used
    BY <1>1, <1>2, RowFacts
<1>4. c \in Call
  <2> HIDE DEF Statuses
  <2> QED
      BY <1>0, <1>3 DEF Call
<1>5. CallSane(c)'
    BY <1>0, <1>1, <1>3 DEF CallSane, Rows, Others, HasSettled
<1>6. CallsInv'
    BY <1>1, <1>2, <1>4, <1>5, CallStarts
<1> QED
    BY <1>1, <1>2, <1>6, ExpensesKept, SettlementsKept DEF LedgerInv

\* Deleting an expense keeps the invariant: its settlements lose the link.
LEMMA DeleteKeeps ==
    ASSUME LedgerInv, NEW r \in Handlers, DeleteExpense(r)
    PROVE  LedgerInv'
<1> DEFINE e == call[r].id
<1>1. /\ e \in Rows /\ expense' = [expense EXCEPT ![e] = NoRow] /\ used' = used
      /\ call' = [call EXCEPT ![r] = NoRow]
      /\ settlement' = [s \in Settlements |->
           IF s \in Paid /\ settlement[s].of = e
             THEN [settlement[s] EXCEPT !.of = NoRow] ELSE settlement[s]]
    BY DEF DeleteExpense
<1>2. ExpensesInv /\ SettlementsInv /\ CallsInv
    BY DEF LedgerInv
<1> HIDE DEF e
<1>3. /\ expense' \in [Expenses -> ExpenseRow \cup {NoRow}]
      /\ Rows' = Rows \ {e} /\ \A d \in Rows' : expense'[d] = expense[d]
    BY <1>1, <1>2 DEF ExpensesInv, Rows
<1>4. ExpensesInv'
    BY <1>1, <1>2, <1>3 DEF ExpensesInv
<1>5. SettlementsInv'
  <2>1. ASSUME NEW s \in Settlements
        PROVE  /\ settlement'[s] \in SettlementRow \cup {NoRow}
               /\ s \in Paid' => /\ settlement'[s].from # settlement'[s].to
                                 /\ settlement'[s].of # NoRow =>
                                      /\ settlement'[s].of \in Rows'
                                      /\ settlement'[s].at \in DOMAIN expense'[settlement'[s].of].share
    <3>1. CASE s \in Paid /\ settlement[s].of = e
      <4>1. settlement'[s] = [settlement[s] EXCEPT !.of = NoRow]
          BY <1>1, <3>1
      <4>2. settlement[s] \in SettlementRow /\ settlement[s].from # settlement[s].to
          BY <1>2, <3>1, PaidFacts
      <4>3. /\ [settlement[s] EXCEPT !.of = NoRow] \in SettlementRow
            /\ [settlement[s] EXCEPT !.of = NoRow].of = NoRow
            /\ [settlement[s] EXCEPT !.of = NoRow].from = settlement[s].from
            /\ [settlement[s] EXCEPT !.of = NoRow].to = settlement[s].to
          BY <4>2 DEF SettlementRow
      <4> QED
          BY <4>1, <4>2, <4>3
    <3>2. CASE ~(s \in Paid /\ settlement[s].of = e)
      <4>1. settlement'[s] = settlement[s] /\ (s \in Paid' => s \in Paid)
          BY <1>1, <3>2 DEF Paid
      <4> QED
          BY <4>1, <3>2, <1>2, <1>3 DEF SettlementsInv
    <3> QED
        BY <3>1, <3>2
  <2>2. settlement' \in [Settlements -> SettlementRow \cup {NoRow}]
      BY <1>1, <2>1
  <2> QED
      BY <2>1, <2>2 DEF SettlementsInv, Paid
<1>6. CallsInv'
    BY <1>1, <1>2, <1>3, CallEnds
<1> QED
    BY <1>4, <1>5, <1>6 DEF LedgerInv

\* A write the database refuses keeps the invariant.
LEMMA WriteFailsKeeps ==
    ASSUME LedgerInv, NEW r \in Handlers, WriteFails(r)
    PROVE  LedgerInv'
<1>1. ExpensesInv /\ SettlementsInv /\ CallsInv
    BY DEF LedgerInv
<1>2. call' = [call EXCEPT ![r] = NoRow] /\ UNCHANGED <<expense, used, settlement>>
    BY DEF WriteFails
<1>3. CallsInv'
    BY <1>1, <1>2, ExpensesKept, CallEnds
<1> QED
    BY <1>1, <1>2, <1>3, ExpensesKept, SettlementsKept DEF LedgerInv

\* The checks of a share's settlement keep the invariant.
LEMMA SettleCheckKeeps ==
    ASSUME LedgerInv, NEW r \in Handlers, NEW e \in Rows, NEW a \in Assets,
           NEW i \in DOMAIN expense[e].share, SettleCheck(r, e, i, a)
    PROVE  LedgerInv'
<1>0. PICK c : c = [op |-> "settle", id |-> e, at |-> i, asset |-> a, read |-> expense[e].status]
    OBVIOUS
<1>1. /\ i \in Others(expense[e]) /\ expense[e].status[i] # "settled" /\ expense[e].share[i] > 0
      /\ call' = [call EXCEPT ![r] = c] /\ UNCHANGED <<expense, used, settlement>>
    BY <1>0 DEF SettleCheck
<1>2. ExpensesInv /\ SettlementsInv /\ CallsInv
    BY DEF LedgerInv
<1>3. expense[e].status \in Seq(Statuses) /\ e \in used /\ e \in Expenses /\ i \in Nat
    <2>1. expense[e].status \in Seq(Statuses) /\ e \in used /\ e \in Expenses /\ expense[e].share \in Seq(Int)
        BY <1>2, RowFacts
    <2>2. i \in Nat
        BY <2>1
    <2> QED
        BY <2>1, <2>2
<1>4. c \in Call
  <2> HIDE DEF Statuses
  <2> QED
      BY <1>0, <1>3 DEF Call
<1>5. CallSane(c)'
    BY <1>0, <1>1, <1>3 DEF CallSane, Rows, Others
<1>6. CallsInv'
    BY <1>1, <1>2, <1>4, <1>5, CallStarts
<1> QED
    BY <1>1, <1>2, <1>6, ExpensesKept, SettlementsKept DEF LedgerInv

\* What writing the settlement of a share does.
LEMMA SettleFacts ==
    ASSUME LedgerInv, NEW r \in Handlers, NEW s \in Settlements, SettleShare(r, s)
    PROVE  LET e == call[r].id
               i == call[r].at
           IN  /\ e \in Rows /\ i \in DOMAIN expense[e].share /\ i \in Others(expense[e])
               /\ expense[e].share[i] > 0 /\ expense[e].bill.who[i] # expense[e].bill.payer
               /\ call[r].read[i] # "settled" /\ i \in Nat /\ call[r].asset \in Assets
<1>1. call[r] # NoRow /\ call[r].op = "settle" /\ call[r].id \in Rows /\ CallsInv
    BY DEF SettleShare, LedgerInv
<1> QED
    BY <1>1, CallFacts DEF CallSane, Others

\* Settling a share keeps the invariant.
LEMMA SettleShareKeeps ==
    ASSUME LedgerInv, NEW r \in Handlers, NEW s \in Settlements, SettleShare(r, s)
    PROVE  LedgerInv'
<1> DEFINE e == call[r].id
           i == call[r].at
           x == [from |-> expense[e].bill.who[i], to |-> expense[e].bill.payer, asset |-> call[r].asset,
                 amount |-> expense[e].share[i], of |-> e, at |-> i,
                 freeform |-> FALSE, status |-> "pending"]
<1>1. /\ settlement' = [settlement EXCEPT ![s] = x]
      /\ expense' = [expense EXCEPT ![e].status[i] = "settling"]
      /\ call' = [call EXCEPT ![r] = NoRow] /\ used' = used
    BY DEF SettleShare
<1>2. ExpensesInv /\ SettlementsInv /\ CallsInv
    BY DEF LedgerInv
<1>3. /\ e \in Rows /\ i \in DOMAIN expense[e].share /\ expense[e].share[i] > 0
      /\ expense[e].bill.who[i] # expense[e].bill.payer /\ i \in Nat /\ call[r].asset \in Assets
    BY SettleFacts
<1>4. x \in SettlementRow /\ x.from # x.to /\ x.of = e /\ x.at = i
  <2>1. /\ expense[e].bill \in Bills /\ expense[e].bill.who[i] \in Parties
        /\ expense[e].share[i] \in Int /\ e \in Expenses
      BY <1>2, <1>3, RowFacts
  <2>2. expense[e].bill.payer \in Parties
      BY <2>1, BillsAssumption
  <2> QED
      BY <1>3, <2>1, <2>2 DEF SettlementRow
<1> HIDE DEF x, e, i
<1>5. /\ ExpensesInv' /\ Rows' = Rows
      /\ \A d \in Rows : /\ expense'[d].bill = expense[d].bill
                         /\ expense'[d].share = expense[d].share
  <2>1. "settling" \in Statuses
      BY DEF Statuses
  <2> QED
      BY <2>1, <1>1, <1>2, <1>3, StatusChange
<1>6. SettlementsInv'
    BY <1>1, <1>2, <1>3, <1>4, <1>5, SettlementWritten
<1>7. CallsInv'
    BY <1>1, <1>2, <1>5, CallEnds
<1> QED
    BY <1>5, <1>6, <1>7 DEF LedgerInv

\* The checks of a freeform settlement keep the invariant.
LEMMA FreeformCheckKeeps ==
    ASSUME LedgerInv, NEW r \in Handlers, NEW from \in Parties, NEW to \in Parties,
           NEW a \in Assets, NEW n \in Amounts, FreeformCheck(r, from, to, a, n)
    PROVE  LedgerInv'
<1>0. PICK c : c = [op |-> "freeform", from |-> from, to |-> to, asset |-> a,
                    amount |-> n, read |-> Debt(from, to)]
    OBVIOUS
<1>1. /\ from # to /\ n =< Debt(from, to)
      /\ call' = [call EXCEPT ![r] = c] /\ UNCHANGED <<expense, used, settlement>>
    BY <1>0 DEF FreeformCheck
<1>2. ExpensesInv /\ SettlementsInv /\ CallsInv
    BY DEF LedgerInv
<1>3. Debt(from, to) \in Int
  <2>1. Owed(from, to) \in Int /\ Owed(to, from) \in Int
      BY <1>2, OwedType
  <2>2. /\ Moved(from, to, {"pending", "confirmed"}) \in Int
        /\ Moved(to, from, {"pending", "confirmed"}) \in Int
      BY <1>2, MovedType
  <2> QED
      BY <2>1, <2>2 DEF Debt
<1>4. c \in Call
    BY <1>0, <1>3, LedgerAssumption DEF Call
<1>5. c.op = "freeform" /\ c.from # c.to /\ c.amount =< c.read
    BY <1>0, <1>1
<1>6. CallSane(c)'
    BY <1>5 DEF CallSane
<1>7. CallsInv'
    BY <1>1, <1>2, <1>4, <1>6, CallStarts
<1> QED
    BY <1>1, <1>2, <1>7, ExpensesKept, SettlementsKept DEF LedgerInv

\* Writing a freeform settlement keeps the invariant.
LEMMA FreeformCreateKeeps ==
    ASSUME LedgerInv, NEW r \in Handlers, NEW s \in Settlements, FreeformCreate(r, s)
    PROVE  LedgerInv'
<1> DEFINE x == [from |-> call[r].from, to |-> call[r].to, asset |-> call[r].asset, amount |-> call[r].amount,
                 of |-> NoRow, at |-> 0, freeform |-> TRUE, status |-> "pending"]
<1>1. /\ call[r] # NoRow /\ call[r].op = "freeform"
      /\ settlement' = [settlement EXCEPT ![s] = x]
      /\ call' = [call EXCEPT ![r] = NoRow] /\ UNCHANGED <<expense, used>>
    BY DEF FreeformCreate
<1>2. ExpensesInv /\ SettlementsInv /\ CallsInv
    BY DEF LedgerInv
<1>3. x \in SettlementRow /\ x.from # x.to /\ x.of = NoRow
  <2>1. /\ call[r].from \in Parties /\ call[r].to \in Parties /\ call[r].asset \in Assets
        /\ call[r].amount \in Nat \ {0} /\ call[r].from # call[r].to
      BY <1>1, <1>2, CallFacts DEF CallSane
  <2> QED
      BY <2>1 DEF SettlementRow
<1> HIDE DEF x
<1>4. ExpensesInv' /\ Rows' = Rows /\ \A e \in Rows : expense'[e].share = expense[e].share
    BY <1>1, <1>2, ExpensesKept
<1>5. SettlementsInv'
    BY <1>1, <1>2, <1>3, <1>4, SettlementWritten
<1>6. CallsInv'
    BY <1>1, <1>2, ExpensesKept, CallEnds
<1> QED
    BY <1>4, <1>5, <1>6 DEF LedgerInv

\* The outcome of a settlement is written on its row.
LEMMA OutcomeWritten ==
    ASSUME SettlementsInv, NEW s \in Paid, NEW v \in {"confirmed", "failed"}
    PROVE  LET x == [settlement[s] EXCEPT !.status = v]
           IN  /\ x \in SettlementRow /\ x.from # x.to /\ x.of = settlement[s].of /\ x.at = settlement[s].at
               /\ x.of # NoRow => x.of \in Rows /\ x.at \in DOMAIN expense[x.of].share
<1>1. /\ settlement[s] \in SettlementRow /\ settlement[s].from # settlement[s].to
      /\ settlement[s].of # NoRow =>
           /\ settlement[s].of \in Rows
           /\ settlement[s].at \in DOMAIN expense[settlement[s].of].share
    BY PaidFacts
<1>2. LET x == [settlement[s] EXCEPT !.status = v]
      IN  x \in SettlementRow /\ x.from = settlement[s].from /\ x.to = settlement[s].to
          /\ x.of = settlement[s].of /\ x.at = settlement[s].at
    BY <1>1 DEF SettlementRow
<1> QED
    BY <1>1, <1>2

\* A confirmed settlement keeps the invariant.
LEMMA ConfirmKeeps ==
    ASSUME LedgerInv, NEW s \in Settlements, Confirm(s)
    PROVE  LedgerInv'
<1> DEFINE x == [settlement[s] EXCEPT !.status = "confirmed"]
<1>1. /\ s \in Paid /\ settlement' = [settlement EXCEPT ![s] = x]
      /\ expense' = IF settlement[s].of = NoRow THEN expense
                    ELSE [expense EXCEPT ![settlement[s].of].status[settlement[s].at] = "settled"]
      /\ UNCHANGED <<used, call>>
    BY DEF Confirm
<1>2. ExpensesInv /\ SettlementsInv /\ CallsInv
    BY DEF LedgerInv
<1>3. /\ x \in SettlementRow /\ x.from # x.to /\ x.of = settlement[s].of /\ x.at = settlement[s].at
      /\ x.of # NoRow => x.of \in Rows /\ x.at \in DOMAIN expense[x.of].share
    BY <1>1, <1>2, OutcomeWritten
<1> HIDE DEF x
<1>4. /\ ExpensesInv' /\ Rows' = Rows
      /\ \A e \in Rows : expense'[e].share = expense[e].share /\ expense'[e].bill = expense[e].bill
  <2>1. CASE settlement[s].of = NoRow
      BY <1>1, <1>2, <2>1, ExpensesKept
  <2>2. CASE settlement[s].of # NoRow
    <3>1. "settled" \in Statuses
        BY DEF Statuses
    <3>2. settlement[s].of \in Rows /\ settlement[s].at \in DOMAIN expense[settlement[s].of].share
        BY <1>3, <2>2
    <3>3. expense' = [expense EXCEPT ![settlement[s].of].status[settlement[s].at] = "settled"]
        BY <1>1, <2>2
    <3> QED
        BY <1>1, <1>2, <3>1, <3>2, <3>3, StatusChange
  <2> QED
      BY <2>1, <2>2
<1>5. SettlementsInv'
    BY <1>1, <1>2, <1>3, <1>4, SettlementWritten
<1>6. CallsInv'
    BY <1>1, <1>2, <1>4, CallsKept DEF CallsInv
<1> QED
    BY <1>4, <1>5, <1>6 DEF LedgerInv

\* A failed settlement keeps the invariant.
LEMMA FailKeeps ==
    ASSUME LedgerInv, NEW s \in Settlements, Fail(s)
    PROVE  LedgerInv'
<1> DEFINE x == [settlement[s] EXCEPT !.status = "failed"]
<1>1. /\ s \in Paid /\ settlement' = [settlement EXCEPT ![s] = x] /\ UNCHANGED <<expense, used, call>>
    BY DEF Fail
<1>2. ExpensesInv /\ SettlementsInv /\ CallsInv
    BY DEF LedgerInv
<1>3. /\ x \in SettlementRow /\ x.from # x.to
      /\ x.of # NoRow => x.of \in Rows /\ x.at \in DOMAIN expense[x.of].share
    BY <1>1, <1>2, OutcomeWritten
<1> HIDE DEF x
<1>4. ExpensesInv' /\ Rows' = Rows /\ \A e \in Rows : expense'[e].share = expense[e].share
    BY <1>1, <1>2, ExpensesKept
<1>5. SettlementsInv'
    BY <1>1, <1>2, <1>3, <1>4, SettlementWritten
<1>6. CallsInv'
    BY <1>1, <1>2, ExpensesKept, CallsKept DEF CallsInv
<1> QED
    BY <1>4, <1>5, <1>6 DEF LedgerInv

\* Which steps the specification takes, one disjunct each.
LEMMA LedgerSteps ==
    ASSUME LedgerNext
    PROVE  \/ \E e \in Expenses, b \in Bills : CreateExpense(e, b)
           \/ \E r \in Handlers, e \in Expenses : DeleteCheck(r, e)
           \/ \E r \in Handlers : DeleteExpense(r)
           \/ \E r \in Handlers : WriteFails(r)
           \/ \E r \in Handlers, e \in Rows, a \in Assets :
                \E i \in DOMAIN expense[e].share : SettleCheck(r, e, i, a)
           \/ \E r \in Handlers, s \in Settlements : SettleShare(r, s)
           \/ \E r \in Handlers, s \in Settlements : FreeformCreate(r, s)
           \/ \E r \in Handlers, f, t \in Parties, a \in Assets, n \in Amounts : FreeformCheck(r, f, t, a, n)
           \/ \E s \in Settlements : Confirm(s)
           \/ \E s \in Settlements : Fail(s)
    BY DEF LedgerNext

\* Every step keeps the invariant.
LEMMA LedgerStep == LedgerInv /\ [LedgerNext]_ledgerVars => LedgerInv'
<1> SUFFICES ASSUME LedgerInv, [LedgerNext]_ledgerVars PROVE LedgerInv'
    OBVIOUS
<1>1. CASE LedgerNext
    BY <1>1, LedgerSteps, CreateKeeps, DeleteCheckKeeps, DeleteKeeps, WriteFailsKeeps,
       SettleCheckKeeps, SettleShareKeeps, FreeformCreateKeeps, FreeformCheckKeeps,
       ConfirmKeeps, FailKeeps
<1>2. CASE UNCHANGED ledgerVars
    <2>1. UNCHANGED <<expense, used>> /\ UNCHANGED settlement /\ UNCHANGED call
        BY <1>2 DEF ledgerVars
    <2>2. ExpensesInv /\ SettlementsInv /\ CallsInv
        BY DEF LedgerInv
    <2>3. CallsInv'
        BY <2>1, <2>2, ExpensesKept, CallsKept DEF CallsInv
    <2> QED
        BY <2>1, <2>2, <2>3, ExpensesKept, SettlementsKept DEF LedgerInv
<1> QED
    BY <1>1, <1>2

\* The invariant holds of every reachable state of the books.
LEMMA LedgerInvHolds == LedgerSpec => []LedgerInv
<1>1. LedgerInit => LedgerInv
    BY LedgerStarts
<1>2. LedgerInv /\ [LedgerNext]_ledgerVars => LedgerInv'
    BY LedgerStep
<1> QED
    BY <1>1, <1>2, PTL DEF LedgerSpec

(* Every row a ledger route writes, and every request in flight, has the      *)
(* shape the code reads back: expenses with as many shares and statuses as    *)
(* participants, settlements that name live rows or none (the cascade of      *)
(* deleting an expense included).                                             *)
THEOREM LedgerTypes == LedgerSpec => []LedgerTypeOK
<1>1. LedgerInv => LedgerTypeOK
    BY InvTypes
<1> QED
    BY <1>1, LedgerInvHolds, PTL

-----------------------------------------------------------------------------
(* The two races of the books. *)

\* What a status update makes of the rows, and of one share.
StatusSet(d, j, v) == [expense EXCEPT ![d].status[j] = v]

\* A status update changes one share of one row.
LEMMA OneStatus ==
    ASSUME ExpensesInv, used' = used,
           NEW d \in Rows, NEW j \in DOMAIN expense[d].share, NEW v \in Statuses,
           expense' = StatusSet(d, j, v),
           NEW e \in Rows, NEW i \in DOMAIN expense[e].share
    PROVE  Rows' = Rows /\ expense'[e].status[i] = IF e = d /\ i = j THEN v ELSE expense[e].status[i]
<1>0. expense' = [expense EXCEPT ![d].status[j] = v]
    BY DEF StatusSet
<1>1. Rows' = Rows
    BY <1>0, StatusChange
<1>2. e \in Expenses /\ e \in DOMAIN expense
    BY DEF ExpensesInv, Rows
<1>3. expense[e] \in ExpenseRow /\ DOMAIN expense[e].status = DOMAIN expense[e].share
    BY RowFacts
<1>4. CASE e # d
    BY <1>0, <1>1, <1>2, <1>4
<1>5. CASE e = d
  <2>1. expense'[e] = [expense[e] EXCEPT !.status[j] = v]
      BY <1>0, <1>2, <1>5
  <2>2. expense'[e].status = [expense[e].status EXCEPT ![j] = v]
      BY <2>1, <1>3 DEF ExpenseRow
  <2> QED
      BY <2>2, <1>1, <1>3, <1>5
<1> QED
    BY <1>4, <1>5

\* A paid share and the step that loses it.
LEMMA PaidShareStep ==
    ASSUME LedgerInv, LedgerNext, NEW e \in Rows, NEW i \in Others(expense[e]),
           expense[e].status[i] = "settled",
           expense'[e] = NoRow \/ expense'[e].status[i] # "settled"
    PROVE  \E r \in Handlers : /\ call[r] # NoRow /\ call'[r] = NoRow
                               /\ call[r].op # "freeform" /\ call[r].id = e
                               /\ call[r].read[i] # "settled"
<1>0. ExpensesInv /\ SettlementsInv /\ CallsInv
    BY DEF LedgerInv
<1>1. /\ expense'[e] # expense[e] /\ e \in used /\ expense[e] # NoRow
      /\ i \in DOMAIN expense[e].share
    BY <1>0, RowFacts DEF Others, Rows
<1>2. ASSUME NEW d \in Expenses, NEW b \in Bills, CreateExpense(d, b) PROVE FALSE
  <2>1. d \notin used /\ \E x : expense' = [expense EXCEPT ![d] = x]
      BY <1>2 DEF CreateExpense, NextId
  <2> QED
      BY <2>1, <1>1
<1>3. ASSUME NEW r \in Handlers, DeleteExpense(r)
      PROVE  /\ call[r] # NoRow /\ call'[r] = NoRow
             /\ call[r].op # "freeform" /\ call[r].id = e
             /\ call[r].read[i] # "settled"
  <2>1. /\ call[r] # NoRow /\ call[r].op = "delete" /\ call[r].id \in Rows
        /\ expense' = [expense EXCEPT ![call[r].id] = NoRow] /\ call' = [call EXCEPT ![r] = NoRow]
      BY <1>3 DEF DeleteExpense
  <2>2. call[r].id = e /\ call'[r] = NoRow
      BY <2>1, <1>1, <1>0 DEF CallsInv
  <2>3. CallSane(call[r])
      BY <2>1, <1>0 DEF CallsInv
  <2> QED
      BY <2>1, <2>2, <2>3 DEF CallSane
<1>4. ASSUME NEW r \in Handlers, NEW s \in Settlements, SettleShare(r, s)
      PROVE  /\ call[r] # NoRow /\ call'[r] = NoRow
             /\ call[r].op # "freeform" /\ call[r].id = e
             /\ call[r].read[i] # "settled"
  <2>1. /\ call[r] # NoRow /\ call[r].op = "settle" /\ used' = used
        /\ expense' = [expense EXCEPT ![call[r].id].status[call[r].at] = "settling"]
        /\ call' = [call EXCEPT ![r] = NoRow]
      BY <1>4 DEF SettleShare
  <2>2. /\ call[r].id \in Rows /\ call[r].at \in DOMAIN expense[call[r].id].share
        /\ call[r].read[call[r].at] # "settled"
      BY <1>4, SettleFacts
  <2>3. "settling" \in Statuses
      BY DEF Statuses
  <2> DEFINE d == call[r].id
             j == call[r].at
  <2> HIDE DEF d, j
  <2>7. d \in Rows /\ j \in DOMAIN expense[d].share /\ expense' = StatusSet(d, j, "settling")
      BY <2>1, <2>2 DEF d, j, StatusSet
  <2>4. /\ Rows' = Rows
        /\ expense'[e].status[i] =
             IF e = d /\ i = j THEN "settling" ELSE expense[e].status[i]
      BY <2>1, <2>7, <2>3, <1>0, <1>1, OneStatus
  <2>5. e = call[r].id /\ i = call[r].at
      BY <2>4 DEF Rows, d, j
  <2>6. call'[r] = NoRow
      BY <2>1, <1>0 DEF CallsInv
  <2> QED
      BY <2>1, <2>2, <2>5, <2>6
<1>5. ASSUME NEW s \in Settlements, Confirm(s) PROVE FALSE
  <2>1. /\ s \in Paid /\ used' = used
        /\ expense' = IF settlement[s].of = NoRow THEN expense
                      ELSE [expense EXCEPT ![settlement[s].of].status[settlement[s].at] = "settled"]
      BY <1>5 DEF Confirm
  <2>2. settlement[s].of # NoRow
      BY <2>1, <1>1
  <2>3. settlement[s].of \in Rows /\ settlement[s].at \in DOMAIN expense[settlement[s].of].share
      BY <2>1, <2>2, <1>0, PaidFacts
  <2>4. "settled" \in Statuses
      BY DEF Statuses
  <2> DEFINE d == settlement[s].of
             j == settlement[s].at
  <2> HIDE DEF d, j
  <2>5. /\ d \in Rows /\ j \in DOMAIN expense[d].share
        /\ expense' = StatusSet(d, j, "settled")
      BY <2>1, <2>2, <2>3 DEF d, j, StatusSet
  <2>6. /\ Rows' = Rows
        /\ expense'[e].status[i] =
             IF e = d /\ i = j THEN "settled" ELSE expense[e].status[i]
      BY <2>1, <2>4, <2>5, <1>0, <1>1, OneStatus
  <2> QED
      BY <2>6 DEF Rows
<1>6. CASE UNCHANGED expense
    BY <1>6, <1>1
<1>7. \/ UNCHANGED expense
      \/ \E d \in Expenses, b \in Bills : CreateExpense(d, b)
      \/ \E r \in Handlers : DeleteExpense(r)
      \/ \E r \in Handlers, s \in Settlements : SettleShare(r, s)
      \/ \E s \in Settlements : Confirm(s)
    BY LedgerSteps DEF DeleteCheck, WriteFails, SettleCheck, FreeformCheck, FreeformCreate, Fail
<1> QED
    BY <1>2, <1>3, <1>4, <1>5, <1>6, <1>7

(* A share that is settled goes back, or its expense is deleted, only in a    *)
(* request that read it before it was settled: the delete handler's and the   *)
(* settle handler's checks are made before their writes, never within them.   *)
THEOREM PaidSharesAreLostToRaces == LedgerSpec => PaidShareLostOnlyToRace
<1> DEFINE A == \A e \in Rows : \A i \in Others(expense[e]) :
         /\ expense[e].status[i] = "settled"
         /\ expense'[e] = NoRow \/ expense'[e].status[i] # "settled"
         => \E r \in Handlers : /\ call[r] # NoRow /\ call'[r] = NoRow
                                /\ call[r].op # "freeform" /\ call[r].id = e
                                /\ call[r].read[i] # "settled"
<1>1. LedgerInv /\ [LedgerNext]_ledgerVars => [A]_ledgerVars
    BY PaidShareStep
<1>2. LedgerInv /\ [LedgerNext]_ledgerVars => LedgerInv'
    BY LedgerStep
<1>3. LedgerInit => LedgerInv
    BY LedgerStarts
<1>4. LedgerSpec => [][A]_ledgerVars
    BY <1>1, <1>2, <1>3, PTL DEF LedgerSpec
<1> QED
    BY <1>4 DEF PaidShareLostOnlyToRace

\* The rows with one written, and what that adds to what was moved.
RowWritten(s, x) == [settlement EXCEPT ![s] = x]

\* A freeform settlement adds its amount to what was moved one way.
LEMMA MovedGrows ==
    ASSUME SettlementsInv, NEW s \in Settlements \ Paid, NEW x \in SettlementRow,
           settlement' = RowWritten(s, x), NEW f, NEW t, NEW st, x.status \in st
    PROVE  Moved(f, t, st)' = Moved(f, t, st) + IF x.from = f /\ x.to = t THEN x.amount ELSE 0
<1> DEFINE m == [p \in Paid |-> settlement[p].amount]
           n == [p \in Paid' |-> settlement'[p].amount]
           S == {p \in Paid : /\ settlement[p].from = f /\ settlement[p].to = t
                              /\ settlement[p].status \in st}
           T == {p \in Paid' : /\ settlement'[p].from = f /\ settlement'[p].to = t
                               /\ settlement'[p].status \in st}
<1>1. /\ Paid' = Paid \cup {s} /\ s \notin Paid /\ settlement'[s] = x
      /\ \A p \in Paid : settlement'[p] = settlement[p]
  <2>1. x # NoRow
      BY NoRowIsNoRow
  <2> QED
      BY <2>1 DEF Paid, SettlementsInv, RowWritten
<1>2. /\ \A p \in S : m[p] \in Int /\ n[p] = m[p]
      /\ n[s] = x.amount /\ x.amount \in Int
  <2>1. \A p \in Paid : settlement[p].amount \in Int
      BY PaidFacts
  <2>2. x.amount \in Int
      BY DEF SettlementRow
  <2> QED
      BY <1>1, <2>1, <2>2
<1>3. T = (IF x.from = f /\ x.to = t THEN S \cup {s} ELSE S) /\ s \notin S
    BY <1>1
<1>4. IsFiniteSet(S)
    BY LedgerFinite
<1>5. Moved(f, t, st) = SumFunctionOnSet(m, S) /\ Moved(f, t, st)' = SumFunctionOnSet(n, T)
    BY DEF Moved
<1> HIDE DEF m, n, S, T
<1>6. SumFunctionOnSet(n, S) = SumFunctionOnSet(m, S) /\ SumFunctionOnSet(m, S) \in Int
    BY <1>2, <1>4, SumCong, SumType
<1>7. CASE x.from = f /\ x.to = t
  <2>1. SumFunctionOnSet(n, S \cup {s}) = n[s] + SumFunctionOnSet(n, S)
      BY <1>2, <1>3, <1>4, SumAdd
  <2> QED
      BY <2>1, <1>2, <1>3, <1>5, <1>6, <1>7
<1>8. CASE ~(x.from = f /\ x.to = t)
    BY <1>3, <1>5, <1>6, <1>8
<1> QED
    BY <1>7, <1>8

\* A freeform settlement and the debt it was checked against.
LEMMA OverSettlementStep ==
    ASSUME LedgerInv, LedgerNext, NEW r \in Handlers, NEW f \in Parties, NEW t \in Parties,
           call[r] # NoRow, call'[r] = NoRow, call[r].op = "freeform",
           call[r].from = f, call[r].to = t, call[r].read = Debt(f, t)
    PROVE  Owed(f, t)' + Moved(t, f, {"pending", "confirmed"})' >=
             Owed(t, f)' + Moved(f, t, {"pending", "confirmed"})'
<1> DEFINE st == {"pending", "confirmed"}
<1>0. ExpensesInv /\ SettlementsInv /\ CallsInv
    BY DEF LedgerInv
<1>1. PICK s \in Settlements : FreeformCreate(r, s)
  <2>1. ASSUME NEW q \in Handlers, call' = [call EXCEPT ![q] = NoRow] PROVE q = r
      BY <2>1, <1>0 DEF CallsInv
  <2>2. ASSUME NEW q \in Handlers, NEW c \in Call, call' = [call EXCEPT ![q] = c] PROVE FALSE
      BY <2>2, <1>0, NoRowIsNoRow DEF CallsInv
  <2>3. ~UNCHANGED call
      OBVIOUS
  <2>4. ASSUME NEW q \in Handlers, NEW e \in Expenses, DeleteCheck(q, e) PROVE FALSE
    <3>1. e \in Rows /\ call[q] = NoRow /\ \A p \in Handlers : p # q => call'[p] = call[p]
        BY <2>4, <1>0 DEF DeleteCheck, CallsInv
    <3> QED
        BY <3>1
  <2>5. ASSUME NEW q \in Handlers, NEW e \in Rows, NEW a \in Assets,
               NEW i \in DOMAIN expense[e].share, SettleCheck(q, e, i, a) PROVE FALSE
    <3>1. call[q] = NoRow /\ \A p \in Handlers : p # q => call'[p] = call[p]
        BY <2>5, <1>0 DEF SettleCheck, CallsInv
    <3> QED
        BY <3>1
  <2>6. ASSUME NEW q \in Handlers, NEW a, NEW b, NEW c, NEW d, FreeformCheck(q, a, b, c, d) PROVE FALSE
    <3>1. call[q] = NoRow /\ \A p \in Handlers : p # q => call'[p] = call[p]
        BY <2>6, <1>0 DEF FreeformCheck, CallsInv
    <3> QED
        BY <3>1
  <2>7. ASSUME NEW q \in Handlers, DeleteExpense(q) \/ WriteFails(q) PROVE FALSE
      BY <2>7, <2>1 DEF DeleteExpense, WriteFails
  <2>8. ASSUME NEW q \in Handlers, NEW s \in Settlements, SettleShare(q, s) PROVE FALSE
      BY <2>8, <2>1 DEF SettleShare
  <2>9. ASSUME NEW q \in Handlers, NEW s \in Settlements, FreeformCreate(q, s) PROVE q = r
      BY <2>9, <2>1 DEF FreeformCreate
  <2>10. ~\E e \in Expenses, b \in Bills : CreateExpense(e, b)
      BY <2>3 DEF CreateExpense
  <2>11. ~\E s \in Settlements : Confirm(s) \/ Fail(s)
      BY <2>3 DEF Confirm, Fail
  <2> QED
      BY <2>4, <2>5, <2>6, <2>7, <2>8, <2>9, <2>10, <2>11, LedgerSteps
<1> DEFINE x == [from |-> call[r].from, to |-> call[r].to, asset |-> call[r].asset, amount |-> call[r].amount,
                 of |-> NoRow, at |-> 0, freeform |-> TRUE, status |-> "pending"]
<1>2. /\ s \in Settlements \ Paid
      /\ settlement' = RowWritten(s, x) /\ UNCHANGED <<expense, used>>
    BY <1>1 DEF FreeformCreate, NextId, RowWritten
<1>3. /\ call[r].asset \in Assets /\ call[r].amount \in Nat \ {0} /\ call[r].from # call[r].to
      /\ call[r].amount =< call[r].read
    BY <1>0, CallFacts DEF CallSane
<1>4. /\ x \in SettlementRow /\ x.status \in st /\ x.from = f /\ x.to = t /\ f # t
      /\ x.amount = call[r].amount
    BY <1>3 DEF SettlementRow
<1>5. ASSUME NEW u \in Parties, NEW v \in Parties PROVE Owed(u, v)' = Owed(u, v)
  <2>1. expense' = expense
      BY <1>2
  <2> QED
      BY <2>1, Zenon DEF Owed, Rows, OwedBy, Unsettled, Others
<1> HIDE DEF x, st
<1> HIDE DEF x
<1>6. Moved(f, t, st)' = Moved(f, t, st) + call[r].amount
  <2>1. Moved(f, t, st)' = Moved(f, t, st) + IF x.from = f /\ x.to = t THEN x.amount ELSE 0
      BY <1>0, <1>2, <1>4, MovedGrows
  <2> QED
      BY <2>1, <1>4
<1>7. Moved(t, f, st)' = Moved(t, f, st) + 0
  <2>1. Moved(t, f, st)' = Moved(t, f, st) + IF x.from = t /\ x.to = f THEN x.amount ELSE 0
      BY <1>0, <1>2, <1>4, MovedGrows
  <2> QED
      BY <2>1, <1>4
<1>8. Owed(f, t) \in Int /\ Owed(t, f) \in Int /\ Moved(f, t, st) \in Int /\ Moved(t, f, st) \in Int
    BY <1>0, OwedType, MovedType
<1>9. Debt(f, t) = Owed(f, t) - Owed(t, f) - Moved(f, t, st) + Moved(t, f, st)
    BY DEF Debt, st
<1>10. Owed(f, t)' + Moved(t, f, st)' >= Owed(t, f)' + Moved(f, t, st)'
    BY <1>3, <1>5, <1>6, <1>7, <1>8, <1>9
<1> QED
    BY <1>10 DEF st

(* A freeform settlement leaves its sender having sent more than the debt     *)
(* only when the debt changed between the handler's check and its insert.     *)
THEOREM OverSettlementsAreRaces == LedgerSpec => OverSettlementNeedsRace
<1> DEFINE A == \A r \in Handlers, f, t \in Parties :
         (/\ call[r] # NoRow /\ call'[r] = NoRow
          /\ call[r].op = "freeform" /\ call[r].from = f /\ call[r].to = t
          /\ call[r].read = Debt(f, t)) =>
         Owed(f, t)' + Moved(t, f, {"pending", "confirmed"})' >=
           Owed(t, f)' + Moved(f, t, {"pending", "confirmed"})'
<1>1. LedgerInv /\ [LedgerNext]_ledgerVars => [A]_ledgerVars
    BY OverSettlementStep
<1>2. LedgerInv /\ [LedgerNext]_ledgerVars => LedgerInv'
    BY LedgerStep
<1>3. LedgerInit => LedgerInv
    BY LedgerStarts
<1>4. LedgerSpec => [][A]_ledgerVars
    BY <1>1, <1>2, <1>3, PTL DEF LedgerSpec
<1> QED
    BY <1>4 DEF OverSettlementNeedsRace

-----------------------------------------------------------------------------
(* Exact division: largest remainders, conversion and rounding. *)

\* Of a finite set in a strict order, as many have fewer than m before them.
LEMMA RankCount ==
    ASSUME NEW I, IsFiniteSet(I), NEW p \in [I -> SUBSET I],
           \A i \in I : i \notin p[i],
           \A i, j \in I : i # j => i \in p[j] \/ j \in p[i],
           \A i, j \in I : i \in p[j] => p[i] \subseteq p[j],
           NEW m \in Nat, m =< Cardinality(I)
    PROVE  Cardinality({i \in I : Cardinality(p[i]) < m}) = m
<1> DEFINE f == [i \in I |-> Cardinality(p[i])]
           n == Cardinality(I)
           E == {i \in I : f[i] < m}
<1>0. n \in Nat
    BY FS_CardinalityType
<1>1. ASSUME NEW i \in I PROVE IsFiniteSet(p[i]) /\ f[i] \in 0..n-1
  <2>1. p[i] \in SUBSET (I \ {i})
      OBVIOUS
  <2>2. IsFiniteSet(I \ {i}) /\ Cardinality(I \ {i}) = n - 1
      BY FS_RemoveElement
  <2>3. IsFiniteSet(p[i]) /\ Cardinality(p[i]) =< n - 1
      BY <2>1, <2>2, FS_Subset
  <2>4. Cardinality(p[i]) \in Nat
      BY <2>3, FS_CardinalityType
  <2> QED
      BY <2>3, <2>4, <1>0
<1>2. ASSUME NEW i \in I, NEW j \in I, i \in p[j] PROVE f[i] < f[j]
  <2>1. p[i] \in SUBSET p[j] /\ p[i] # p[j]
      BY <1>2
  <2>2. IsFiniteSet(p[j]) /\ f[i] \in Int /\ f[j] \in Int
      BY <1>1, <1>0
  <2>3. Cardinality(p[i]) =< Cardinality(p[j]) /\ Cardinality(p[i]) # Cardinality(p[j])
      BY <2>1, <2>2, FS_Subset
  <2> QED
      BY <2>2, <2>3
<1>3. ASSUME NEW i \in I, NEW j \in I, i # j PROVE f[i] # f[j]
    BY <1>1, <1>2, <1>3, <1>0
<1> HIDE DEF n
<1>4. f \in Injection(I, 0..n-1)
    BY <1>1, <1>3 DEF Injection, IsInjective
<1>5. IsFiniteSet(0..n-1) /\ Cardinality(0..n-1) = n
    BY <1>0, FS_Interval
<1>6. f \in Surjection(I, 0..n-1)
  <2> HIDE DEF f
  <2> QED
    BY <1>4, <1>5, FS_Injection DEF n
<1>7. \A k \in 0..m-1 : \E i \in E : f[i] = k
  <2>1. \A k \in 0..n-1 : \E i \in I : f[i] = k
      BY <1>6 DEF Surjection
  <2>2. \A k \in 0..m-1 : k \in 0..n-1 /\ k < m
      BY <1>0 DEF n
  <2> QED
      BY <2>1, <2>2
<1> DEFINE g == [i \in E |-> f[i]]
<1>8. ASSUME NEW i \in E PROVE f[i] \in 0..m-1
    BY <1>1, <1>0
<1>9. g \in Injection(E, 0..m-1) /\ g \in Surjection(E, 0..m-1)
  <2> HIDE DEF f, E
  <2>1. E \subseteq I
      BY DEF E
  <2> QED
      BY <1>3, <1>7, <1>8, <2>1 DEF Injection, IsInjective, Surjection
<1>10. IsFiniteSet(0..m-1) /\ Cardinality(0..m-1) = m
    BY FS_Interval
<1> HIDE DEF g, E
<1>11. Cardinality(E) = m
    BY <1>9, <1>10, FS_Injection
<1> QED
    BY <1>11 DEF E

\* A number is its quotient and its remainder.
LEMMA Division ==
    ASSUME NEW a \in Int, NEW d \in Nat \ {0}
    PROVE  \E q, r \in Int : q = a \div d /\ r = a % d /\ 0 =< r /\ r < d /\ a = d * q + r
<1>1. a \div d \in Int
    OBVIOUS
<1>2. a % d \in Int /\ 0 =< a % d /\ a % d < d
    OBVIOUS
<1>3. \A x \in Int, y \in Nat \ {0} : x % y = x - y * (x \div y)
    BY SMTT(30)
<1>4. PICK q \in Int : q = a \div d
    BY <1>1
<1>5. PICK r \in Int : r = a % d
    BY <1>2
<1>6. r = a - d * q
    BY <1>3, <1>4, <1>5
<1>7. a = d * q + r
    BY <1>6
<1>8. 0 =< r /\ r < d
    BY <1>2, <1>5, Zenon
<1> QED
    BY <1>4, <1>5, <1>7, <1>8, Zenon

\* The quotient is the largest multiple that fits.
LEMMA Quotient ==
    ASSUME NEW d \in Nat \ {0}, NEW q \in Int, NEW r \in Int, 0 =< r, r < d
    PROVE  (d * q + r) \div d = q
<1>1. PICK a \in Int : a = d * q + r
    OBVIOUS
<1>2. PICK p, v \in Int : p = a \div d /\ 0 =< v /\ v < d /\ a = d * p + v
    BY Division, Zenon
<1>3. \A x, y, s, t \in Int : d * x + s = d * y + t /\ 0 =< s /\ s < d /\ 0 =< t /\ t < d => ~(x < y)
  <2> SUFFICES ASSUME NEW x \in Int, NEW y \in Int, NEW s \in Int, NEW t \in Int,
                      d * x + s = d * y + t, 0 =< s, s < d, 0 =< t, t < d, x < y
               PROVE  FALSE
      OBVIOUS
  <2>1. y >= x + 1
      OBVIOUS
  <2>2. d * y >= d * (x + 1)
      BY <2>1
  <2>3. d * (x + 1) = d * x + d
      OBVIOUS
  <2> QED
      BY <2>2, <2>3
<1>4. d * p + v = d * q + r /\ d * q + r = d * p + v /\ 0 =< v /\ v < d
    BY <1>1, <1>2, Zenon
<1>5. ~(p < q)
    BY <1>3, <1>4
<1>6. ~(q < p)
    BY <1>3, <1>4
<1>7. p = q
    BY <1>5, <1>6
<1> QED
    BY <1>1, <1>2, <1>7, Zenon

\* Apportion, with its order and its remainders named.
Before(num, d, i) == {j \in DOMAIN num : \/ num[j] % d > num[i] % d
                                         \/ (num[j] % d = num[i] % d /\ j < i)}

\* Largest remainder: the floors plus one each for the largest remainders give the whole.
LEMMA Apportioned ==
    ASSUME NEW num \in Seq(Nat), NEW d \in Nat \ {0}, NEW target, target = Total(num) \div d
    PROVE  /\ Apportion(num, d, target) \in Seq(Int)
           /\ Len(Apportion(num, d, target)) = Len(num)
           /\ Total(Apportion(num, d, target)) = target
           /\ \A i \in DOMAIN num : Distance(Apportion(num, d, target)[i] * d, num[i]) < d
<1> DEFINE D == DOMAIN num
           base == [i \in D |-> num[i] \div d]
           rem == [i \in D |-> num[i] % d]
           B == SumFunctionOnSet(base, D)
           R == SumFunctionOnSet(rem, D)
           N == SumFunctionOnSet(num, D)
<1>0. D = 1..Len(num) /\ IsFiniteSet(D) /\ Total(num) = N /\ Total(base) = B /\ Len(num) \in Nat
  <2>1. D = 1..Len(num) /\ IsFiniteSet(1..Len(num)) /\ Len(num) \in Nat
      BY FS_Interval
  <2>2. DOMAIN base = D
      OBVIOUS
  <2> QED
      BY <2>1, <2>2 DEF Total, SumFunction
<1>1. ASSUME NEW i \in D
      PROVE  /\ base[i] \in Int /\ rem[i] \in Nat /\ rem[i] < d /\ num[i] \in Nat
             /\ num[i] = d * base[i] + rem[i]
  <2>1. num[i] \in Nat
      OBVIOUS
  <2>2. PICK q, r \in Int : q = num[i] \div d /\ r = num[i] % d /\ 0 =< r /\ r < d /\ num[i] = d * q + r
    <3>1. PICK a \in Int : a = num[i]
        BY <2>1
    <3>2. PICK q, r \in Int : q = a \div d /\ r = a % d /\ 0 =< r /\ r < d /\ a = d * q + r
        BY Division
    <3> QED
        BY <3>1, <3>2, Zenon
  <2>3. base[i] = q /\ rem[i] = r
      BY <2>2
  <2>4. r \in Nat
      BY <2>2
  <2> HIDE DEF base, rem, D
  <2> QED
      BY <2>1, <2>2, <2>3, <2>4, Zenon
<1>f. IsFiniteSet(D)
    BY <1>0
<1>p. \A i \in D : rem[i] = num[i] % d
    OBVIOUS
<1>q. DOMAIN base = D /\ DOMAIN rem = D
    OBVIOUS
<1> HIDE DEF base, rem, D
<1>2. B \in Int /\ R \in Nat /\ N \in Int /\ N = d * B + R
  <2> DEFINE db == [i \in D |-> d * base[i]]
  <2>1. B \in Int /\ R \in Nat /\ N \in Int
    <3>1. (\A i \in D : base[i] \in Int) /\ (\A i \in D : rem[i] \in Nat) /\ (\A i \in D : num[i] \in Int)
        BY <1>1
    <3>2. B \in Int
        BY <3>1, <1>0, SumType
    <3>3. R \in Nat
        BY <3>1, <1>0, SumNat
    <3>4. N \in Int
        BY <3>1, <1>0, SumType
    <3> QED
        BY <3>2, <3>3, <3>4
  <2>2. \A i \in D : db[i] \in Int /\ db[i] = d * base[i]
      BY <1>1
  <2> HIDE DEF db
  <2>3. SumFunctionOnSet(db, D) = d * B
      BY <1>0, <1>1, <2>2, SumTimes
  <2>4. \A i \in D : num[i] = db[i] + rem[i]
      BY <1>1, <2>2, Zenon
  <2>5. N = SumFunctionOnSet(db, D) + R
      BY <1>0, <1>1, <2>2, <2>4, SumPlus
  <2> QED
      BY <2>1, <2>3, <2>5, Zenon
<1> HIDE DEF B, R, N
<1>3. PICK m, r \in Int : 0 =< r /\ r < d /\ R = d * m + r
  <2>1. PICK a \in Int : a = R
      BY <1>2
  <2>2. PICK m, r \in Int : 0 =< r /\ r < d /\ a = d * m + r
      BY Division
  <2> QED
      BY <2>1, <2>2, Zenon
<1>4. m \in Nat /\ target = B + m
  <2>1. m \in Nat
    <3> SUFFICES ASSUME m =< -1 PROVE FALSE
        OBVIOUS
    <3>1. d * m =< d * (-1)
        OBVIOUS
    <3> QED
        BY <3>1, <1>2, <1>3
  <2>2. N = d * (B + m) + r
    <3>1. d * (B + m) = d * B + d * m
        BY <1>2
    <3> QED
        BY <3>1, <1>2, <1>3
  <2>3. N \div d = B + m
    <3>1. PICK q \in Int : q = B + m
        BY <1>2
    <3>2. (d * q + r) \div d = q
        BY <1>3, Quotient
    <3> QED
        BY <2>2, <3>1, <3>2, Zenon
  <2> QED
      BY <2>1, <2>3, <1>0, Zenon
<1> DEFINE K == {i \in D : rem[i] > 0}
<1>5. K \in SUBSET D /\ IsFiniteSet(K) /\ Cardinality(K) =< Cardinality(D) /\ Cardinality(K) \in Nat
      /\ Cardinality(D) \in Nat
    BY <1>0, FS_Subset, FS_CardinalityType
<1>6. m =< Cardinality(K)
  <2> DEFINE cd == [i \in K |-> d]
  <2>0. \A i \in K : cd[i] = d
      OBVIOUS
  <2>k. \A i \in K : i \in D
      OBVIOUS
  <2>1. R = SumFunctionOnSet(rem, K)
    <3>1. \A i \in D \ K : rem[i] = 0
        BY <1>1
    <3> HIDE DEF K
    <3>2. \A i \in K : rem[i] \in Int /\ rem[i] = rem[i]
        BY <1>1, <2>k
    <3> QED
        BY <3>1, <3>2, <1>0, <1>5, SumPart DEF R
  <2> HIDE DEF K, cd
  <2>2. SumFunctionOnSet(cd, K) = d * Cardinality(K)
      BY <2>0, <1>5, SumConst
  <2>3. SumFunctionOnSet(rem, K) =< SumFunctionOnSet(cd, K)
    <3>1. \A i \in K : rem[i] \in Int /\ cd[i] \in Int /\ rem[i] =< cd[i]
        BY <2>0, <2>k, <1>1
    <3> QED
        BY <3>1, <1>5, SumMono
  <2>4. PICK c \in Nat : c = Cardinality(K)
      BY <1>5
  <2>5. d * m + r =< d * c
      BY <2>1, <2>2, <2>3, <2>4, <1>3
  <2>6. ASSUME c < m PROVE FALSE
    <3>1. d * (c + 1) =< d * m
        BY <2>6, <1>4
    <3>2. d * (c + 1) = d * c + d
        OBVIOUS
    <3> QED
        BY <3>1, <3>2, <2>5, <1>3
  <2> QED
      BY <2>4, <2>6
<1> DEFINE p == [i \in D |-> Before(num, d, i)]
           E == {i \in D : Cardinality(p[i]) < m}
<1>7. ASSUME NEW i \in D
      PROVE  p[i] = {j \in D : rem[j] > rem[i] \/ (rem[j] = rem[i] /\ j < i)}
    BY <1>p DEF Before, D
<1>8. p \in [D -> SUBSET D]
    BY <1>7
<1>9. D \subseteq Int
    BY <1>0
<1> HIDE DEF p
<1>10. Cardinality(E) = m
  <2>1. \A i \in D : i \notin p[i]
      BY <1>7, <1>1, <1>9
  <2>2. \A i, j \in D : i # j => i \in p[j] \/ j \in p[i]
    <3> SUFFICES ASSUME NEW i \in D, NEW j \in D, i # j, i \notin p[j], j \notin p[i] PROVE FALSE
        OBVIOUS
    <3>1. rem[i] \in Int /\ rem[j] \in Int /\ i \in Int /\ j \in Int
        BY <1>1, <1>9
    <3>2. /\ p[j] = {k \in D : rem[k] > rem[j] \/ (rem[k] = rem[j] /\ k < j)}
          /\ p[i] = {k \in D : rem[k] > rem[i] \/ (rem[k] = rem[i] /\ k < i)}
        BY <1>7
    <3> HIDE DEF D
    <3>3. /\ ~ (rem[i] > rem[j]) /\ ~ (rem[i] = rem[j] /\ i < j)
          /\ ~ (rem[j] > rem[i]) /\ ~ (rem[j] = rem[i] /\ j < i)
        BY <3>2
    <3> QED
        BY <3>1, <3>3
  <2>3. \A i, j \in D : i \in p[j] => p[i] \subseteq p[j]
    <3> SUFFICES ASSUME NEW i \in D, NEW j \in D, i \in p[j], NEW x \in p[i] PROVE x \in p[j]
        OBVIOUS
    <3>1. x \in D /\ rem[x] \in Int /\ rem[i] \in Int /\ rem[j] \in Int /\ x \in Int /\ i \in Int /\ j \in Int
      <4>1. x \in D
          BY <1>8
      <4> QED
          BY <4>1, <1>1, <1>9
    <3>2. /\ rem[i] > rem[j] \/ (rem[i] = rem[j] /\ i < j)
          /\ rem[x] > rem[i] \/ (rem[x] = rem[i] /\ x < i)
        BY <1>7
    <3>3. rem[x] > rem[j] \/ (rem[x] = rem[j] /\ x < j)
        BY <3>1, <3>2
    <3>4. p[j] = {k \in D : rem[k] > rem[j] \/ (rem[k] = rem[j] /\ k < j)}
        BY <1>7
    <3> HIDE DEF D
    <3> QED
        BY <3>1, <3>3, <3>4
  <2>4. m =< Cardinality(D)
      BY <1>4, <1>5, <1>6
  <2> QED
      BY <2>1, <2>2, <2>3, <2>4, <1>0, <1>4, <1>8, RankCount
<1>11. ASSUME NEW i \in E PROVE rem[i] > 0
  <2>1. CASE rem[i] = 0
    <3>1. K \in SUBSET p[i]
        BY <1>7, <2>1
    <3>2. IsFiniteSet(p[i]) /\ Cardinality(p[i]) \in Nat
        BY <1>8, <1>0, FS_Subset, FS_CardinalityType
    <3> HIDE DEF K
    <3>3. Cardinality(K) =< Cardinality(p[i])
        BY <3>1, <3>2, FS_Subset
    <3> QED
        BY <3>2, <3>3, <1>5, <1>6
  <2> QED
      BY <2>1, <1>1
<1> DEFINE extra == [i \in D |-> IF i \in E THEN 1 ELSE 0]
           out == Apportion(num, d, target)
<1>12. out = [i \in D |-> base[i] + extra[i]]
  <2>1. target - Total(base) = m
      BY <1>0, <1>2, <1>4
  <2>2. out = [i \in D |-> base[i] + IF Cardinality(Before(num, d, i)) < target - Total(base) THEN 1 ELSE 0]
      BY DEF Apportion, D, base, Before
  <2>3. \A i \in D : i \in E <=> Cardinality(Before(num, d, i)) < m
      BY DEF p
  <2> QED
      BY <2>1, <2>2, <2>3
<1>13. \A i \in D : extra[i] = IF i \in E THEN 1 ELSE 0
    OBVIOUS
<1>14. SumFunctionOnSet(extra, D) = m
  <2>1. E \in SUBSET D
      OBVIOUS
  <2>2. \A i \in E : extra[i] \in Int /\ extra[i] = extra[i]
      BY <1>13
  <2>3. \A i \in E : extra[i] = 1
      BY <1>13
  <2>4. \A i \in D \ E : extra[i] = 0
      BY <1>13
  <2>5. IsFiniteSet(E)
      BY <2>1, <1>f, FS_Subset
  <2> HIDE DEF E, extra
  <2>6. SumFunctionOnSet(extra, E) = 1 * Cardinality(E)
      BY <2>3, <2>5, SumConst
  <2>7. SumFunctionOnSet(extra, D) = SumFunctionOnSet(extra, E)
      BY <2>1, <2>2, <2>4, <1>f, SumPart
  <2> QED
      BY <2>6, <2>7, <1>10, <1>4
<1> HIDE DEF E, extra, out
<1>15. /\ DOMAIN out = D
       /\ \A i \in D : out[i] \in Int /\ extra[i] \in Int /\ out[i] = base[i] + extra[i]
    BY <1>1, <1>12, <1>13
<1>16. Total(out) = target
  <2>1. SumFunctionOnSet(out, D) = B + SumFunctionOnSet(extra, D)
    <3>1. \A i \in D : base[i] \in Int /\ extra[i] \in Int /\ out[i] = base[i] + extra[i]
        BY <1>1, <1>15
    <3> QED
        BY <3>1, <1>0, SumPlus DEF B
  <2> QED
      BY <2>1, <1>14, <1>15, <1>4 DEF Total, SumFunction
<1>17. out \in Seq(Int) /\ Len(out) = Len(num)
  <2>1. out = [i \in 1..Len(num) |-> base[i] + extra[i]]
      BY <1>0, <1>12
  <2>2. \A i \in 1..Len(num) : base[i] + extra[i] \in Int
      BY <1>0, <1>1, <1>15
  <2> QED
      BY <2>1, <2>2, <1>0
<1>18. ASSUME NEW i \in D PROVE Distance(out[i] * d, num[i]) < d
  <2>1. PICK b \in Int : b = base[i]
      BY <1>1
  <2>2. PICK z \in Nat : z = rem[i]
      BY <1>1
  <2>3. num[i] = d * b + z /\ z < d
      BY <1>1, <2>1, <2>2
  <2>4. CASE i \in E
    <3>1. z > 0 /\ out[i] = b + 1
        BY <2>4, <1>11, <1>13, <1>15, <2>1, <2>2
    <3>2. (b + 1) * d = d * b + d
        OBVIOUS
    <3> QED
        BY <3>1, <3>2, <2>3 DEF Distance
  <2>5. CASE i \notin E
    <3>1. out[i] = b
        BY <2>5, <1>13, <1>15, <2>1
    <3>2. b * d = d * b
        OBVIOUS
    <3> QED
        BY <3>1, <3>2, <2>3 DEF Distance
  <2> QED
      BY <2>4, <2>5
<1> QED
    BY <1>16, <1>17, <1>18 DEF out, D

\* The size of 1..n.
LEMMA IntervalSize ==
    ASSUME NEW n \in Nat
    PROVE  IsFiniteSet(1..n) /\ Cardinality(1..n) = n
    BY FS_Interval

\* The sum of a sequence scaled.
LEMMA TotalScaled ==
    ASSUME NEW s \in Seq(Nat), NEW c \in Nat, NEW t, t = [i \in DOMAIN s |-> c * s[i]]
    PROVE  /\ t \in Seq(Nat) /\ Len(t) = Len(s) /\ DOMAIN t = DOMAIN s
           /\ \A i \in DOMAIN s : t[i] = c * s[i]
           /\ Total(s) \in Int /\ Total(t) = c * Total(s)
<1> DEFINE D == DOMAIN s
<1>1. \A i \in D : s[i] \in Nat /\ c * s[i] \in Nat
  <2>1. \A i \in D : s[i] \in Nat
      OBVIOUS
  <2> QED
      BY <2>1
<1>2. t \in Seq(Nat) /\ Len(t) = Len(s) /\ DOMAIN t = D
  <2>1. D = 1..Len(s) /\ Len(s) \in Nat
      OBVIOUS
  <2>2. t = [i \in 1..Len(s) |-> c * s[i]] /\ \A i \in 1..Len(s) : c * s[i] \in Nat
      BY <2>1, <1>1
  <2> QED
      BY <2>1, <2>2
<1>3. \A i \in D : t[i] = c * s[i]
    OBVIOUS
<1>4. s \in Seq(Int) /\ t \in Seq(Int)
    BY <1>2
<1>5. IsFiniteSet(D) /\ Total(s) \in Int /\ Total(s) = SumFunctionOnSet(s, D)
    BY <1>4, TotalType
<1>6. Total(t) = SumFunctionOnSet(t, D)
    BY <1>2 DEF Total, SumFunction
<1>7. \A i \in D : s[i] \in Int /\ t[i] = c * s[i]
    BY <1>1, <1>3
<1> HIDE DEF D
<1>8. SumFunctionOnSet(t, D) = c * SumFunctionOnSet(s, D)
  <2>1. IsFiniteSet(D) /\ c \in Int
      BY <1>5
  <2> QED
      BY <2>1, <1>7, SumTimes
<1> QED
    BY <1>2, <1>3, <1>5, <1>6, <1>8 DEF D

\* allocateByWeights gives the whole total away, in proportion to a stroop.
LEMMA Allocated ==
    ASSUME NEW total \in Nat, NEW w \in Seq(Nat), Total(w) \in Nat \ {0}
    PROVE  /\ DOMAIN AllocateByWeights(total, w) = DOMAIN w
           /\ Total(AllocateByWeights(total, w)) = total
           /\ \A i \in DOMAIN w :
                Distance(AllocateByWeights(total, w)[i] * Total(w), total * w[i]) < Total(w)
<1>1. PICK num : num = [i \in DOMAIN w |-> total * w[i]]
    OBVIOUS
<1>2. PICK d \in Nat \ {0} : d = Total(w)
    OBVIOUS
<1>3. /\ num \in Seq(Nat) /\ Len(num) = Len(w) /\ DOMAIN num = DOMAIN w
      /\ \A i \in DOMAIN w : num[i] = total * w[i]
      /\ Total(num) = total * d
    BY <1>1, <1>2, TotalScaled
<1>4. total = Total(num) \div d
  <2>1. (d * total + 0) \div d = total
      BY Quotient
  <2>2. total * d = d * total + 0
      OBVIOUS
  <2> QED
      BY <2>1, <2>2, <1>3, Zenon
<1>t. PICK t : t = Total(num) \div d
    OBVIOUS
<1>5. AllocateByWeights(total, w) = Apportion(num, d, t)
    BY <1>1, <1>2, <1>4, <1>t, Zenon DEF AllocateByWeights
<1>6. PICK s : s = Apportion(num, d, t)
    OBVIOUS
<1>7. /\ s \in Seq(Int) /\ Len(s) = Len(num) /\ Total(s) = total
      /\ \A i \in DOMAIN num : Distance(s[i] * d, num[i]) < d
  <2>1. /\ s \in Seq(Int) /\ Len(s) = Len(num) /\ Total(s) = t
        /\ \A i \in DOMAIN num : Distance(s[i] * d, num[i]) < d
    <3>1. num \in Seq(Nat)
        BY <1>3
    <3> QED
        BY <3>1, <1>t, <1>6, Apportioned, Zenon
  <2> QED
      BY <2>1, <1>4, <1>t, Zenon
<1>8. DOMAIN s = DOMAIN w
    BY <1>7, <1>3
<1>9. \A i \in DOMAIN w : Distance(s[i] * Total(w), total * w[i]) < Total(w)
    BY <1>2, <1>3, <1>7, Zenon
<1> QED
    BY <1>5, <1>6, <1>7, <1>8, <1>9, Zenon

\* convertAllocations converts the sum once and each entry to a stroop.
LEMMA Converted ==
    ASSUME NEW s \in Seq(Nat), NEW rate \in Nat
    PROVE  /\ Total(ConvertAllocations(s, rate)) = (Total(s) * rate) \div RateScale
           /\ \A i \in DOMAIN s :
                Distance(ConvertAllocations(s, rate)[i] * RateScale, s[i] * rate) < RateScale
<1>1. PICK num : num = [i \in DOMAIN s |-> s[i] * rate]
    OBVIOUS
<1>2. RateScale \in Nat \ {0}
    BY SplitMathAssumption
<1>3. /\ num \in Seq(Nat) /\ Len(num) = Len(s) /\ DOMAIN num = DOMAIN s
      /\ \A i \in DOMAIN s : num[i] = s[i] * rate
      /\ Total(num) = Total(s) * rate
  <2>0. \A i \in DOMAIN s : s[i] \in Nat
      OBVIOUS
  <2>1. [i \in DOMAIN s |-> s[i] * rate] = [i \in DOMAIN s |-> rate * s[i]]
    <3>1. \A i \in DOMAIN s : s[i] * rate = rate * s[i]
        BY <2>0
    <3> QED
        BY <3>1
  <2>2. num = [i \in DOMAIN s |-> rate * s[i]]
      BY <1>1, <2>1, Zenon
  <2>3. /\ num \in Seq(Nat) /\ Len(num) = Len(s) /\ DOMAIN num = DOMAIN s
        /\ Total(s) \in Int /\ Total(num) = rate * Total(s)
      BY <2>2, TotalScaled
  <2>4. \A i \in DOMAIN s : num[i] = s[i] * rate
      BY <1>1
  <2>5. Total(num) = Total(s) * rate
      BY <2>3
  <2> QED
      BY <2>3, <2>4, <2>5
<1>4. PICK t : t = Total(num) \div RateScale
    OBVIOUS
<1>5. ConvertAllocations(s, rate) = Apportion(num, RateScale, t)
    BY <1>1, <1>3, <1>4, Zenon DEF ConvertAllocations
<1>6. PICK c : c = Apportion(num, RateScale, t)
    OBVIOUS
<1>7. /\ Total(c) = t
      /\ \A i \in DOMAIN num : Distance(c[i] * RateScale, num[i]) < RateScale
    BY <1>2, <1>3, <1>4, <1>6, Apportioned
<1>8. \A i \in DOMAIN s : Distance(c[i] * RateScale, s[i] * rate) < RateScale
    BY <1>3, <1>7, Zenon
<1>9. Total(c) = (Total(s) * rate) \div RateScale
    BY <1>3, <1>4, <1>7, Zenon
<1> QED
    BY <1>5, <1>6, <1>8, <1>9, Zenon

\* splitExpense, for every body the routes let through.
LEMMA SplitExact ==
    ASSUME NEW b \in Bills, b.kind = "percentage" => Total(b.input) = 10 * Cent
    PROVE  LET w == IF b.kind = "equal" THEN [i \in DOMAIN b.input |-> 1] ELSE b.input
               s == SplitExpense(b.total, b.kind, b.input)
           IN  /\ Total(s) = b.total
               /\ \A i \in DOMAIN s : Distance(s[i] * Total(w), b.total * w[i]) < Total(w)
<1> DEFINE w == IF b.kind = "equal" THEN [i \in DOMAIN b.input |-> 1] ELSE b.input
           s == SplitExpense(b.total, b.kind, b.input)
<1>0. /\ b.total \in Nat /\ b.total > 0 /\ b.input \in Seq(Nat) /\ Len(b.input) > 0 /\ Len(b.input) \in Nat
      /\ b.kind \in {"equal", "custom", "percentage"} /\ Cent \in Nat \ {0}
      /\ b.kind = "custom" => Total(b.input) = b.total
    BY BillsAssumption, SplitMathAssumption DEF ValidSplit
<1>1. CASE b.kind = "custom"
  <2>1. s = b.input /\ w = b.input
      BY <1>1 DEF SplitExpense
  <2>2. \A i \in DOMAIN b.input : b.input[i] \in Nat
      BY <1>0
  <2>3. ASSUME NEW i \in DOMAIN b.input PROVE Distance(b.input[i] * b.total, b.total * b.input[i]) < b.total
    <3>1. b.input[i] * b.total = b.total * b.input[i] /\ b.total * b.input[i] \in Int
        BY <1>0, <2>2
    <3> QED
        BY <3>1, <1>0 DEF Distance
  <2> HIDE DEF s, w
  <2>4. Total(s) = b.total /\ \A i \in DOMAIN s : Distance(s[i] * Total(w), b.total * w[i]) < Total(w)
      BY <1>0, <1>1, <2>1, <2>3
  <2> QED
      BY <2>4 DEF s, w
<1>2. CASE b.kind # "custom"
  <2>1. s = AllocateByWeights(b.total, w)
      BY <1>0, <1>2 DEF SplitExpense
  <2>2. w \in Seq(Nat) /\ Total(w) \in Nat \ {0}
    <3>1. CASE b.kind = "percentage"
        BY <3>1, <1>0
    <3>2. CASE b.kind = "equal"
      <4> DEFINE D == 1..Len(b.input)
      <4>0. DOMAIN b.input = D
          BY <1>0
      <4>1. w = [i \in D |-> 1] /\ IsFiniteSet(D) /\ Cardinality(D) = Len(b.input)
        <5>1. w = [i \in DOMAIN b.input |-> 1]
            BY <3>2
        <5>2. IsFiniteSet(D) /\ Cardinality(D) = Len(b.input)
          <6>1. PICK n \in Nat : n = Len(b.input) /\ n > 0
              BY <1>0
          <6>2. IsFiniteSet(1..n) /\ Cardinality(1..n) = n
              BY IntervalSize
          <6>3. D = 1..n
              BY <6>1, Zenon
          <6> HIDE DEF D
          <6> QED
              BY <6>1, <6>2, <6>3, Zenon
        <5> QED
            BY <5>1, <5>2, <4>0, Zenon
      <4>2. w \in Seq(Nat)
          BY <4>1, <1>0
      <4>3. DOMAIN w = D /\ \A i \in D : w[i] = 1
          BY <4>1
      <4> HIDE DEF D, w
      <4>4. SumFunctionOnSet(w, D) = 1 * Cardinality(D)
        <5>1. IsFiniteSet(D) /\ \A i \in D : w[i] = 1
            BY <4>1, <4>3
        <5> QED
            BY <5>1, SumConst
      <4>5. Total(w) = Len(b.input)
        <5>1. Total(w) = SumFunctionOnSet(w, D)
            BY <4>3, Zenon DEF Total, SumFunction
        <5> QED
            BY <5>1, <4>1, <4>4, <1>0
      <4> QED
          BY <4>2, <4>5, <1>0
    <3> QED
        BY <3>1, <3>2, <1>0, <1>2
  <2> HIDE DEF s, w
  <2>3. /\ DOMAIN s = DOMAIN w /\ Total(s) = b.total
        /\ \A i \in DOMAIN w : Distance(s[i] * Total(w), b.total * w[i]) < Total(w)
      BY <2>1, <2>2, <1>0, Allocated
  <2> QED
      BY <2>3 DEF s, w
<1> QED
    BY <1>1, <1>2

\* divideRounded in its three modes, between the multiples around the exact value.
LEMMA Rounding ==
    ASSUME NEW m \in Nat, NEW d \in Nat \ {0}
    PROVE  \E x, r \in Int :
             /\ 0 =< r /\ r < d /\ m = x + r /\ 0 =< x
             /\ DivideRounded(m, d, "down") \in Int /\ DivideRounded(m, d, "down") * d = x
             /\ DivideRounded(m, d, "up") \in Int
             /\ DivideRounded(m, d, "up") * d = IF r = 0 THEN x ELSE x + d
             /\ DivideRounded(m, d, "half-up") \in Int
             /\ DivideRounded(m, d, "half-up") * d = IF 2 * r >= d THEN x + d ELSE x
<1>1. PICK q, r \in Int : q = m \div d /\ r = m % d /\ 0 =< r /\ r < d /\ m = d * q + r
    BY Division
<1>2. PICK x \in Int : x = d * q
    OBVIOUS
<1>3. q * d = x /\ (q + 1) * d = x + d
    BY <1>2
<1>4. 0 =< x
  <2> SUFFICES ASSUME x < 0 PROVE FALSE
      BY <1>2
  <2>1. q < 0
      BY <1>2
  <2>2. d * (q + 1) =< 0
      BY <2>1
  <2>3. d * (q + 1) = x + d
      BY <1>2
  <2> QED
      BY <2>2, <2>3, <1>1, <1>2
<1>5. DivideRounded(m, d, "down") = q + 0
    BY <1>1, Zenon DEF DivideRounded
<1>6. DivideRounded(m, d, "up") = q + IF r # 0 THEN 1 ELSE 0
    BY <1>1, Zenon DEF DivideRounded
<1>7. DivideRounded(m, d, "half-up") = q + IF r # 0 /\ 2 * r >= d THEN 1 ELSE 0
    BY <1>1, Zenon DEF DivideRounded
<1>8. PICK a, b, c : /\ a = DivideRounded(m, d, "down") /\ b = DivideRounded(m, d, "up")
                     /\ c = DivideRounded(m, d, "half-up")
    OBVIOUS
<1>9. a \in Int /\ a * d = x
    BY <1>3, <1>5, <1>8
<1>10. b \in Int /\ b * d = IF r = 0 THEN x ELSE x + d
    BY <1>3, <1>6, <1>8
<1>11. c \in Int /\ c * d = IF 2 * r >= d THEN x + d ELSE x
    BY <1>1, <1>3, <1>7, <1>8
<1> QED
    BY <1>1, <1>2, <1>4, <1>8, <1>9, <1>10, <1>11, Zenon

\* convertStroops rounds to the nearest amount and brackets it in the other modes.
LEMMA ConversionIsRounding ==
    ASSUME NEW n \in Int, NEW rate \in Nat
    PROVE  LET exact == n * rate
               up == ConvertStroops(n, rate, "up") * RateScale
               down == ConvertStroops(n, rate, "down") * RateScale
               half == ConvertStroops(n, rate, "half-up") * RateScale
           IN  /\ Distance(down, 0) <= Distance(exact, 0) /\ Distance(exact, 0) <= Distance(up, 0)
               /\ Distance(down, exact) < RateScale /\ Distance(up, exact) < RateScale
               /\ half = IF Distance(up, exact) <= Distance(down, exact) THEN up ELSE down
<1>0. PICK d \in Nat \ {0} : d = RateScale
    BY SplitMathAssumption
<1>1. PICK k \in Nat : k = IF n < 0 THEN -n ELSE n
    OBVIOUS
<1>2. PICK m \in Nat : m = k * rate
    OBVIOUS
<1>3. PICK a, b, c : /\ a = DivideRounded(m, d, "down") /\ b = DivideRounded(m, d, "up")
                     /\ c = DivideRounded(m, d, "half-up")
    OBVIOUS
<1>4. PICK x, r \in Int :
             /\ 0 =< r /\ r < d /\ m = x + r /\ 0 =< x
             /\ a \in Int /\ a * d = x
             /\ b \in Int /\ b * d = IF r = 0 THEN x ELSE x + d
             /\ c \in Int /\ c * d = IF 2 * r >= d THEN x + d ELSE x
    BY <1>3, Rounding, Zenon
<1>5. /\ ConvertStroops(n, rate, "down") = IF n < 0 THEN -a ELSE a
      /\ ConvertStroops(n, rate, "up") = IF n < 0 THEN -b ELSE b
      /\ ConvertStroops(n, rate, "half-up") = IF n < 0 THEN -c ELSE c
    BY <1>0, <1>1, <1>2, <1>3, Zenon DEF ConvertStroops
<1>6. PICK ex, up, dn, hf \in Int :
        /\ ex = n * rate /\ up = ConvertStroops(n, rate, "up") * RateScale
        /\ dn = ConvertStroops(n, rate, "down") * RateScale
        /\ hf = ConvertStroops(n, rate, "half-up") * RateScale
  <2>1. PICK ca, cb, cc \in Int : /\ ca = ConvertStroops(n, rate, "down") /\ cb = ConvertStroops(n, rate, "up")
                                  /\ cc = ConvertStroops(n, rate, "half-up")
      BY <1>4, <1>5
  <2>2. n * rate \in Int /\ ca * d \in Int /\ cb * d \in Int /\ cc * d \in Int
      OBVIOUS
  <2> QED
      BY <2>1, <2>2, <1>0, Zenon
<1>7. CASE n < 0
  <2>1. n * rate = -(k * rate) /\ (-a) * d = -(a * d) /\ (-b) * d = -(b * d) /\ (-c) * d = -(c * d)
      BY <1>1, <1>4, <1>7
  <2>2. ex = -m /\ dn = -x /\ up = -(IF r = 0 THEN x ELSE x + d) /\ hf = -(IF 2 * r >= d THEN x + d ELSE x)
    <3>1. ex = -m
        BY <1>2, <1>6, <2>1, Zenon
    <3>2. dn = (-a) * d /\ up = (-b) * d /\ hf = (-c) * d
        BY <1>0, <1>5, <1>6, <1>7, Zenon
    <3>3. dn = -(a * d) /\ up = -(b * d) /\ hf = -(c * d)
        BY <3>2, <2>1, Zenon
    <3> QED
        BY <3>1, <3>3, <1>4, Zenon
  <2>3. /\ Distance(dn, 0) <= Distance(ex, 0) /\ Distance(ex, 0) <= Distance(up, 0)
        /\ Distance(dn, ex) < d /\ Distance(up, ex) < d
        /\ hf = IF Distance(up, ex) <= Distance(dn, ex) THEN up ELSE dn
      BY <2>2, <1>4 DEF Distance
  <2> QED
      BY <2>3, <1>0, <1>6, Zenon
<1>8. CASE ~(n < 0)
  <2>2. ex = m /\ dn = x /\ up = (IF r = 0 THEN x ELSE x + d) /\ hf = (IF 2 * r >= d THEN x + d ELSE x)
    <3>0. k = n
        BY <1>1, <1>8, Zenon
    <3>1. ex = m
        BY <1>2, <1>6, <3>0, Zenon
    <3>2. dn = a * d /\ up = b * d /\ hf = c * d
        BY <1>0, <1>5, <1>6, <1>8, Zenon
    <3> QED
        BY <3>1, <3>2, <1>4, Zenon
  <2>3. /\ Distance(dn, 0) <= Distance(ex, 0) /\ Distance(ex, 0) <= Distance(up, 0)
        /\ Distance(dn, ex) < d /\ Distance(up, ex) < d
        /\ hf = IF Distance(up, ex) <= Distance(dn, ex) THEN up ELSE dn
      BY <2>2, <1>4 DEF Distance
  <2> QED
      BY <2>3, <1>0, <1>6, Zenon
<1> QED
    BY <1>7, <1>8, Zenon

-----------------------------------------------------------------------------
(* Balances: what one is owed the others owe. *)

\* The two ways of summing by a key, with the parts and the functions named.
Keyed(f, k, S, U, part, g) ==
    /\ IsFiniteSet(S) /\ IsFiniteSet(U)
    /\ \A x \in S : f[x] \in Int /\ k[x] \in U
    /\ \A u \in U : part[u] = {x \in S : k[x] = u}
    /\ \A u \in U : g[u] = SumFunctionOnSet(f, part[u])

\* A table summed by its rows and by its columns.
Grid(S, U, a, c, row, col) ==
    /\ IsFiniteSet(S) /\ IsFiniteSet(U)
    /\ \A x \in S, u \in U : a[x][u] \in Int
    /\ \A u \in U : \A x \in S : c[u][x] = a[x][u]
    /\ \A x \in S : row[x] = SumFunctionOnSet(a[x], U)
    /\ \A u \in U : col[u] = SumFunctionOnSet(c[u], S)

\* Summing each part and then the parts sums the whole.
LEMMA SumKeyed ==
    ASSUME NEW f, NEW k, NEW S, NEW U, NEW part, NEW g, Keyed(f, k, S, U, part, g)
    PROVE  SumFunctionOnSet(g, U) = SumFunctionOnSet(f, S)
<1> USE DEF Keyed
<1> DEFINE h == [u \in U |-> SumFunctionOnSet(f, {x \in S : k[x] = u})]
<1>1. SumFunctionOnSet(h, U) = SumFunctionOnSet(f, S)
    BY SumByKey
<1>2. \A u \in U : g[u] = h[u]
    OBVIOUS
<1> HIDE DEF h
<1>3. SumFunctionOnSet(g, U) = SumFunctionOnSet(h, U)
    BY <1>2, SumCong
<1> QED
    BY <1>1, <1>3

\* The rows and the columns of a table have the same total.
LEMMA SumGrid ==
    ASSUME NEW S, NEW U, NEW a, NEW c, NEW row, NEW col, Grid(S, U, a, c, row, col)
    PROVE  SumFunctionOnSet(col, U) = SumFunctionOnSet(row, S)
<1> USE DEF Grid
<1> DEFINE d == [u \in U |-> [x \in S |-> a[x][u]]]
           p == [u \in U |-> SumFunctionOnSet([x \in S |-> a[x][u]], S)]
           q == [x \in S |-> SumFunctionOnSet(a[x], U)]
<1>1. SumFunctionOnSet(p, U) = SumFunctionOnSet(q, S)
    BY SumSwap
<1>2. \A x \in S : row[x] = q[x]
    OBVIOUS
<1>3. \A u \in U : p[u] = SumFunctionOnSet(d[u], S)
    OBVIOUS
<1>4. \A u \in U : \A x \in S : c[u][x] = d[u][x]
    OBVIOUS
<1> HIDE DEF p, q, d
<1>5. ASSUME NEW u \in U PROVE col[u] = p[u]
  <2>1. PICK v, w : v = c[u] /\ w = d[u]
      OBVIOUS
  <2>2. \A x \in S : v[x] = w[x]
      BY <2>1, <1>4
  <2>3. SumFunctionOnSet(v, S) = SumFunctionOnSet(w, S)
      BY <2>2, SumCong
  <2> QED
      BY <2>1, <2>3, <1>3
<1>6. SumFunctionOnSet(col, U) = SumFunctionOnSet(p, U)
    BY <1>5, SumCong
<1>7. SumFunctionOnSet(row, S) = SumFunctionOnSet(q, S)
    BY <1>2, SumCong
<1> QED
    BY <1>1, <1>6, <1>7

\* What the parties of a set of expenses have in shares, all together.
ByWho(S, part, c, col, row) ==
    /\ S \in SUBSET Rows /\ \A e \in S : part[e] \in SUBSET DOMAIN expense[e].share
    /\ \A u \in Parties : \A e \in S :
         c[u][e] = SumFunctionOnSet(expense[e].share, {i \in part[e] : expense[e].bill.who[i] = u})
    /\ \A u \in Parties : col[u] = SumFunctionOnSet(c[u], S)
    /\ \A e \in S : row[e] = SumFunctionOnSet(expense[e].share, part[e])

\* Summed over the parties, the shares are those of the rows.
LEMMA SumByWho ==
    ASSUME ExpensesInv, NEW S, NEW part, NEW c, NEW col, NEW row, ByWho(S, part, c, col, row)
    PROVE  /\ SumFunctionOnSet(col, Parties) = SumFunctionOnSet(row, S)
           /\ \A u \in Parties : col[u] \in Int
<1> USE DEF ByWho
<1> DEFINE a == [e \in S |-> [u \in Parties |-> c[u][e]]]
<1>0. IsFiniteSet(S) /\ IsFiniteSet(Parties)
    BY LedgerFinite
<1>1. \A u \in Parties : \A e \in S : c[u][e] = a[e][u]
    OBVIOUS
<1>2. \A u \in Parties : \A e \in S : c[u][e] \in Int
  <2> SUFFICES ASSUME NEW u \in Parties, NEW e \in S PROVE c[u][e] \in Int
      OBVIOUS
  <2>1. e \in Rows /\ {i \in part[e] : expense[e].bill.who[i] = u} \in SUBSET DOMAIN expense[e].share
      OBVIOUS
  <2>2. PICK T \in SUBSET DOMAIN expense[e].share : T = {i \in part[e] : expense[e].bill.who[i] = u}
      BY <2>1
  <2>3. SumFunctionOnSet(expense[e].share, T) \in Int
      BY <2>1, ShareSumType
  <2> QED
      BY <2>2, <2>3
<1>3. ASSUME NEW e \in S PROVE row[e] = SumFunctionOnSet(a[e], Parties)
  <2>1. PICK f, k, g, T, P : /\ f = expense[e].share /\ k = expense[e].bill.who /\ g = a[e]
                             /\ T = part[e] /\ P = [u \in Parties |-> {i \in part[e] : expense[e].bill.who[i] = u}]
      OBVIOUS
  <2>2. \A u \in Parties : P[u] = {i \in T : k[i] = u}
      BY <2>1
  <2>3. \A i \in T : f[i] \in Int /\ k[i] \in Parties
    <3>1. \A i \in DOMAIN expense[e].share : expense[e].share[i] \in Int /\ expense[e].bill.who[i] \in Parties
        BY RowFacts
    <3>2. T \in SUBSET DOMAIN expense[e].share
        BY <2>1
    <3> QED
        BY <2>1, <3>1, <3>2
  <2>4. IsFiniteSet(T)
    <3>1. T \in SUBSET DOMAIN expense[e].share
        BY <2>1
    <3> QED
        BY <3>1, ShareSumType
  <2>5. \A u \in Parties : g[u] = SumFunctionOnSet(f, P[u])
      BY <2>1, <1>1
  <2>6. SumFunctionOnSet(g, Parties) = SumFunctionOnSet(f, T)
    <3>1. Keyed(f, k, T, Parties, P, g)
        BY <2>2, <2>3, <2>4, <2>5, <1>0 DEF Keyed
    <3> QED
        BY <3>1, SumKeyed
  <2> QED
      BY <2>1, <2>6
<1>4. \A e \in S, u \in Parties : a[e][u] \in Int
    BY <1>1, <1>2
<1> HIDE DEF a
<1>5. SumFunctionOnSet(col, Parties) = SumFunctionOnSet(row, S)
  <2>1. \A e \in S : row[e] = SumFunctionOnSet(a[e], Parties)
      BY <1>3
  <2>2. Grid(S, Parties, a, c, row, col)
      BY <2>1, <1>0, <1>1, <1>4 DEF Grid
  <2> QED
      BY <2>2, SumGrid
<1>6. ASSUME NEW u \in Parties PROVE col[u] \in Int
  <2>1. PICK v : v = c[u]
      OBVIOUS
  <2>2. \A e \in S : v[e] \in Int
      BY <2>1, <1>2
  <2>3. SumFunctionOnSet(v, S) \in Int
      BY <2>2, <1>0, SumType
  <2> QED
      BY <2>1, <2>3
<1> QED
    BY <1>5, <1>6

\* What a set of expenses is worth to their payers, all together.
ByPayer(S, f, g) ==
    /\ S \in SUBSET Rows /\ \A e \in S : f[e] \in Int
    /\ \A u \in Parties : g[u] = SumFunctionOnSet(f, {e \in S : expense[e].bill.payer = u})

\* Summed over the payers, the expenses are those of the set.
LEMMA SumByPayer ==
    ASSUME ExpensesInv, NEW S, NEW f, NEW g, ByPayer(S, f, g)
    PROVE  /\ SumFunctionOnSet(g, Parties) = SumFunctionOnSet(f, S)
           /\ \A u \in Parties : g[u] \in Int
<1> USE DEF ByPayer
<1>0. IsFiniteSet(S) /\ IsFiniteSet(Parties)
    BY LedgerFinite
<1>1. PICK k : k = [e \in S |-> expense[e].bill.payer]
    OBVIOUS
<1>2. PICK P : P = [u \in Parties |-> {e \in S : expense[e].bill.payer = u}]
    OBVIOUS
<1>3. \A e \in S : k[e] \in Parties
  <2> SUFFICES ASSUME NEW e \in S PROVE expense[e].bill.payer \in Parties
      BY <1>1
  <2>1. expense[e].bill \in Bills
      BY RowFacts
  <2> QED
      BY <2>1, BillsAssumption
<1>4. \A u \in Parties : P[u] = {e \in S : k[e] = u}
    BY <1>1, <1>2
<1>5. \A u \in Parties : g[u] = SumFunctionOnSet(f, P[u])
    BY <1>2
<1>6. Keyed(f, k, S, Parties, P, g)
    BY <1>0, <1>3, <1>4, <1>5 DEF Keyed
<1>7. ASSUME NEW u \in Parties PROVE g[u] \in Int
  <2>1. PICK T \in SUBSET S : T = {e \in S : expense[e].bill.payer = u}
      OBVIOUS
  <2>2. SumFunctionOnSet(f, T) \in Int
      BY <1>0, SumGrows
  <2> QED
      BY <2>1, <2>2
<1> QED
    BY <1>6, <1>7, SumKeyed

\* What a set of settlements moved, by who paid and by who was paid.
Moves(S, f, g, h) ==
    /\ S \in SUBSET Paid /\ f = [s \in Paid |-> settlement[s].amount]
    /\ \A u \in Parties : g[u] = SumFunctionOnSet(f, {s \in S : settlement[s].from = u})
    /\ \A u \in Parties : h[u] = SumFunctionOnSet(f, {s \in S : settlement[s].to = u})

\* What all parties sent is what all parties received.
LEMMA SumMoved ==
    ASSUME SettlementsInv, NEW S, NEW f, NEW g, NEW h, Moves(S, f, g, h)
    PROVE  /\ SumFunctionOnSet(g, Parties) = SumFunctionOnSet(h, Parties)
           /\ \A u \in Parties : g[u] \in Int /\ h[u] \in Int
<1> USE DEF Moves
<1>0. IsFiniteSet(S) /\ IsFiniteSet(Parties)
    BY LedgerFinite
<1>1. \A s \in S : f[s] \in Int /\ settlement[s].from \in Parties /\ settlement[s].to \in Parties
  <2> SUFFICES ASSUME NEW s \in S
               PROVE  f[s] \in Int /\ settlement[s].from \in Parties /\ settlement[s].to \in Parties
      OBVIOUS
  <2>1. settlement[s].amount \in Nat /\ settlement[s].from \in Parties /\ settlement[s].to \in Parties
      BY PaidFacts
  <2> QED
      BY <2>1
<1>2. PICK from, to : /\ from = [s \in S |-> settlement[s].from]
                      /\ to = [s \in S |-> settlement[s].to]
    OBVIOUS
<1>3. PICK P, Q : /\ P = [u \in Parties |-> {s \in S : settlement[s].from = u}]
                  /\ Q = [u \in Parties |-> {s \in S : settlement[s].to = u}]
    OBVIOUS
<1>4. Keyed(f, from, S, Parties, P, g)
  <2>1. \A u \in Parties : P[u] = {s \in S : from[s] = u} /\ g[u] = SumFunctionOnSet(f, P[u])
      BY <1>2, <1>3
  <2>2. \A s \in S : f[s] \in Int /\ from[s] \in Parties
      BY <1>1, <1>2
  <2> QED
      BY <2>1, <2>2, <1>0 DEF Keyed
<1>5. Keyed(f, to, S, Parties, Q, h)
  <2>1. \A u \in Parties : Q[u] = {s \in S : to[s] = u} /\ h[u] = SumFunctionOnSet(f, Q[u])
      BY <1>2, <1>3
  <2>2. \A s \in S : f[s] \in Int /\ to[s] \in Parties
      BY <1>1, <1>2
  <2> QED
      BY <2>1, <2>2, <1>0 DEF Keyed
<1>6. SumFunctionOnSet(g, Parties) = SumFunctionOnSet(f, S)
    BY <1>4, SumKeyed
<1>7. SumFunctionOnSet(h, Parties) = SumFunctionOnSet(f, S)
    BY <1>5, SumKeyed
<1>8. ASSUME NEW u \in Parties PROVE g[u] \in Int /\ h[u] \in Int
  <2>0. \A s \in S : f[s] \in Int
      BY <1>1
  <2>1. PICK T \in SUBSET S : T = {s \in S : settlement[s].from = u}
      OBVIOUS
  <2>2. PICK V \in SUBSET S : V = {s \in S : settlement[s].to = u}
      OBVIOUS
  <2>3. SumFunctionOnSet(f, T) \in Int /\ SumFunctionOnSet(f, V) \in Int
      BY <2>0, <1>0, SumGrows
  <2> QED
      BY <2>1, <2>2, <2>3
<1> QED
    BY <1>6, <1>7, <1>8

\* The balances of an asset are integers, and what one is owed the others owe.
LEMMA NetsBalance ==
    ASSUME LedgerInv, NEW a
    PROVE  /\ \A u \in Parties : Net(u, a) \in Int
           /\ SumFunctionOnSet(Nets(a), Parties) = 0
<1>0. ExpensesInv /\ SettlementsInv /\ IsFiniteSet(Parties)
    BY LedgerFinite DEF LedgerInv
<1>1. PICK S \in SUBSET Rows : S = {e \in Rows : expense[e].bill.asset = a}
    OBVIOUS
<1>2. PICK C \in SUBSET Paid : C = {s \in Paid : settlement[s].status = "confirmed" /\ settlement[s].asset = a}
    OBVIOUS
<1>3. PICK credit : credit = [e \in Rows |-> SumFunctionOnSet(expense[e].share, Unsettled(expense[e]))]
    OBVIOUS
<1>4. PICK amount : amount = [s \in Paid |-> settlement[s].amount]
    OBVIOUS
<1>5. PICK debit : debit = [u \in Parties |->
                     [e \in Rows |-> SumFunctionOnSet(expense[e].share, OwedBy(expense[e], u))]]
    OBVIOUS
<1>6. PICK p, q, g, h : /\ p = [u \in Parties |-> SumFunctionOnSet(credit, {e \in S : expense[e].bill.payer = u})]
                        /\ q = [u \in Parties |-> SumFunctionOnSet(debit[u], S)]
                        /\ g = [u \in Parties |-> SumFunctionOnSet(amount, {s \in C : settlement[s].from = u})]
                        /\ h = [u \in Parties |-> SumFunctionOnSet(amount, {s \in C : settlement[s].to = u})]
    OBVIOUS
<1>7. ASSUME NEW u \in Parties PROVE Net(u, a) = p[u] - q[u] + g[u] - h[u]
  <2>1. /\ p[u] = SumFunctionOnSet(credit, {e \in S : expense[e].bill.payer = u})
        /\ q[u] = SumFunctionOnSet(debit[u], S)
        /\ g[u] = SumFunctionOnSet(amount, {s \in C : settlement[s].from = u})
        /\ h[u] = SumFunctionOnSet(amount, {s \in C : settlement[s].to = u})
      BY <1>6
  <2>2. debit[u] = [e \in Rows |-> SumFunctionOnSet(expense[e].share, OwedBy(expense[e], u))]
      BY <1>5
  <2> QED
      BY <2>1, <2>2, <1>1, <1>2, <1>3, <1>4, Zenon DEF Net
<1>8. /\ SumFunctionOnSet(p, Parties) = SumFunctionOnSet(credit, S)
      /\ \A u \in Parties : p[u] \in Int
  <2>1. \A e \in S : credit[e] \in Int
    <3> SUFFICES ASSUME NEW e \in S PROVE SumFunctionOnSet(expense[e].share, Unsettled(expense[e])) \in Int
        BY <1>3
    <3>1. Unsettled(expense[e]) \in SUBSET DOMAIN expense[e].share
        BY DEF Unsettled, Others
    <3> QED
        BY <3>1, <1>0, ShareSumType
  <2>2. \A u \in Parties : p[u] = SumFunctionOnSet(credit, {e \in S : expense[e].bill.payer = u})
      BY <1>6
  <2>3. ByPayer(S, credit, p)
      BY <2>1, <2>2 DEF ByPayer
  <2> QED
      BY <2>3, <1>0, SumByPayer
<1>9. /\ SumFunctionOnSet(q, Parties) = SumFunctionOnSet(credit, S)
      /\ \A u \in Parties : q[u] \in Int
  <2>1. PICK part : part = [e \in Rows |-> Unsettled(expense[e])]
      OBVIOUS
  <2>2. \A e \in S : part[e] \in SUBSET DOMAIN expense[e].share
      BY <2>1 DEF Unsettled, Others
  <2>3. \A u \in Parties : \A e \in S :
          debit[u][e] = SumFunctionOnSet(expense[e].share, {i \in part[e] : expense[e].bill.who[i] = u})
      BY <2>1, <1>5 DEF OwedBy
  <2>4. \A e \in S : credit[e] = SumFunctionOnSet(expense[e].share, part[e])
      BY <2>1, <1>3
  <2>5. \A u \in Parties : q[u] = SumFunctionOnSet(debit[u], S)
      BY <1>6
  <2>6. ByWho(S, part, debit, q, credit)
      BY <2>2, <2>3, <2>4, <2>5 DEF ByWho
  <2> QED
      BY <2>6, <1>0, SumByWho
<1>10. /\ SumFunctionOnSet(g, Parties) = SumFunctionOnSet(h, Parties)
       /\ \A u \in Parties : g[u] \in Int /\ h[u] \in Int
  <2>1. \A u \in Parties : g[u] = SumFunctionOnSet(amount, {s \in C : settlement[s].from = u})
      BY <1>6
  <2>2. \A u \in Parties : h[u] = SumFunctionOnSet(amount, {s \in C : settlement[s].to = u})
      BY <1>6
  <2>3. Moves(C, amount, g, h)
      BY <2>1, <2>2, <1>4 DEF Moves
  <2> QED
      BY <2>3, <1>0, SumMoved
<1>11. \A u \in Parties : Net(u, a) \in Int
    BY <1>7, <1>8, <1>9, <1>10
<1>12. SumFunctionOnSet(Nets(a), Parties) = 0
  <2>1. PICK n, x, y : /\ n = Nets(a) /\ x = [u \in Parties |-> p[u] + g[u]]
                       /\ y = [u \in Parties |-> q[u] + h[u]]
      OBVIOUS
  <2>2. \A u \in Parties : n[u] = Net(u, a) /\ x[u] = p[u] + g[u] /\ y[u] = q[u] + h[u]
      BY <2>1 DEF Nets
  <2>3. \A u \in Parties : p[u] \in Int /\ g[u] \in Int /\ x[u] = p[u] + g[u]
      BY <2>2, <1>8, <1>10
  <2>4. \A u \in Parties : q[u] \in Int /\ h[u] \in Int /\ y[u] = q[u] + h[u]
      BY <2>2, <1>9, <1>10
  <2>5. SumFunctionOnSet(x, Parties) = SumFunctionOnSet(p, Parties) + SumFunctionOnSet(g, Parties)
      BY <2>3, <1>0, SumPlus
  <2>6. SumFunctionOnSet(y, Parties) = SumFunctionOnSet(q, Parties) + SumFunctionOnSet(h, Parties)
      BY <2>4, <1>0, SumPlus
  <2>7. \A u \in Parties : n[u] \in Int /\ y[u] \in Int /\ x[u] = n[u] + y[u]
      BY <2>2, <2>3, <2>4, <1>7
  <2>8. SumFunctionOnSet(x, Parties) = SumFunctionOnSet(n, Parties) + SumFunctionOnSet(y, Parties)
      BY <2>7, <1>0, SumPlus
  <2>9. SumFunctionOnSet(n, Parties) \in Int /\ SumFunctionOnSet(y, Parties) \in Int
      BY <2>7, <1>0, SumType
  <2>10. SumFunctionOnSet(x, Parties) = SumFunctionOnSet(y, Parties)
      BY <2>5, <2>6, <1>8, <1>9, <1>10
  <2>11. SumFunctionOnSet(n, Parties) = 0
      BY <2>8, <2>9, <2>10
  <2> QED
      BY <2>1, <2>11
<1> QED
    BY <1>11, <1>12

\* SetToSeq lists the parties without repetition.
LEMMA PartyList ==
    LET us == SetToSeq(Parties)
        n == Cardinality(Parties)
    IN  /\ n \in Nat /\ us \in [1..n -> Parties]
        /\ \A j, k \in 1..n : us[j] = us[k] => j = k
        /\ \A u \in Parties : \E k \in 1..n : us[k] = u
<1>0. IsFiniteSet(Parties)
    BY LedgerFinite
<1>1. PICK n \in Nat : n = Cardinality(Parties) /\ ExistsBijection(1..n, Parties)
    BY <1>0, FS_CardinalityType
<1>2. PICK f \in [1..n -> Parties] : IsInjective(f)
    BY <1>1 DEF ExistsBijection, Bijection, Injection
<1>3. PICK us : us = SetToSeq(Parties)
    OBVIOUS
<1>4. us = CHOOSE g \in [1..n -> Parties] : IsInjective(g)
    BY <1>1, <1>3, Zenon DEF SetToSeq
<1>5. us \in [1..n -> Parties] /\ IsInjective(us)
    BY <1>2, <1>4, Zenon
<1>6. us \in Injection(1..n, Parties)
    BY <1>5 DEF Injection
<1>7. us \in Surjection(1..n, Parties)
  <2>1. Cardinality(1..n) = Cardinality(Parties)
      BY <1>1, IntervalSize
  <2> QED
      BY <2>1, <1>0, <1>6, FS_Injection
<1>8. \A u \in Parties : \E k \in 1..n : us[k] = u
    BY <1>7 DEF Surjection
<1>9. \A j, k \in 1..n : us[j] = us[k] => j = k
    BY <1>5 DEF IsInjective
<1> QED
    BY <1>1, <1>3, <1>5, <1>8, <1>9, Zenon

\* One asset of a breakdown, listed and normalized.
LEMMA NormalizedExact ==
    ASSUME NEW amount, \A u \in Parties : amount[u] \in Nat, NEW a, NEW rate \in Nat,
           NEW us, us = SetToSeq(Parties)
    PROVE  /\ Total(Normalized(amount, us, a, rate)) =
                IF a = Target THEN SumFunctionOnSet(amount, Parties)
                ELSE (SumFunctionOnSet(amount, Parties) * rate) \div RateScale
           /\ a # Target => \A k \in DOMAIN us :
                Distance(Normalized(amount, us, a, rate)[k] * RateScale, amount[us[k]] * rate) < RateScale
<1>0. PICK n \in Nat : /\ us \in [1..n -> Parties]
                       /\ \A j, k \in 1..n : us[j] = us[k] => j = k
                       /\ \A u \in Parties : \E k \in 1..n : us[k] = u
    BY PartyList
<1>1. PICK s : s = [k \in DOMAIN us |-> amount[us[k]]]
    OBVIOUS
<1>2. /\ s \in Seq(Nat) /\ DOMAIN s = 1..n /\ DOMAIN us = 1..n
      /\ \A k \in 1..n : s[k] = amount[us[k]]
  <2>1. DOMAIN us = 1..n
      BY <1>0
  <2>2. s = [k \in 1..n |-> amount[us[k]]] /\ \A k \in 1..n : amount[us[k]] \in Nat
      BY <2>1, <1>0, <1>1
  <2>3. s \in Seq(Nat)
      BY <2>2
  <2> QED
      BY <2>1, <2>2, <2>3
<1>3. Total(s) = SumFunctionOnSet(amount, Parties)
  <2> DEFINE I == 1..n
  <2>1. IsFiniteSet(I) /\ IsFiniteSet(Parties)
      BY IntervalSize, LedgerFinite
  <2>2. /\ us \in [I -> Parties] /\ \A j, k \in I : us[j] = us[k] => j = k
        /\ \A u \in Parties : \E k \in I : us[k] = u
      BY <1>0
  <2>3. \A u \in Parties : amount[u] \in Int
      OBVIOUS
  <2>4. \A k \in I : s[k] = amount[us[k]]
      BY <1>2
  <2>6. Total(s) = SumFunctionOnSet(s, I)
      BY <1>2, Zenon DEF Total, SumFunction
  <2> HIDE DEF I
  <2>5. SumFunctionOnSet(s, I) = SumFunctionOnSet(amount, Parties)
      BY <2>1, <2>2, <2>3, <2>4, SumListed
  <2> QED
      BY <2>5, <2>6
<1>4. Normalized(amount, us, a, rate) = IF a = Target THEN s ELSE ConvertAllocations(s, rate)
    BY <1>1, Zenon DEF Normalized
<1>5. CASE a = Target
    BY <1>3, <1>4, <1>5, Zenon
<1>6. CASE a # Target
  <2>1. PICK c : c = ConvertAllocations(s, rate)
      OBVIOUS
  <2>2. /\ Total(c) = (Total(s) * rate) \div RateScale
        /\ \A i \in DOMAIN s : Distance(c[i] * RateScale, s[i] * rate) < RateScale
      BY <2>1, <1>2, Converted, Zenon
  <2>3. Normalized(amount, us, a, rate) = c
      BY <2>1, <1>4, <1>6, Zenon
  <2>4. \A i \in DOMAIN us : Distance(c[i] * RateScale, amount[us[i]] * rate) < RateScale
      BY <2>2, <1>2, Zenon
  <2>5. Total(c) = (SumFunctionOnSet(amount, Parties) * rate) \div RateScale
      BY <2>2, <1>3, Zenon
  <2> QED
      BY <2>3, <2>4, <2>5, <1>6, Zenon
<1> QED
    BY <1>5, <1>6

\* What the users of an asset front is what they consume.
LEMMA FrontedIsConsumed ==
    ASSUME ExpensesInv, Breakable, NEW a,
           NEW fronted, fronted = [u \in Parties |-> Fronted(u, a)],
           NEW consumed, consumed = [u \in Parties |-> Consumed(u, a)]
    PROVE  /\ \A u \in Parties : fronted[u] \in Nat
           /\ \A u \in Parties : consumed[u] \in Nat
           /\ SumFunctionOnSet(fronted, Parties) = SumFunctionOnSet(consumed, Parties)
<1>1. PICK S \in SUBSET Rows : S = {e \in Rows : expense[e].bill.asset = a}
    OBVIOUS
<1>2. PICK full : full = [e \in Rows |-> Total(expense[e].share)]
    OBVIOUS
<1>3. PICK c : c = [u \in Parties |-> [e \in Rows |-> SumFunctionOnSet(expense[e].share,
                      {i \in DOMAIN expense[e].share : expense[e].bill.who[i] = u})]]
    OBVIOUS
<1>4. \A u \in Parties : /\ fronted[u] = SumFunctionOnSet(full, {e \in S : expense[e].bill.payer = u})
                         /\ consumed[u] = SumFunctionOnSet(c[u], S)
  <2> SUFFICES ASSUME NEW u \in Parties
               PROVE  /\ fronted[u] = SumFunctionOnSet(full, {e \in S : expense[e].bill.payer = u})
                      /\ consumed[u] = SumFunctionOnSet(c[u], S)
      OBVIOUS
  <2>1. fronted[u] = Fronted(u, a) /\ consumed[u] = Consumed(u, a)
      OBVIOUS
  <2>2. {e \in Rows : expense[e].bill.asset = a /\ expense[e].bill.payer = u}
          = {e \in S : expense[e].bill.payer = u}
      BY <1>1
  <2>3. c[u] = [e \in Rows |-> SumFunctionOnSet(expense[e].share,
                      {i \in DOMAIN expense[e].share : expense[e].bill.who[i] = u})]
      BY <1>3
  <2> QED
      BY <2>1, <2>2, <2>3, <1>1, <1>2, Zenon DEF Fronted, Consumed
<1>5. ASSUME NEW e \in Rows, NEW T \in SUBSET DOMAIN expense[e].share
      PROVE  SumFunctionOnSet(expense[e].share, T) \in Nat
  <2>1. PICK f : f = expense[e].share
      OBVIOUS
  <2>2. \A i \in DOMAIN expense[e].share : expense[e].share[i] \in Int
      BY RowFacts
  <2>3. \A i \in DOMAIN expense[e].share : expense[e].share[i] >= 0
      BY DEF Breakable
  <2>4. \A i \in T : f[i] \in Nat
      BY <2>1, <2>2, <2>3
  <2>5. IsFiniteSet(T)
      BY ShareSumType
  <2> QED
      BY <2>1, <2>4, <2>5, SumNat
<1>6. \A e \in Rows : full[e] \in Nat /\ full[e] = SumFunctionOnSet(expense[e].share, DOMAIN expense[e].share)
  <2> SUFFICES ASSUME NEW e \in Rows
               PROVE  full[e] \in Nat /\ full[e] = SumFunctionOnSet(expense[e].share, DOMAIN expense[e].share)
      OBVIOUS
  <2>1. full[e] = SumFunctionOnSet(expense[e].share, DOMAIN expense[e].share)
      BY <1>2 DEF Total, SumFunction
  <2>2. PICK T \in SUBSET DOMAIN expense[e].share : T = DOMAIN expense[e].share
      OBVIOUS
  <2>3. SumFunctionOnSet(expense[e].share, T) \in Nat
      BY <1>5
  <2> QED
      BY <2>1, <2>2, <2>3
<1>7. \A u \in Parties : \A e \in S : c[u][e] \in Nat
  <2> SUFFICES ASSUME NEW u \in Parties, NEW e \in S PROVE c[u][e] \in Nat
      OBVIOUS
  <2>1. PICK T \in SUBSET DOMAIN expense[e].share : T = {i \in DOMAIN expense[e].share : expense[e].bill.who[i] = u}
      OBVIOUS
  <2>2. SumFunctionOnSet(expense[e].share, T) \in Nat
      BY <1>5
  <2> QED
      BY <2>1, <2>2, <1>3
<1>8. ASSUME NEW u \in Parties PROVE fronted[u] \in Nat /\ consumed[u] \in Nat
  <2>1. PICK T \in SUBSET S : T = {e \in S : expense[e].bill.payer = u}
      OBVIOUS
  <2>2. IsFiniteSet(T) /\ IsFiniteSet(S)
      BY LedgerFinite
  <2>3. SumFunctionOnSet(full, T) \in Nat
    <3>1. \A e \in T : full[e] \in Nat
        BY <1>6
    <3> QED
        BY <3>1, <2>2, SumNat
  <2>4. PICK v : v = c[u]
      OBVIOUS
  <2>5. SumFunctionOnSet(v, S) \in Nat
    <3>1. \A e \in S : v[e] \in Nat
        BY <1>7, <2>4
    <3> QED
        BY <3>1, <2>2, SumNat
  <2> QED
      BY <2>1, <2>3, <2>4, <2>5, <1>4
<1>9. SumFunctionOnSet(fronted, Parties) = SumFunctionOnSet(full, S)
  <2>1. ByPayer(S, full, fronted)
      BY <1>4, <1>6 DEF ByPayer
  <2> QED
      BY <2>1, SumByPayer
<1>10. SumFunctionOnSet(consumed, Parties) = SumFunctionOnSet(full, S)
  <2>1. PICK part : part = [e \in Rows |-> DOMAIN expense[e].share]
      OBVIOUS
  <2>2. \A e \in S : part[e] \in SUBSET DOMAIN expense[e].share
      BY <2>1
  <2>3. \A u \in Parties : \A e \in S :
          c[u][e] = SumFunctionOnSet(expense[e].share, {i \in part[e] : expense[e].bill.who[i] = u})
      BY <2>1, <1>3
  <2>4. \A e \in S : full[e] = SumFunctionOnSet(expense[e].share, part[e])
      BY <2>1, <1>6
  <2>5. ByWho(S, part, c, consumed, full)
      BY <2>2, <2>3, <2>4, <1>4 DEF ByWho
  <2> QED
      BY <2>5, SumByWho
<1> QED
    BY <1>8, <1>9, <1>10

\* The breakdown of a group adds up in every asset.
LEMMA BreakdownExact ==
    ASSUME LedgerInv
    PROVE  BreakdownBalances
<1>0. ExpensesInv
    BY DEF LedgerInv
<1> SUFFICES ASSUME Breakable, NEW a \in Assets, NEW rate \in Rates,
                    NEW fronted, fronted = [u \in Parties |-> Fronted(u, a)],
                    NEW consumed, consumed = [u \in Parties |-> Consumed(u, a)]
             PROVE  LET us == SetToSeq(Parties)
                        paid == Normalized(fronted, us, a, rate)
                        owed == Normalized(consumed, us, a, rate)
                    IN  /\ Total(paid) = Total(owed)
                        /\ Total(owed) = IF a = Target THEN SumFunction(consumed)
                                         ELSE (SumFunction(consumed) * rate) \div RateScale
                        /\ a # Target => \A k \in DOMAIN us :
                             Distance(owed[k] * RateScale, consumed[us[k]] * rate) < RateScale
    BY Zenon DEF BreakdownBalances
<1>1. /\ \A u \in Parties : fronted[u] \in Nat
      /\ \A u \in Parties : consumed[u] \in Nat
      /\ SumFunctionOnSet(fronted, Parties) = SumFunctionOnSet(consumed, Parties)
    BY <1>0, FrontedIsConsumed
<1>2. SumFunction(consumed) = SumFunctionOnSet(consumed, Parties)
  <2>1. DOMAIN consumed = Parties
      OBVIOUS
  <2> QED
      BY <2>1, Zenon DEF SumFunction
<1>3. rate \in Nat
    BY LedgerAssumption
<1>4. PICK us : us = SetToSeq(Parties)
    OBVIOUS
<1>5. Total(Normalized(fronted, us, a, rate)) =
        IF a = Target THEN SumFunctionOnSet(fronted, Parties)
        ELSE (SumFunctionOnSet(fronted, Parties) * rate) \div RateScale
    BY <1>1, <1>3, <1>4, NormalizedExact, Zenon
<1>6. /\ Total(Normalized(consumed, us, a, rate)) =
           IF a = Target THEN SumFunctionOnSet(consumed, Parties)
           ELSE (SumFunctionOnSet(consumed, Parties) * rate) \div RateScale
      /\ a # Target => \A k \in DOMAIN us :
           Distance(Normalized(consumed, us, a, rate)[k] * RateScale, consumed[us[k]] * rate) < RateScale
    BY <1>1, <1>3, <1>4, NormalizedExact, Zenon
<1> QED
    BY <1>1, <1>2, <1>4, <1>5, <1>6, Zenon

\* Money is conserved in every state the invariant allows.
LEMMA InvConserves == LedgerInv => MoneyIsConserved
<1> SUFFICES ASSUME LedgerInv PROVE MoneyIsConserved
    OBVIOUS
<1>0. ExpensesInv
    BY DEF LedgerInv
<1>1. SharesCoverBill
    BY <1>0, RowFacts DEF SharesCoverBill
<1>2. SplitIsProportional
  <2> SUFFICES ASSUME NEW e \in Rows, NEW b, b = expense[e].bill
               PROVE  LET w == IF b.kind = "equal" THEN [i \in DOMAIN b.input |-> 1] ELSE b.input
                          s == SplitExpense(b.total, b.kind, b.input)
                      IN  (b.kind = "percentage" => Total(b.input) = 10 * Cent) =>
                            /\ Total(s) = b.total
                            /\ \A i \in DOMAIN s : Distance(s[i] * Total(w), b.total * w[i]) < Total(w)
      BY Zenon DEF SplitIsProportional
  <2>1. b \in Bills
      BY <1>0, RowFacts
  <2> QED
      BY <2>1, SplitExact, Zenon
<1>3. BreakdownBalances
    BY BreakdownExact
<1>4. ConversionRounds
  <2> SUFFICES ASSUME NEW a \in Assets, NEW u \in Parties, NEW rate \in Rates, NEW net, net = Nets(a)
               PROVE  LET exact == net[u] * rate
                          up == ConvertStroops(net[u], rate, "up") * RateScale
                          down == ConvertStroops(net[u], rate, "down") * RateScale
                          half == ConvertStroops(net[u], rate, "half-up") * RateScale
                      IN  /\ Distance(down, 0) <= Distance(exact, 0) /\ Distance(exact, 0) <= Distance(up, 0)
                          /\ Distance(down, exact) < RateScale /\ Distance(up, exact) < RateScale
                          /\ half = IF Distance(up, exact) <= Distance(down, exact) THEN up ELSE down
      BY Zenon DEF ConversionRounds
  <2>1. PICK n \in Int : n = net[u]
    <3>1. net[u] = Net(u, a)
        BY DEF Nets
    <3> QED
        BY <3>1, NetsBalance
  <2>2. rate \in Nat
      BY LedgerAssumption
  <2> QED
      BY <2>1, <2>2, ConversionIsRounding, Zenon
<1> QED
    BY <1>1, <1>2, <1>3, <1>4 DEF MoneyIsConserved

(* Money is conserved for every group, bill, rate and history: the shares     *)
(* computeShares stores make up the bill, splitExpense gives the total away   *)
(* within a stroop of each proportion, the breakdown of the books fronts what *)
(* it consumes in every asset, converted or not, and convertStroops rounds to *)
(* the amounts next to the exact value.                                       *)
THEOREM LedgerConservesMoney == LedgerSpec => []MoneyIsConserved
    BY LedgerInvHolds, InvConserves, PTL

-----------------------------------------------------------------------------
(* The loop of the suggestions, turn by turn. *)

\* A finite set of integers that is not empty has a least member.
LEMMA Least ==
    ASSUME NEW S, IsFiniteSet(S), S \subseteq Int, S # {}
    PROVE  \E x \in S : \A y \in S : x =< y
<1> DEFINE G == {T \in SUBSET S : T # {} => \E x \in T : \A y \in T : x =< y}
<1>1. {} \in G
    OBVIOUS
<1>2. ASSUME NEW T \in SUBSET S, NEW z \in S, T \in G, z \notin T
      PROVE  T \cup {z} \in G
  <2>1. CASE T = {}
      BY <2>1
  <2>2. CASE T # {}
    <3>1. PICK x \in T : \A y \in T : x =< y
        BY <1>2, <2>2
    <3>2. \E w \in T \cup {z} : \A y \in T \cup {z} : w =< y
      <4>1. CASE x =< z
          BY <4>1, <3>1
      <4>2. CASE z =< x
          BY <4>2, <3>1
      <4> QED
          BY <4>1, <4>2
    <3> QED
        BY <3>2
  <2> QED
      BY <2>1, <2>2
<1>3. S \in G
  <2> HIDE DEF G
  <2> QED
      BY <1>1, <1>2, FiniteInduction
<1> QED
    BY <1>3

\* Induction up to a number.
LEMMA UpTo ==
    ASSUME NEW n \in Nat, NEW G, 0 \in G, \A k \in 0..n : k < n /\ k \in G => k + 1 \in G
    PROVE  n \in G
<1> DEFINE B == {k \in 0..n : k \notin G}
<1>1. IsFiniteSet(0..n)
    BY FS_Interval
<1>2. IsFiniteSet(B) /\ B \subseteq Int
    BY <1>1, FS_Subset
<1>3. ASSUME B # {} PROVE FALSE
  <2>1. PICK x \in B : \A y \in B : x =< y
    <3> HIDE DEF B
    <3> QED
      BY <1>2, <1>3, Least
  <2>2. x # 0 /\ x \in 0..n
      BY <2>1
  <2>3. x - 1 \in 0..n /\ x - 1 < n /\ ~(x =< x - 1)
      BY <2>2
  <2>4. x - 1 \in G
      BY <2>1, <2>3
  <2>5. (x - 1) + 1 \in G
      BY <2>3, <2>4
  <2>6. (x - 1) + 1 = x
      BY <2>2
  <2> QED
      BY <2>1, <2>5, <2>6
<1> QED
    BY <1>3

\* The turns of the loop from its start.
FirstMeeting(net) == [i |-> 1, j |-> 1, out |-> <<>>, left |-> [u \in DOMAIN net |-> Distance(net[u], 0)]]
\* The run of the loop, one state for each turn.
Turns(run, net, ds, cs, n) ==
    run = [k \in 0..n |-> IF k = 0 THEN FirstMeeting(net) ELSE Meet(run[k - 1], ds, cs)]

\* The loop has a run.
LEMMA TurnsExist ==
    ASSUME NEW net, NEW ds, NEW cs, NEW n \in Nat
    PROVE  \E run : Turns(run, net, ds, cs, n)
<1> DEFINE G == {k \in 0..n : \E run : Turns(run, net, ds, cs, k)}
<1>1. 0 \in G
  <2> DEFINE r == [k \in 0..0 |-> FirstMeeting(net)]
  <2>1. r = [k \in 0..0 |-> IF k = 0 THEN FirstMeeting(net) ELSE Meet(r[k - 1], ds, cs)]
    <3>1. \A k \in 0..0 : k = 0
        OBVIOUS
    <3> QED
        BY <3>1
  <2> HIDE DEF r
  <2>2. Turns(r, net, ds, cs, 0)
      BY <2>1 DEF Turns
  <2> QED
      BY <2>2
<1>2. ASSUME NEW k \in 0..n, k < n, k \in G PROVE k + 1 \in G
  <2>1. PICK g : Turns(g, net, ds, cs, k)
      BY <1>2
  <2> DEFINE h == [x \in 0..(k + 1) |-> IF x = k + 1 THEN Meet(g[k], ds, cs) ELSE g[x]]
  <2>2. ASSUME NEW x \in 0..(k + 1)
        PROVE  h[x] = IF x = 0 THEN FirstMeeting(net) ELSE Meet(h[x - 1], ds, cs)
    <3>1. CASE x = k + 1
      <4>1. x # 0 /\ x - 1 = k /\ k \in 0..(k + 1) /\ k # k + 1
          BY <3>1
      <4>2. h[x] = Meet(g[k], ds, cs) /\ h[k] = g[k]
          BY <3>1, <4>1
      <4> QED
          BY <4>1, <4>2, Zenon
    <3>2. CASE x # k + 1
      <4>1. x \in 0..k /\ h[x] = g[x]
          BY <3>2
      <4>2. g[x] = IF x = 0 THEN FirstMeeting(net) ELSE Meet(g[x - 1], ds, cs)
          BY <2>1, <4>1 DEF Turns
      <4>3. x # 0 => h[x - 1] = g[x - 1]
          BY <4>1
      <4> HIDE DEF h
      <4> QED
          BY <4>1, <4>2, <4>3
    <3> QED
        BY <3>1, <3>2
  <2>3. h = [x \in 0..(k + 1) |-> h[x]]
      OBVIOUS
  <2> HIDE DEF h
  <2>4. h = [x \in 0..(k + 1) |-> IF x = 0 THEN FirstMeeting(net) ELSE Meet(h[x - 1], ds, cs)]
      BY <2>2, <2>3
  <2>5. Turns(h, net, ds, cs, k + 1)
      BY <2>4 DEF Turns
  <2>6. k + 1 \in 0..n
      BY <1>2
  <2> QED
      BY <2>5, <2>6
<1>3. n \in G
  <2> HIDE DEF G
  <2> QED
      BY <1>1, <1>2, UpTo
<1> QED
    BY <1>3

\* Meetings is the state after as many turns as there are parties.
LEMMA MeetingsIsRun ==
    ASSUME NEW net, NEW ds, NEW cs, NEW n \in Nat, n = Cardinality(DOMAIN net)
    PROVE  \E run : /\ Meetings(net, ds, cs) = run[n] /\ run[0] = FirstMeeting(net)
                    /\ \A k \in 0..n : k < n => run[k + 1] = Meet(run[k], ds, cs)
<1>1. PICK run : run = CHOOSE r : Turns(r, net, ds, cs, n)
    OBVIOUS
<1>2. Turns(run, net, ds, cs, n)
    BY <1>1, TurnsExist, Zenon
<1>3. Meetings(net, ds, cs) = run[n]
    BY <1>1, Zenon DEF Meetings, Turns, FirstMeeting
<1>4. run[0] = FirstMeeting(net)
    BY <1>2 DEF Turns
<1>5. ASSUME NEW k \in 0..n, k < n PROVE run[k + 1] = Meet(run[k], ds, cs)
  <2>1. k + 1 \in 0..n /\ k + 1 # 0 /\ (k + 1) - 1 = k
      BY <1>5
  <2>2. run[k + 1] = IF k + 1 = 0 THEN FirstMeeting(net) ELSE Meet(run[(k + 1) - 1], ds, cs)
      BY <1>2, <2>1 DEF Turns
  <2> QED
      BY <2>1, <2>2, Zenon
<1> QED
    BY <1>3, <1>4, <1>5

\* What a list of transfers takes from a user and brings to one.
Transfer == [from : Parties, to : Parties, amount : Nat \ {0}]
\* The amounts of a list of transfers.
AmountsOf(out) == [k \in DOMAIN out |-> out[k].amount]
\* What the list takes from a user.
PaidBy(out, u) == SumFunctionOnSet(AmountsOf(out), {k \in DOMAIN out : out[k].from = u})
\* What the list brings to a user.
PaidTo(out, u) == SumFunctionOnSet(AmountsOf(out), {k \in DOMAIN out : out[k].to = u})

\* A sum over a part of the list, and that of the list with one more.
Longer(out, r, out2, S) ==
    out \in Seq(Transfer) /\ r \in Transfer /\ out2 = Append(out, r) /\ S \in SUBSET DOMAIN out

\* A transfer more adds its amount to the sums it belongs to.
LEMMA OneMore ==
    ASSUME NEW out, NEW r, NEW out2, NEW S, Longer(out, r, out2, S)
    PROVE  /\ SumFunctionOnSet(AmountsOf(out), S) \in Int
           /\ SumFunctionOnSet(AmountsOf(out2), S) = SumFunctionOnSet(AmountsOf(out), S)
           /\ SumFunctionOnSet(AmountsOf(out2), S \cup {Len(out) + 1}) =
                SumFunctionOnSet(AmountsOf(out), S) + r.amount
<1> USE DEF Longer
<1>1. PICK n \in Nat : n = Len(out) /\ DOMAIN out = 1..n
    OBVIOUS
<1>2. PICK f, g : f = AmountsOf(out) /\ g = AmountsOf(out2)
    OBVIOUS
<1>3. /\ DOMAIN out2 = 1..(n + 1) /\ out2[n + 1] = r
      /\ \A k \in 1..n : out2[k] = out[k] /\ out[k] \in Transfer
    BY <1>1
<1>4. /\ \A k \in 1..n : f[k] \in Int /\ g[k] = f[k]
      /\ g[n + 1] = r.amount /\ r.amount \in Int
  <2>1. r.amount \in Int /\ \A k \in 1..n : out[k].amount \in Int
      BY <1>3 DEF Transfer
  <2> QED
      BY <2>1, <1>1, <1>2, <1>3 DEF AmountsOf
<1>5. S \in SUBSET (1..n) /\ n + 1 \notin S
    BY <1>1
<1>6. IsFiniteSet(S)
    BY <1>5, IntervalSize, FS_Subset
<1>7. \A k \in S : f[k] \in Int /\ g[k] = f[k]
    BY <1>4, <1>5
<1>8. PICK m : m = n + 1
    OBVIOUS
<1>9. \A k \in S \cup {m} : g[k] \in Int
    BY <1>4, <1>7, <1>8
<1>10. SumFunctionOnSet(f, S) \in Int /\ SumFunctionOnSet(g, S) = SumFunctionOnSet(f, S)
  <2>1. SumFunctionOnSet(f, S) \in Int
      BY <1>6, <1>7, SumType
  <2>2. SumFunctionOnSet(g, S) = SumFunctionOnSet(f, S)
      BY <1>6, <1>7, SumCong
  <2> QED
      BY <2>1, <2>2
<1>11. SumFunctionOnSet(g, S \cup {m}) = g[m] + SumFunctionOnSet(g, S)
  <2>1. m \notin S
      BY <1>5, <1>8
  <2> QED
      BY <2>1, <1>6, <1>9, SumAdd
<1>12. SumFunctionOnSet(g, S \cup {m}) = SumFunctionOnSet(f, S) + r.amount
    BY <1>4, <1>8, <1>10, <1>11
<1> QED
    BY <1>1, <1>2, <1>8, <1>10, <1>12, Zenon

\* A transfer more adds its amount to what its ends paid and were paid.
LEMMA FlowAppend ==
    ASSUME NEW out, NEW r, NEW out2, Longer(out, r, out2, {}), NEW u
    PROVE  /\ PaidBy(out, u) \in Int /\ PaidTo(out, u) \in Int
           /\ PaidBy(out2, u) = PaidBy(out, u) + IF r.from = u THEN r.amount ELSE 0
           /\ PaidTo(out2, u) = PaidTo(out, u) + IF r.to = u THEN r.amount ELSE 0
<1>0. out \in Seq(Transfer) /\ r \in Transfer /\ out2 = Append(out, r)
    BY DEF Longer
<1>1. PICK n \in Nat : n = Len(out) /\ DOMAIN out = 1..n
    BY <1>0
<1>3. /\ DOMAIN out2 = 1..(n + 1) /\ out2[n + 1] = r
      /\ \A k \in 1..n : out2[k] = out[k]
    BY <1>0, <1>1
<1>2. r.amount \in Int
    BY <1>0 DEF Transfer
<1>4. PICK S \in SUBSET DOMAIN out : S = {k \in DOMAIN out : out[k].from = u}
    OBVIOUS
<1>5. PICK T \in SUBSET DOMAIN out : T = {k \in DOMAIN out : out[k].to = u}
    OBVIOUS
<1>6. {k \in DOMAIN out2 : out2[k].from = u} = IF r.from = u THEN S \cup {n + 1} ELSE S
    BY <1>1, <1>3, <1>4
<1>7. {k \in DOMAIN out2 : out2[k].to = u} = IF r.to = u THEN T \cup {n + 1} ELSE T
    BY <1>1, <1>3, <1>5
<1>8. /\ SumFunctionOnSet(AmountsOf(out), S) \in Int
      /\ SumFunctionOnSet(AmountsOf(out2), S) = SumFunctionOnSet(AmountsOf(out), S)
      /\ SumFunctionOnSet(AmountsOf(out2), S \cup {n + 1}) = SumFunctionOnSet(AmountsOf(out), S) + r.amount
  <2>1. /\ SumFunctionOnSet(AmountsOf(out), S) \in Int
        /\ SumFunctionOnSet(AmountsOf(out2), S) = SumFunctionOnSet(AmountsOf(out), S)
        /\ SumFunctionOnSet(AmountsOf(out2), S \cup {Len(out) + 1}) = SumFunctionOnSet(AmountsOf(out), S) + r.amount
    <3>1. Longer(out, r, out2, S)
        BY <1>0 DEF Longer
    <3> QED
        BY <3>1, OneMore
  <2>2. Len(out) + 1 = n + 1
      BY <1>1
  <2> QED
      BY <2>1, <2>2, Zenon
<1>9. /\ SumFunctionOnSet(AmountsOf(out), T) \in Int
      /\ SumFunctionOnSet(AmountsOf(out2), T) = SumFunctionOnSet(AmountsOf(out), T)
      /\ SumFunctionOnSet(AmountsOf(out2), T \cup {n + 1}) = SumFunctionOnSet(AmountsOf(out), T) + r.amount
  <2>1. /\ SumFunctionOnSet(AmountsOf(out), T) \in Int
        /\ SumFunctionOnSet(AmountsOf(out2), T) = SumFunctionOnSet(AmountsOf(out), T)
        /\ SumFunctionOnSet(AmountsOf(out2), T \cup {Len(out) + 1}) = SumFunctionOnSet(AmountsOf(out), T) + r.amount
    <3>1. Longer(out, r, out2, T)
        BY <1>0 DEF Longer
    <3> QED
        BY <3>1, OneMore
  <2>2. Len(out) + 1 = n + 1
      BY <1>1
  <2> QED
      BY <2>1, <2>2, Zenon
<1>10. PICK b, c \in Int : b = PaidBy(out, u) /\ c = PaidTo(out, u)
    BY <1>4, <1>5, <1>8, <1>9, Zenon DEF PaidBy, PaidTo
<1>11. PaidBy(out2, u) = b + IF r.from = u THEN r.amount ELSE 0
  <2>1. CASE r.from = u
      BY <2>1, <1>4, <1>6, <1>8, <1>10, Zenon DEF PaidBy
  <2>2. CASE r.from # u
    <3>1. PaidBy(out2, u) = b
        BY <2>2, <1>4, <1>6, <1>8, <1>10, Zenon DEF PaidBy
    <3> QED
        BY <3>1, <2>2
  <2> QED
      BY <2>1, <2>2
<1>12. PaidTo(out2, u) = c + IF r.to = u THEN r.amount ELSE 0
  <2>1. CASE r.to = u
      BY <2>1, <1>5, <1>7, <1>9, <1>10, Zenon DEF PaidTo
  <2>2. CASE r.to # u
    <3>1. PaidTo(out2, u) = c
        BY <2>2, <1>5, <1>7, <1>9, <1>10, Zenon DEF PaidTo
    <3> QED
        BY <3>1, <2>2
  <2> QED
      BY <2>1, <2>2
<1> QED
    BY <1>10, <1>11, <1>12, Zenon

-----------------------------------------------------------------------------
\* Debtors and creditors lined up, each once.
Lined(net, ds, cs, p, q) ==
    /\ net \in [Parties -> Int] /\ p \in Nat /\ q \in Nat
    /\ ds \in [1..p -> Debtors(net)] /\ cs \in [1..q -> Creditors(net)]
    /\ \A x, y \in 1..p : ds[x] = ds[y] => x = y
    /\ \A x, y \in 1..q : cs[x] = cs[y] => x = y
    /\ \A u \in Debtors(net) : \E x \in 1..p : ds[x] = u
    /\ \A u \in Creditors(net) : \E x \in 1..q : cs[x] = u

\* Before place i of a line nothing is left, from there on something.
Reached(s, n, i, left) ==
    /\ i \in 1..(n + 1)
    /\ \A x \in 1..n : /\ x < i => left[s[x]] = 0
                       /\ x >= i => left[s[x]] > 0

\* What is left is the balance less what the transfers moved, the same on both sides.
Remaining(net, left, out) ==
    /\ left \in [Parties -> Nat] /\ out \in Seq(Transfer)
    /\ \A k \in DOMAIN out : out[k].from \in Debtors(net) /\ out[k].to \in Creditors(net)
    /\ \A u \in Debtors(net) : net[u] + PaidBy(out, u) = -left[u]
    /\ \A u \in Creditors(net) : net[u] - PaidTo(out, u) = left[u]
    /\ SumFunctionOnSet(left, Debtors(net)) = SumFunctionOnSet(left, Creditors(net))

\* Every turn moves on in a line and adds a transfer, the last one moves on in both.
Counted(i, j, p, q, out, k) ==
    /\ Len(out) =< i + j - 2
    /\ i =< p /\ j =< q => i + j - 2 >= k
    /\ i > p \/ j > q => Len(out) = 0 \/ Len(out) =< i + j - 3

\* The invariant of the loop.
MeetInv(m, k, net, ds, cs, p, q) ==
    /\ Reached(ds, p, m.i, m.left) /\ Reached(cs, q, m.j, m.left)
    /\ Remaining(net, m.left, m.out)
    /\ Counted(m.i, m.j, p, q, m.out, k)

\* Debtors and creditors are different parties.
LEMMA Sides ==
    ASSUME NEW net \in [Parties -> Int]
    PROVE  /\ Debtors(net) \in SUBSET Parties /\ Creditors(net) \in SUBSET Parties
           /\ IsFiniteSet(Debtors(net)) /\ IsFiniteSet(Creditors(net))
           /\ \A x \in Debtors(net) : \A y \in Creditors(net) : x # y
           /\ \A x \in Debtors(net) : net[x] \in Int /\ net[x] < 0
           /\ \A x \in Creditors(net) : net[x] \in Int /\ net[x] > 0
           /\ \A x \in Parties : x \notin Debtors(net) /\ x \notin Creditors(net) => net[x] = 0
<1>1. Debtors(net) \in SUBSET Parties /\ Creditors(net) \in SUBSET Parties
    BY DEF Debtors, Creditors
<1>2. IsFiniteSet(Debtors(net)) /\ IsFiniteSet(Creditors(net))
    BY <1>1, LedgerFinite, FS_Subset
<1>3. /\ \A x \in Debtors(net) : net[x] \in Int /\ net[x] < 0
      /\ \A x \in Creditors(net) : net[x] \in Int /\ net[x] > 0
    BY <1>1 DEF Debtors, Creditors
<1>4. \A x \in Debtors(net) : \A y \in Creditors(net) : x # y
    BY <1>3
<1>5. \A x \in Parties : x \notin Debtors(net) /\ x \notin Creditors(net) => net[x] = 0
    BY DEF Debtors, Creditors
<1> QED
    BY <1>1, <1>2, <1>3, <1>4, <1>5

\* When one line is used up nothing is left of either.
Met(net, ds, cs, p, q, i, j, left, out) ==
    /\ Lined(net, ds, cs, p, q)
    /\ Reached(ds, p, i, left) /\ Reached(cs, q, j, left) /\ Remaining(net, left, out)

\* When one line is used up so is the other.
LEMMA NothingLeft ==
    ASSUME NEW net, NEW ds, NEW cs, NEW p, NEW q, NEW i, NEW j, NEW left, NEW out,
           Met(net, ds, cs, p, q, i, j, left, out), i > p \/ j > q
    PROVE  /\ i = p + 1 /\ j = q + 1
           /\ \A u \in Debtors(net) : left[u] = 0
           /\ \A u \in Creditors(net) : left[u] = 0
<1> USE DEF Met
<1>0. /\ p \in Nat /\ q \in Nat /\ i \in 1..(p + 1) /\ j \in 1..(q + 1) /\ net \in [Parties -> Int]
      /\ left \in [Parties -> Nat]
    BY DEF Lined, Reached, Remaining
<1>1. PICK D, C : D = Debtors(net) /\ C = Creditors(net)
    OBVIOUS
<1>2. /\ IsFiniteSet(D) /\ IsFiniteSet(C) /\ (\A u \in D : left[u] \in Nat) /\ (\A u \in C : left[u] \in Nat)
    BY <1>0, <1>1, Sides
<1>3. SumFunctionOnSet(left, D) = SumFunctionOnSet(left, C)
    BY <1>1 DEF Remaining
<1>4. ASSUME NEW S, IsFiniteSet(S), \A u \in S : left[u] \in Nat, SumFunctionOnSet(left, S) = 0
      PROVE  \A u \in S : left[u] = 0
  <2> SUFFICES ASSUME NEW u \in S PROVE left[u] = 0
      OBVIOUS
  <2>1. SumFunctionOnSet(left, S) = left[u] + SumFunctionOnSet(left, S \ {u})
    <3>1. \A x \in S : left[x] \in Int
        BY <1>4
    <3> QED
      BY <3>1, <1>4, SumTake
  <2>2. SumFunctionOnSet(left, S \ {u}) \in Nat
    <3>1. IsFiniteSet(S \ {u}) /\ \A x \in S \ {u} : left[x] \in Nat
        BY <1>4, FS_RemoveElement
    <3> QED
        BY <3>1, SumNat
  <2>3. left[u] \in Nat
      BY <1>4
  <2> QED
      BY <2>1, <2>2, <2>3, <1>4
<1>5. ASSUME NEW S, IsFiniteSet(S), \A u \in S : left[u] = 0
      PROVE  SumFunctionOnSet(left, S) = 0
  <2>1. SumFunctionOnSet(left, S) = 0 * Cardinality(S)
      BY <1>5, SumConst
  <2>2. Cardinality(S) \in Nat
      BY <1>5, FS_CardinalityType
  <2> QED
      BY <2>1, <2>2
<1>6. i > p => \A u \in D : left[u] = 0
  <2>1. \A u \in D : \E x \in 1..p : ds[x] = u
      BY <1>1 DEF Lined
  <2> QED
      BY <2>1, <1>0 DEF Reached
<1>7. j > q => \A u \in C : left[u] = 0
  <2>1. \A u \in C : \E x \in 1..q : cs[x] = u
      BY <1>1 DEF Lined
  <2> QED
      BY <2>1, <1>0 DEF Reached
<1>8. (\A u \in D : left[u] = 0) /\ (\A u \in C : left[u] = 0)
  <2>1. CASE i > p
    <3>1. SumFunctionOnSet(left, D) = 0
        BY <2>1, <1>2, <1>5, <1>6
    <3>2. SumFunctionOnSet(left, C) = 0
        BY <3>1, <1>3
    <3> QED
        BY <3>2, <2>1, <1>2, <1>4, <1>6
  <2>2. CASE j > q
    <3>1. SumFunctionOnSet(left, C) = 0
        BY <2>2, <1>2, <1>5, <1>7
    <3>2. SumFunctionOnSet(left, D) = 0
        BY <3>1, <1>3
    <3> QED
        BY <3>2, <2>2, <1>2, <1>4, <1>7
  <2> QED
      BY <2>1, <2>2
<1>9. i = p + 1
  <2> SUFFICES ASSUME i =< p PROVE FALSE
      BY <1>0
  <2>1. i \in 1..p /\ i >= i
      BY <1>0
  <2>2. left[ds[i]] > 0 /\ ds[i] \in D
      BY <2>1, <1>1 DEF Reached, Lined
  <2> QED
      BY <2>2, <1>8
<1>10. j = q + 1
  <2> SUFFICES ASSUME j =< q PROVE FALSE
      BY <1>0
  <2>1. j \in 1..q /\ j >= j
      BY <1>0
  <2>2. left[cs[j]] > 0 /\ cs[j] \in C
      BY <2>1, <1>1 DEF Reached, Lined
  <2> QED
      BY <2>2, <1>8
<1> QED
    BY <1>1, <1>8, <1>9, <1>10

\* One line after a turn that takes t from the place reached.
Taken(s, n, i, left, a, t, left2, i2) ==
    /\ n \in Nat /\ Reached(s, n, i, left) /\ i =< n
    /\ t \in Nat /\ a \in Nat /\ a = left[s[i]] /\ t =< a
    /\ left2[s[i]] = a - t /\ \A x \in 1..n : x # i => left2[s[x]] = left[s[x]]
    /\ i2 = IF a = t THEN i + 1 ELSE i

\* A turn that takes from the place reached keeps the line's form.
LEMMA ReachedStep ==
    ASSUME NEW s, NEW n, NEW i, NEW left, NEW a, NEW t, NEW left2, NEW i2,
           Taken(s, n, i, left, a, t, left2, i2)
    PROVE  Reached(s, n, i2, left2)
<1> USE DEF Taken
<1>1. i \in 1..n /\ i2 \in 1..(n + 1)
    BY DEF Reached
<1>2. ASSUME NEW x \in 1..n PROVE (x < i2 => left2[s[x]] = 0) /\ (x >= i2 => left2[s[x]] > 0)
  <2>1. CASE x = i
      BY <2>1, <1>1
  <2>2. CASE x # i
    <3>1. left2[s[x]] = left[s[x]]
        BY <2>2
    <3>2. (x < i => left[s[x]] = 0) /\ (x >= i => left[s[x]] > 0)
        BY DEF Reached
    <3>3. (x < i2 => x < i) /\ (x >= i2 => x >= i)
        BY <2>2, <1>1
    <3> QED
        BY <3>1, <3>2, <3>3
  <2> QED
      BY <2>1, <2>2
<1> QED
    BY <1>1, <1>2 DEF Reached

\* The place reached in both lines, and what a turn moves between them.
LEMMA TurnFacts ==
    ASSUME NEW net, NEW ds, NEW cs, NEW p, NEW q, Lined(net, ds, cs, p, q),
           NEW i, NEW j, NEW left, NEW out,
           Reached(ds, p, i, left), Reached(cs, q, j, left), Remaining(net, left, out),
           i =< p, j =< q
    PROVE  /\ i \in 1..p /\ j \in 1..q
           /\ ds[i] \in Debtors(net) /\ cs[j] \in Creditors(net) /\ ds[i] # cs[j]
           /\ ds[i] \in Parties /\ cs[j] \in Parties
           /\ left[ds[i]] \in Nat \ {0} /\ left[cs[j]] \in Nat \ {0}
<1>1. i \in 1..p /\ j \in 1..q
    BY DEF Lined, Reached
<1>2. ds[i] \in Debtors(net) /\ cs[j] \in Creditors(net)
    BY <1>1 DEF Lined
<1>3. ds[i] # cs[j] /\ ds[i] \in Parties /\ cs[j] \in Parties
    BY <1>2, Sides DEF Lined
<1>4. left[ds[i]] > 0 /\ left[cs[j]] > 0
    BY <1>1 DEF Reached
<1>5. left[ds[i]] \in Nat /\ left[cs[j]] \in Nat
    BY <1>3 DEF Remaining
<1> QED
    BY <1>1, <1>2, <1>3, <1>4, <1>5

\* What is left after a turn that moves t from x to y.
Moving(net, left, out, x, y, t, left2, out2) ==
    /\ net \in [Parties -> Int] /\ Remaining(net, left, out)
    /\ x \in Debtors(net) /\ y \in Creditors(net)
    /\ t \in Nat \ {0} /\ t =< left[x] /\ t =< left[y]
    /\ left2 = [left EXCEPT ![x] = @ - t, ![y] = @ - t]
    /\ out2 = Append(out, [from |-> x, to |-> y, amount |-> t])

\* A turn that moves t keeps what is left true to the balances.
LEMMA RemainingStep ==
    ASSUME NEW net, NEW left, NEW out, NEW x, NEW y, NEW t, NEW left2, NEW out2,
           Moving(net, left, out, x, y, t, left2, out2)
    PROVE  /\ Remaining(net, left2, out2)
           /\ Len(out2) = Len(out) + 1 /\ Len(out) \in Nat
           /\ left2[x] = left[x] - t /\ left2[y] = left[y] - t
           /\ \A u \in Parties : u # x /\ u # y => left2[u] = left[u]
<1> USE DEF Moving
<1>0. PICK r : r = [from |-> x, to |-> y, amount |-> t]
    OBVIOUS
<1>1. /\ left \in [Parties -> Nat] /\ out \in Seq(Transfer)
      /\ x \in Parties /\ y \in Parties /\ x # y
    BY Sides DEF Remaining
<1>2. /\ left2 = [u \in Parties |-> IF u = x THEN left[u] - t ELSE IF u = y THEN left[u] - t ELSE left[u]]
    BY <1>1
<1>3. /\ left2 \in [Parties -> Nat]
      /\ left2[x] = left[x] - t /\ left2[y] = left[y] - t
      /\ \A u \in Parties : u # x /\ u # y => left2[u] = left[u]
    BY <1>1, <1>2
<1>t. t \in Nat
    OBVIOUS
<1>4. r \in Transfer /\ r.from = x /\ r.to = y /\ r.amount = t
    BY <1>0, <1>1 DEF Transfer
<1>5. out2 = Append(out, r)
    BY <1>0
<1>6. /\ out2 \in Seq(Transfer) /\ Len(out2) = Len(out) + 1 /\ Len(out) \in Nat
      /\ \A k \in DOMAIN out2 : out2[k].from \in Debtors(net) /\ out2[k].to \in Creditors(net)
  <2>1. out2 \in Seq(Transfer) /\ Len(out2) = Len(out) + 1 /\ Len(out) \in Nat
      BY <1>1, <1>4, <1>5
  <2>2. \A k \in DOMAIN out2 : (k \in DOMAIN out /\ out2[k] = out[k]) \/ out2[k] = r
      BY <1>1, <1>5
  <2> QED
      BY <2>1, <2>2, <1>4 DEF Remaining
<1>7. \A u : /\ PaidBy(out, u) \in Int /\ PaidTo(out, u) \in Int
             /\ PaidBy(out2, u) = PaidBy(out, u) + IF x = u THEN t ELSE 0
             /\ PaidTo(out2, u) = PaidTo(out, u) + IF y = u THEN t ELSE 0
  <2> SUFFICES ASSUME NEW u
               PROVE /\ PaidBy(out, u) \in Int /\ PaidTo(out, u) \in Int
                     /\ PaidBy(out2, u) = PaidBy(out, u) + IF x = u THEN t ELSE 0
                     /\ PaidTo(out2, u) = PaidTo(out, u) + IF y = u THEN t ELSE 0
      OBVIOUS
  <2>1. /\ PaidBy(out, u) \in Int /\ PaidTo(out, u) \in Int
        /\ PaidBy(out2, u) = PaidBy(out, u) + IF r.from = u THEN r.amount ELSE 0
        /\ PaidTo(out2, u) = PaidTo(out, u) + IF r.to = u THEN r.amount ELSE 0
    <3>1. Longer(out, r, out2, {})
        BY <1>1, <1>4, <1>5 DEF Longer
    <3> HIDE DEF Moving
    <3> QED
        BY <3>1, FlowAppend
  <2> QED
      BY <2>1, <1>4, Zenon
<1>8. ASSUME NEW u \in Debtors(net) PROVE net[u] + PaidBy(out2, u) = -left2[u]
  <2>1. /\ net[u] + PaidBy(out, u) = -left[u] /\ net[u] \in Int /\ u \in Parties /\ u # y
        /\ left[u] \in Nat
      BY <1>1, Sides DEF Remaining
  <2>2. PICK b \in Int : b = PaidBy(out, u) /\ PaidBy(out2, u) = b + IF x = u THEN t ELSE 0
      BY <1>7
  <2> HIDE DEF Moving
  <2>3. CASE u = x
      BY <2>1, <2>2, <2>3, <1>3, <1>t
  <2>4. CASE u # x
      BY <2>1, <2>2, <2>4, <1>3
  <2> QED
      BY <2>3, <2>4
<1>9. ASSUME NEW u \in Creditors(net) PROVE net[u] - PaidTo(out2, u) = left2[u]
  <2>1. /\ net[u] - PaidTo(out, u) = left[u] /\ net[u] \in Int /\ u \in Parties /\ u # x
        /\ left[u] \in Nat
      BY <1>1, Sides DEF Remaining
  <2>2. PICK b \in Int : b = PaidTo(out, u) /\ PaidTo(out2, u) = b + IF y = u THEN t ELSE 0
      BY <1>7
  <2> HIDE DEF Moving
  <2>3. CASE u = y
      BY <2>1, <2>2, <2>3, <1>3, <1>t
  <2>4. CASE u # y
      BY <2>1, <2>2, <2>4, <1>3
  <2> QED
      BY <2>3, <2>4
<1>10. SumFunctionOnSet(left2, Debtors(net)) = SumFunctionOnSet(left2, Creditors(net))
  <2>1. PICK D, C : D = Debtors(net) /\ C = Creditors(net)
      OBVIOUS
  <2>2. /\ IsFiniteSet(D) /\ IsFiniteSet(C) /\ x \in D /\ y \in C /\ D \in SUBSET Parties
        /\ C \in SUBSET Parties /\ y \notin D /\ x \notin C
      BY <2>1, Sides
  <2>3. PICK c \in Int : c = -t
      OBVIOUS
  <2>4. /\ \A u \in D : left[u] \in Int
        /\ \A u \in D : left2[u] = IF u = x THEN left[u] + c ELSE left[u]
      BY <1>1, <1>3, <2>2, <2>3
  <2>5. /\ \A u \in C : left[u] \in Int
        /\ \A u \in C : left2[u] = IF u = y THEN left[u] + c ELSE left[u]
      BY <1>1, <1>3, <2>2, <2>3
  <2>6. SumFunctionOnSet(left2, D) = SumFunctionOnSet(left, D) + c
    <3>1. IsFiniteSet(D) /\ x \in D
        BY <2>2
    <3> HIDE DEF Moving
    <3> QED
        BY <3>1, <2>4, SumUpdate
  <2>7. SumFunctionOnSet(left2, C) = SumFunctionOnSet(left, C) + c
    <3>1. IsFiniteSet(C) /\ y \in C
        BY <2>2
    <3> HIDE DEF Moving
    <3> QED
        BY <3>1, <2>5, SumUpdate
  <2>8. SumFunctionOnSet(left, D) = SumFunctionOnSet(left, C)
      BY <2>1 DEF Remaining
  <2> QED
      BY <2>1, <2>6, <2>7, <2>8, Zenon
<1>11. Remaining(net, left2, out2)
    BY <1>3, <1>6, <1>8, <1>9, <1>10 DEF Remaining
<1> QED
    BY <1>3, <1>6, <1>11

\* Every turn of the loop keeps its invariant.
LEMMA MeetStep ==
    ASSUME NEW net, NEW ds, NEW cs, NEW p, NEW q, Lined(net, ds, cs, p, q),
           Len(ds) = p, Len(cs) = q, NEW m, NEW k \in Nat, MeetInv(m, k, net, ds, cs, p, q)
    PROVE  MeetInv(Meet(m, ds, cs), k + 1, net, ds, cs, p, q)
<1>0. p \in Nat /\ q \in Nat /\ net \in [Parties -> Int]
    BY DEF Lined
<1>1. PICK i, j, left, out : i = m.i /\ j = m.j /\ left = m.left /\ out = m.out
    OBVIOUS
<1>2. /\ Reached(ds, p, i, left) /\ Reached(cs, q, j, left)
      /\ Remaining(net, left, out) /\ Counted(i, j, p, q, out, k)
    BY <1>1, Zenon DEF MeetInv
<1>3. i \in 1..(p + 1) /\ j \in 1..(q + 1)
    BY <1>2 DEF Reached
<1>4. CASE i > p \/ j > q
  <2>1. Meet(m, ds, cs) = m
      BY <1>1, <1>4, Zenon DEF Meet
  <2>2. Counted(i, j, p, q, out, k + 1)
      BY <1>0, <1>2, <1>3, <1>4 DEF Counted
  <2> QED
      BY <2>1, <2>2, <1>1, <1>2, Zenon DEF MeetInv
<1>5. CASE ~(i > p \/ j > q)
  <2>0. i =< p /\ j =< q
      BY <1>0, <1>3, <1>5
  <2>1. PICK x, y : x = ds[i] /\ y = cs[j]
      OBVIOUS
  <2>2. /\ i \in 1..p /\ j \in 1..q
        /\ x \in Debtors(net) /\ y \in Creditors(net) /\ x # y
        /\ x \in Parties /\ y \in Parties
        /\ left[x] \in Nat \ {0} /\ left[y] \in Nat \ {0}
      BY <2>0, <2>1, <1>2, TurnFacts, Zenon
  <2>3. PICK t \in Nat \ {0} : /\ t = IF left[x] < left[y] THEN left[x] ELSE left[y]
                              /\ t =< left[x] /\ t =< left[y] /\ (t = left[x] \/ t = left[y])
      BY <2>2
  <2>4. PICK i2, j2, left2, out2 :
          /\ i2 = IF left[x] = t THEN i + 1 ELSE i
          /\ j2 = IF left[y] = t THEN j + 1 ELSE j
          /\ left2 = [left EXCEPT ![x] = @ - t, ![y] = @ - t]
          /\ out2 = Append(out, [from |-> x, to |-> y, amount |-> t])
      OBVIOUS
  <2>5. Meet(m, ds, cs) = [i |-> i2, j |-> j2, left |-> left2, out |-> out2]
      BY <1>1, <1>5, <2>1, <2>3, <2>4, Zenon DEF Meet
  <2>6. /\ Remaining(net, left2, out2) /\ Len(out2) = Len(out) + 1 /\ Len(out) \in Nat
        /\ left2[x] = left[x] - t /\ left2[y] = left[y] - t
        /\ \A u \in Parties : u # x /\ u # y => left2[u] = left[u]
    <3>1. Moving(net, left, out, x, y, t, left2, out2)
        BY <1>0, <1>2, <2>2, <2>3, <2>4, Zenon DEF Moving
    <3> QED
        BY <3>1, RemainingStep
  <2>7. Reached(ds, p, i2, left2)
    <3>1. \A z \in 1..p : z # i => left2[ds[z]] = left[ds[z]]
      <4> SUFFICES ASSUME NEW z \in 1..p, z # i PROVE left2[ds[z]] = left[ds[z]]
          OBVIOUS
      <4>1. ds[z] \in Debtors(net) /\ ds[z] # x
          BY <2>1, <2>2 DEF Lined
      <4>2. ds[z] \in Parties /\ ds[z] # y
          BY <4>1, <2>2, <1>0, Sides
      <4> QED
          BY <4>1, <4>2, <2>6
    <3>2. PICK a \in Nat : a = left[ds[i]]
        BY <2>1, <2>2
    <3>3. left2[ds[i]] = a - t /\ t =< a /\ t \in Nat /\ i2 = IF a = t THEN i + 1 ELSE i
        BY <3>2, <2>1, <2>3, <2>4, <2>6
    <3>4. Taken(ds, p, i, left, a, t, left2, i2)
        BY <3>1, <3>2, <3>3, <2>0, <1>0, <1>2, Zenon DEF Taken
    <3> QED
        BY <3>4, ReachedStep
  <2>8. Reached(cs, q, j2, left2)
    <3>1. \A z \in 1..q : z # j => left2[cs[z]] = left[cs[z]]
      <4> SUFFICES ASSUME NEW z \in 1..q, z # j PROVE left2[cs[z]] = left[cs[z]]
          OBVIOUS
      <4>1. cs[z] \in Creditors(net) /\ cs[z] # y
          BY <2>1, <2>2 DEF Lined
      <4>2. cs[z] \in Parties /\ cs[z] # x
          BY <4>1, <2>2, <1>0, Sides
      <4> QED
          BY <4>1, <4>2, <2>6
    <3>2. PICK a \in Nat : a = left[cs[j]]
        BY <2>1, <2>2
    <3>3. left2[cs[j]] = a - t /\ t =< a /\ t \in Nat /\ j2 = IF a = t THEN j + 1 ELSE j
        BY <3>2, <2>1, <2>3, <2>4, <2>6
    <3>4. Taken(cs, q, j, left, a, t, left2, j2)
        BY <3>1, <3>2, <3>3, <2>0, <1>0, <1>2, Zenon DEF Taken
    <3> QED
        BY <3>4, ReachedStep
  <2>9. Counted(i2, j2, p, q, out2, k + 1)
    <3>1. i \in Nat /\ j \in Nat /\ i2 \in {i, i + 1} /\ j2 \in {j, j + 1} /\ i2 + j2 >= i + j + 1
        BY <2>2, <2>3, <2>4
    <3>2. i2 > p \/ j2 > q => i2 = p + 1 /\ j2 = q + 1
      <4>1. Met(net, ds, cs, p, q, i2, j2, left2, out2)
          BY <2>6, <2>7, <2>8, Zenon DEF Met
      <4> QED
          BY <4>1, NothingLeft
    <3>3. Len(out) =< i + j - 2 /\ i + j - 2 >= k
        BY <1>2, <2>0 DEF Counted
    <3>4. Len(out2) =< i2 + j2 - 2
        BY <3>1, <3>3, <2>6
    <3>5. i2 + j2 - 2 >= k + 1
        BY <3>1, <3>3
    <3>6. i2 > p \/ j2 > q => Len(out2) =< i2 + j2 - 3
        BY <3>1, <3>2, <3>3, <2>0, <2>6, <1>0
    <3> QED
        BY <3>4, <3>5, <3>6 DEF Counted
  <2>10. PICK m2 : m2 = [i |-> i2, j |-> j2, left |-> left2, out |-> out2]
      OBVIOUS
  <2>11. m2.i = i2 /\ m2.j = j2 /\ m2.left = left2 /\ m2.out = out2
      BY <2>10
  <2>12. MeetInv(m2, k + 1, net, ds, cs, p, q)
      BY <2>6, <2>7, <2>8, <2>9, <2>11, Zenon DEF MeetInv
  <2> QED
      BY <2>5, <2>10, <2>12, Zenon
<1> QED
    BY <1>4, <1>5

\* The loop's invariant holds before its first turn.
LEMMA MeetStart ==
    ASSUME NEW net, NEW ds, NEW cs, NEW p, NEW q, Lined(net, ds, cs, p, q),
           SumFunctionOnSet(net, Parties) = 0
    PROVE  MeetInv(FirstMeeting(net), 0, net, ds, cs, p, q)
<1>0. p \in Nat /\ q \in Nat /\ net \in [Parties -> Int] /\ IsFiniteSet(Parties)
    BY LedgerFinite DEF Lined
<1>1. PICK left : left = [u \in Parties |-> Distance(net[u], 0)]
    OBVIOUS
<1>2. FirstMeeting(net) = [i |-> 1, j |-> 1, out |-> <<>>, left |-> left]
  <2>1. DOMAIN net = Parties
      BY <1>0
  <2> QED
      BY <2>1, <1>1, Zenon DEF FirstMeeting
<1>3. /\ left \in [Parties -> Nat]
      /\ \A u \in Debtors(net) : left[u] = -net[u] /\ left[u] > 0
      /\ \A u \in Creditors(net) : left[u] = net[u] /\ left[u] > 0
  <2>1. \A u \in Parties : Distance(net[u], 0) \in Nat
      BY <1>0 DEF Distance
  <2>2. left \in [Parties -> Nat]
      BY <2>1, <1>1
  <2>3. \A u \in Debtors(net) : u \in Parties /\ net[u] \in Int /\ net[u] < 0
      BY <1>0, Sides
  <2>4. \A u \in Creditors(net) : u \in Parties /\ net[u] \in Int /\ net[u] > 0
      BY <1>0, Sides
  <2> QED
      BY <2>2, <2>3, <2>4, <1>1 DEF Distance
<1>4. Reached(ds, p, 1, left)
  <2>1. \A x \in 1..p : left[ds[x]] > 0
      BY <1>3 DEF Lined
  <2> QED
      BY <2>1, <1>0 DEF Reached
<1>5. Reached(cs, q, 1, left)
  <2>1. \A x \in 1..q : left[cs[x]] > 0
      BY <1>3 DEF Lined
  <2> QED
      BY <2>1, <1>0 DEF Reached
<1>6. SumFunctionOnSet(left, Debtors(net)) = SumFunctionOnSet(left, Creditors(net))
  <2>1. PICK D, C : D = Debtors(net) /\ C = Creditors(net)
      OBVIOUS
  <2>2. PICK pos, neg : /\ pos = [u \in Parties |-> IF net[u] > 0 THEN net[u] ELSE 0]
                        /\ neg = [u \in Parties |-> IF net[u] < 0 THEN -net[u] ELSE 0]
      OBVIOUS
  <2>3. \A u \in Parties : net[u] \in Int /\ neg[u] \in Int /\ pos[u] = net[u] + neg[u]
      BY <2>2, <1>0
  <2>4. SumFunctionOnSet(pos, Parties) = SumFunctionOnSet(net, Parties) + SumFunctionOnSet(neg, Parties)
      BY <2>3, <1>0, SumPlus
  <2>5. SumFunctionOnSet(neg, Parties) \in Int
    <3>1. \A u \in Parties : neg[u] \in Int
        BY <2>3
    <3> QED
        BY <3>1, <1>0, SumType
  <2>6. D \in SUBSET Parties /\ C \in SUBSET Parties
      BY <1>0, <2>1, Sides
  <2>7. /\ \A u \in D : left[u] \in Int /\ neg[u] = left[u]
        /\ \A u \in Parties \ D : neg[u] = 0
    <3>1. \A u \in D : u \in Parties /\ net[u] \in Int /\ net[u] < 0 /\ left[u] = -net[u]
        BY <1>0, <1>3, <2>1, Sides
    <3>2. \A u \in Parties \ D : ~(net[u] < 0)
        BY <1>0, <2>1 DEF Debtors
    <3> QED
        BY <3>1, <3>2, <2>2
  <2>8. /\ \A u \in C : left[u] \in Int /\ pos[u] = left[u]
        /\ \A u \in Parties \ C : pos[u] = 0
    <3>1. \A u \in C : u \in Parties /\ net[u] \in Int /\ net[u] > 0 /\ left[u] = net[u]
        BY <1>0, <1>3, <2>1, Sides
    <3>2. \A u \in Parties \ C : ~(net[u] > 0)
        BY <1>0, <2>1 DEF Creditors
    <3> QED
        BY <3>1, <3>2, <2>2
  <2>f. IsFiniteSet(Parties)
      BY <1>0
  <2>9. SumFunctionOnSet(neg, Parties) = SumFunctionOnSet(left, D)
      BY <2>f, <2>6, <2>7, SumPart
  <2>10. SumFunctionOnSet(pos, Parties) = SumFunctionOnSet(left, C)
      BY <2>f, <2>6, <2>8, SumPart
  <2> QED
      BY <2>1, <2>4, <2>5, <2>9, <2>10
<1>7. PICK out : out = <<>>
    OBVIOUS
<1>8. out \in Seq(Transfer) /\ DOMAIN out = {} /\ Len(out) = 0
    BY <1>7
<1>9. \A u : PaidBy(out, u) = 0 /\ PaidTo(out, u) = 0
  <2> SUFFICES ASSUME NEW u PROVE PaidBy(out, u) = 0 /\ PaidTo(out, u) = 0
      OBVIOUS
  <2>1. {k \in DOMAIN out : out[k].from = u} = {} /\ {k \in DOMAIN out : out[k].to = u} = {}
      BY <1>8
  <2> QED
      BY <2>1, SumEmpty, Zenon DEF PaidBy, PaidTo
<1>10. Remaining(net, left, out)
  <2>1. /\ \A u \in Debtors(net) : net[u] + PaidBy(out, u) = -left[u]
        /\ \A u \in Creditors(net) : net[u] - PaidTo(out, u) = left[u]
    <3>1. /\ \A u \in Debtors(net) : net[u] \in Int
          /\ \A u \in Creditors(net) : net[u] \in Int
        BY <1>0, Sides
    <3> QED
        BY <3>1, <1>3, <1>9
  <2> QED
      BY <2>1, <1>3, <1>6, <1>8 DEF Remaining
<1>11. Counted(1, 1, p, q, out, 0)
    BY <1>0, <1>8 DEF Counted
<1>12. PICK m : m = [i |-> 1, j |-> 1, out |-> out, left |-> left]
    OBVIOUS
<1>13. m.i = 1 /\ m.j = 1 /\ m.out = out /\ m.left = left
    BY <1>12
<1>14. MeetInv(m, 0, net, ds, cs, p, q)
    BY <1>4, <1>5, <1>10, <1>11, <1>13, Zenon DEF MeetInv
<1> QED
    BY <1>2, <1>7, <1>12, <1>14, Zenon

\* A sorted list of a side names each of it once.
LEMMA FallingLists ==
    ASSUME NEW S, IsFiniteSet(S), NEW net, NEW s \in Falling(S, net), NEW n, n = Cardinality(S)
    PROVE  /\ n \in Nat /\ s \in [1..n -> S] /\ Len(s) = n
           /\ \A x, y \in 1..n : s[x] = s[y] => x = y
           /\ \A u \in S : \E x \in 1..n : s[x] = u
<1>0. n \in Nat
    BY FS_CardinalityType
<1>1. s \in SetToSeqs(S)
    BY DEF Falling
<1>2. s \in [1..n -> S] /\ \A x, y \in 1..n : x # y => s[x] # s[y]
    BY <1>1 DEF SetToSeqs
<1>3. Len(s) = n
    BY <1>0, <1>2
<1>4. s \in Injection(1..n, S)
    BY <1>2 DEF Injection, IsInjective
<1>5. s \in Surjection(1..n, S)
  <2>1. Cardinality(1..n) = Cardinality(S)
      BY <1>0, IntervalSize
  <2> QED
      BY <2>1, <1>4, FS_Injection
<1>6. \A u \in S : \E x \in 1..n : s[x] = u
    BY <1>5 DEF Surjection
<1> QED
    BY <1>0, <1>2, <1>3, <1>6

\* What a user pays or receives over a list of transfers is a number.
LEMMA FlowType ==
    ASSUME NEW out \in Seq(Transfer), NEW u
    PROVE  PaidBy(out, u) \in Int /\ PaidTo(out, u) \in Int
<1>0. PICK n \in Nat : DOMAIN out = 1..n
    OBVIOUS
<1>1. PICK f : DOMAIN out = 1..n /\ f = AmountsOf(out)
    BY <1>0
<1>2. \A k \in 1..n : f[k] \in Int
  <2>1. \A k \in 1..n : out[k] \in Transfer
      BY <1>0
  <2>2. \A k \in 1..n : out[k].amount \in Int
      BY <2>1 DEF Transfer
  <2> QED
      BY <1>1, <2>2 DEF AmountsOf
<1>3. ASSUME NEW S \in SUBSET (1..n) PROVE SumFunctionOnSet(f, S) \in Int
  <2>1. IsFiniteSet(S) /\ \A k \in S : f[k] \in Int
      BY <1>2, IntervalSize, FS_Subset
  <2> QED
      BY <2>1, SumType
<1>4. /\ {k \in DOMAIN out : out[k].from = u} \in SUBSET (1..n)
      /\ {k \in DOMAIN out : out[k].to = u} \in SUBSET (1..n)
    BY <1>1
<1> QED
    BY <1>1, <1>3, <1>4, Zenon DEF PaidBy, PaidTo

\* Whatever order the sort leaves, the transfers square the balances.
Suggested(net, ds, cs, out) ==
    /\ net \in [Parties -> Int] /\ SumFunctionOnSet(net, Parties) = 0
    /\ ds \in Falling(Debtors(net), net) /\ cs \in Falling(Creditors(net), net)
    /\ out = Meetings(net, ds, cs).out

\* After its turns the loop has squared every balance, in fewer transfers than parties.
LEMMA MeetingsSettle ==
    ASSUME NEW net, NEW ds, NEW cs, NEW out, Suggested(net, ds, cs, out)
    PROVE  /\ Len(out) < Cardinality(Parties)
           /\ \A k \in DOMAIN out : out[k].amount > 0
           /\ \A j, k \in DOMAIN out : out[j].from # out[k].to
           /\ \A u \in Parties : net[u] + PaidBy(out, u) - PaidTo(out, u) = 0
<1> USE DEF Suggested
<1>0. PICK D, C : D = Debtors(net) /\ C = Creditors(net)
    OBVIOUS
<1>1. IsFiniteSet(D) /\ IsFiniteSet(C) /\ D \in SUBSET Parties /\ C \in SUBSET Parties /\ D \cap C = {}
    BY <1>0, Sides
<1>2. PICK p, q : p = Cardinality(D) /\ q = Cardinality(C)
    OBVIOUS
<1>3. /\ p \in Nat /\ ds \in [1..p -> D] /\ Len(ds) = p
      /\ \A x, y \in 1..p : ds[x] = ds[y] => x = y
      /\ \A u \in D : \E x \in 1..p : ds[x] = u
    BY <1>0, <1>1, <1>2, FallingLists
<1>4. /\ q \in Nat /\ cs \in [1..q -> C] /\ Len(cs) = q
      /\ \A x, y \in 1..q : cs[x] = cs[y] => x = y
      /\ \A u \in C : \E x \in 1..q : cs[x] = u
    BY <1>0, <1>1, <1>2, FallingLists
<1>5. Lined(net, ds, cs, p, q)
    BY <1>0, <1>3, <1>4, Zenon DEF Lined
<1>6. PICK n \in Nat : n = Cardinality(Parties) /\ n > 0 /\ p + q =< n
  <2>1. IsFiniteSet(Parties) /\ Parties # {}
      BY LedgerAssumption
  <2>2. Cardinality(Parties) \in Nat /\ Cardinality(Parties) # 0
      BY <2>1, FS_CardinalityType, FS_EmptySet
  <2>3. D \cup C \in SUBSET Parties
      BY <1>1
  <2>4. Cardinality(D \cup C) = p + q - Cardinality(D \cap C)
      BY <1>1, <1>2, FS_Union
  <2>5. Cardinality(D \cap C) = 0
      BY <1>1, FS_EmptySet
  <2>6. Cardinality(D \cup C) =< Cardinality(Parties)
      BY <2>1, <2>3, FS_Subset
  <2> QED
      BY <2>2, <2>4, <2>5, <2>6, <1>3, <1>4
<1>7. PICK run : /\ Meetings(net, ds, cs) = run[n] /\ run[0] = FirstMeeting(net)
                 /\ \A k \in 0..n : k < n => run[k + 1] = Meet(run[k], ds, cs)
  <2>1. n = Cardinality(DOMAIN net)
      BY <1>6
  <2> QED
      BY <2>1, MeetingsIsRun
<1> DEFINE G == {k \in 0..n : MeetInv(run[k], k, net, ds, cs, p, q)}
<1>8. 0 \in G
    BY <1>5, <1>7, MeetStart
<1>9. ASSUME NEW k \in 0..n, k < n, k \in G PROVE k + 1 \in G
  <2>1. PICK m : m = run[k]
      OBVIOUS
  <2>2. MeetInv(m, k, net, ds, cs, p, q)
      BY <1>9, <2>1
  <2>3. k \in Nat /\ k + 1 \in 0..n
      BY <1>9
  <2>4. MeetInv(Meet(m, ds, cs), k + 1, net, ds, cs, p, q)
      BY <2>2, <2>3, <1>3, <1>4, <1>5, MeetStep, Zenon
  <2>5. run[k + 1] = Meet(m, ds, cs)
      BY <1>7, <1>9, <2>1
  <2>6. MeetInv(run[k + 1], k + 1, net, ds, cs, p, q)
      BY <2>4, <2>5, Zenon
  <2> QED
      BY <2>3, <2>6
<1>10. n \in G
  <2> HIDE DEF G
  <2> QED
      BY <1>8, <1>9, UpTo
<1>11. PICK i, j, left : /\ Reached(ds, p, i, left) /\ Reached(cs, q, j, left)
                         /\ Remaining(net, left, out) /\ Counted(i, j, p, q, out, n)
  <2>1. MeetInv(run[n], n, net, ds, cs, p, q)
      BY <1>10
  <2>2. out = run[n].out
      BY <1>7, Zenon
  <2> QED
      BY <2>1, <2>2, Zenon DEF MeetInv
<1>12. i \in 1..(p + 1) /\ j \in 1..(q + 1)
    BY <1>11 DEF Reached
<1>13. i > p \/ j > q
  <2> SUFFICES ASSUME i =< p, j =< q PROVE FALSE
      BY <1>3, <1>4, <1>12
  <2>1. i + j - 2 >= n
      BY <1>11 DEF Counted
  <2> QED
      BY <2>1, <1>3, <1>4, <1>6, <1>12
<1>14. /\ i = p + 1 /\ j = q + 1
       /\ \A u \in D : left[u] = 0
       /\ \A u \in C : left[u] = 0
  <2>1. Met(net, ds, cs, p, q, i, j, left, out)
      BY <1>5, <1>11, Zenon DEF Met
  <2> QED
      BY <2>1, <1>0, <1>13, NothingLeft
<1>15. /\ out \in Seq(Transfer)
       /\ \A k \in DOMAIN out : out[k].from \in D /\ out[k].to \in C /\ out[k] \in Transfer
    BY <1>0, <1>11 DEF Remaining
<1>16. Len(out) < n
  <2>1. Len(out) = 0 \/ Len(out) =< i + j - 3
      BY <1>11, <1>13 DEF Counted
  <2>2. Len(out) \in Nat
      BY <1>15
  <2> QED
      BY <2>1, <2>2, <1>3, <1>4, <1>6, <1>14
<1>17. \A k \in DOMAIN out : out[k].amount > 0
    BY <1>15 DEF Transfer
<1>18. \A x, y \in DOMAIN out : out[x].from # out[y].to
    BY <1>1, <1>15
<1>19. ASSUME NEW u \in Parties PROVE net[u] + PaidBy(out, u) - PaidTo(out, u) = 0
  <2>1. u \notin D => PaidBy(out, u) = 0
    <3>1. u \notin D => {k \in DOMAIN out : out[k].from = u} = {}
        BY <1>15
    <3> QED
        BY <3>1, SumEmpty, Zenon DEF PaidBy
  <2>2. u \notin C => PaidTo(out, u) = 0
    <3>1. u \notin C => {k \in DOMAIN out : out[k].to = u} = {}
        BY <1>15
    <3> QED
        BY <3>1, SumEmpty, Zenon DEF PaidTo
  <2>3. u \in D => u \notin C /\ net[u] + PaidBy(out, u) = 0
    <3>1. u \in D => net[u] + PaidBy(out, u) = -left[u]
        BY <1>0, <1>11 DEF Remaining
    <3> QED
        BY <3>1, <1>1, <1>14
  <2>4. u \in C => u \notin D /\ net[u] - PaidTo(out, u) = 0
    <3>1. u \in C => net[u] - PaidTo(out, u) = left[u]
        BY <1>0, <1>11 DEF Remaining
    <3> QED
        BY <3>1, <1>1, <1>14
  <2>5. u \notin D /\ u \notin C => net[u] = 0
      BY <1>0, Sides
  <2>6. net[u] \in Int
      OBVIOUS
  <2>10. PICK x \in Int, y \in Int, z \in Int : x = net[u] /\ y = PaidBy(out, u) /\ z = PaidTo(out, u)
      BY <1>15, <2>6, FlowType
  <2>7. CASE u \in D
    <3>1. x + y = 0 /\ z = 0
        BY <2>2, <2>3, <2>7, <2>10, Zenon
    <3>2. x + y - z = 0
        BY <3>1
    <3> QED
        BY <2>10, <3>2, Zenon
  <2>8. CASE u \in C
    <3>1. x - z = 0 /\ y = 0 /\ x \in Int
        BY <2>1, <2>4, <2>6, <2>8, <2>10, Zenon
    <3>2. x + y = x
        BY <3>1
    <3>3. x + y - z = 0
        BY <3>1, <3>2
    <3> QED
        BY <2>10, <3>3, Zenon
  <2>9. CASE u \notin D /\ u \notin C
      BY <2>1, <2>2, <2>5, <2>9
  <2> QED
      BY <2>7, <2>8, <2>9
<1> QED
    BY <1>6, <1>16, <1>17, <1>18, <1>19

\* The suggestions square the books in every state the invariant allows.
LEMMA InvSettles == LedgerInv => SuggestionsSettle
<1> SUFFICES ASSUME LedgerInv, NEW a \in Assets, NEW net, net = Nets(a), NEW out \in Suggestions(net)
             PROVE  LET moved(S) == SumFunctionOnSet([k \in DOMAIN out |-> out[k].amount], S)
                    IN  /\ Len(out) < Cardinality(Parties)
                        /\ \A k \in DOMAIN out : out[k].amount > 0
                        /\ \A j, k \in DOMAIN out : out[j].from # out[k].to
                        /\ \A u \in Parties :
                             net[u] + moved({k \in DOMAIN out : out[k].from = u})
                                    - moved({k \in DOMAIN out : out[k].to = u}) = 0
    BY Zenon DEF SuggestionsSettle
<1>1. net \in [Parties -> Int] /\ SumFunctionOnSet(net, Parties) = 0
  <2>1. \A u \in Parties : Net(u, a) \in Int
      BY NetsBalance
  <2>2. net \in [Parties -> Int]
      BY <2>1 DEF Nets
  <2>3. SumFunctionOnSet(Nets(a), Parties) = 0
      BY NetsBalance
  <2> QED
      BY <2>2, <2>3
<1>2. PICK ds \in Falling(Debtors(net), net), cs \in Falling(Creditors(net), net) :
        out = Meetings(net, ds, cs).out
    BY DEF Suggestions
<1>5. Suggested(net, ds, cs, out)
    BY <1>1, <1>2 DEF Suggested
<1>3. /\ Len(out) < Cardinality(Parties)
      /\ \A k \in DOMAIN out : out[k].amount > 0
      /\ \A j, k \in DOMAIN out : out[j].from # out[k].to
      /\ \A u \in Parties : net[u] + PaidBy(out, u) - PaidTo(out, u) = 0
    BY <1>5, MeetingsSettle, Zenon
<1>4. \A u \in Parties :
        net[u] + SumFunctionOnSet([k \in DOMAIN out |-> out[k].amount], {k \in DOMAIN out : out[k].from = u})
               - SumFunctionOnSet([k \in DOMAIN out |-> out[k].amount], {k \in DOMAIN out : out[k].to = u}) = 0
  <2>1. ASSUME NEW u \in Parties
        PROVE  net[u] + SumFunctionOnSet([k \in DOMAIN out |-> out[k].amount], {k \in DOMAIN out : out[k].from = u})
                 - SumFunctionOnSet([k \in DOMAIN out |-> out[k].amount], {k \in DOMAIN out : out[k].to = u}) = 0
    <3>1. net[u] + PaidBy(out, u) - PaidTo(out, u) = 0
        BY <1>3, Zenon
    <3> QED
        BY <3>1, Zenon DEF PaidBy, PaidTo, AmountsOf
  <2> QED
      BY <2>1
<1> QED
    BY <1>3, <1>4

(* The transfers suggestSettlements proposes square every balance, with       *)
(* positive amounts, nobody on both sides, and fewer transfers than members,  *)
(* for every group and every order its sort may leave among equal balances.   *)
THEOREM LedgerSuggestionsSettle == LedgerSpec => []SuggestionsSettle
    BY LedgerInvHolds, InvSettles, PTL
=============================================================================
