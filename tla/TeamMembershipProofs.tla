------------------------ MODULE TeamMembershipProofs ------------------------
(***************************************************************************)
(* What TeamMembership keeps for any users, any handlers and any payloads. *)
(* A request that is about to write carries an array that is allowed and   *)
(* whose roles were all granted, one that creates a row knows which:       *)
(* Ready.  A deletion that has passed a table left only late items in it:  *)
(* Swept.                                                                  *)
(***************************************************************************)
EXTENDS TeamMembership, TLAPS

Ready(r) ==
  /\ r.pc = "members" => /\ Allowed(r.members)
                         /\ \A u \in DOMAIN r.members : r.members[u] \in granted[u]
  /\ r.pc = "invite" => r.invitation \in Invitations
  /\ r.pc = "store"  => r.item \in Items

Swept(r) == r.pc = "reassign" =>
              \A i \in Items : TableOf[i] < r.table /\ items[i] = TheTeam => i \in late

IInv == /\ TypeOK
        /\ KeepsAnAdmin /\ OwnerStaysOutside /\ RolesWereGranted /\ NothingLeftBehind
        /\ \A h \in Handlers : Ready(request[h]) /\ Swept(request[h])

-----------------------------------------------------------------------------
(* Members arrays.                                                         *)

LEMMA MembersDef ==
  /\ \A ms \in Members : DOMAIN ms \subseteq Users /\ ms \in [DOMAIN ms -> Roles]
  /\ \A S \in SUBSET Users : [S -> Roles] \subseteq Members
BY DEF Members

LEMMA WithoutTyped ==
  ASSUME NEW ms \in Members, NEW u
  PROVE  /\ Without(ms, u) \in Members
         /\ DOMAIN Without(ms, u) = DOMAIN ms \ {u}
         /\ \A v \in DOMAIN ms \ {u} : Without(ms, u)[v] = ms[v]
<1>1. DOMAIN ms \subseteq Users /\ ms \in [DOMAIN ms -> Roles]
  BY MembersDef
<1>2. Without(ms, u) \in [DOMAIN ms \ {u} -> Roles]
  BY <1>1 DEF Without
<1>3. DOMAIN ms \ {u} \in SUBSET Users
  BY <1>1
<1> QED BY <1>2, <1>3, MembersDef DEF Without

LEMMA WithTyped ==
  ASSUME NEW ms \in Members, NEW u \in Users, NEW role \in Roles
  PROVE  /\ With(ms, u, role) \in Members
         /\ DOMAIN With(ms, u, role) = DOMAIN ms \union {u}
         /\ With(ms, u, role)[u] = role
         /\ \A v \in DOMAIN ms \ {u} : With(ms, u, role)[v] = ms[v]
<1>1. DOMAIN ms \subseteq Users /\ ms \in [DOMAIN ms -> Roles]
  BY MembersDef
<1>2. With(ms, u, role) \in [DOMAIN ms \union {u} -> Roles]
  BY <1>1 DEF With
<1>3. DOMAIN ms \union {u} \in SUBSET Users
  BY <1>1
<1> QED BY <1>2, <1>3, MembersDef DEF With

LEMMA NoMembersTyped == NoMembers \in Members /\ DOMAIN NoMembers = {}
<1>1. NoMembers \in [{} -> Roles] /\ DOMAIN NoMembers = {}
  BY DEF NoMembers
<1> QED BY <1>1, MembersDef

LEMMA AtTyped ==
  ASSUME NEW pc \in {"idle", "members", "invite", "revoke", "store", "reassign"},
         NEW u \in Owners
  PROVE  /\ At(pc, u) \in Requests /\ Idle \in Requests
         /\ At(pc, u).pc = pc /\ At(pc, u).user = u /\ At(pc, u).table = 1
         /\ Idle.pc = "idle"
<1>1. NoMembers \in Members /\ Nobody \in Owners /\ 1 \in Tables \union {5}
  BY NoMembersTyped DEF Owners, Tables
<1> QED BY <1>1 DEF At, Idle, Requests

LEMMA AtWith ==
  ASSUME NEW u \in Users
  PROVE  /\ \A ms \in Members : /\ Writing(u, ms) \in Requests
                                /\ Writing(u, ms).pc = "members"
                                /\ Writing(u, ms).members = ms
         /\ \A pc \in {"invite", "revoke"} : \A i \in Invitations :
              /\ Inviting(pc, u, i) \in Requests
              /\ Inviting(pc, u, i).pc = pc /\ Inviting(pc, u, i).invitation = i
         /\ \A i \in Items : /\ Storing(u, i) \in Requests
                             /\ Storing(u, i).pc = "store" /\ Storing(u, i).item = i
<1>1. /\ NoMembers \in Members /\ 1 \in Tables \union {5} /\ u \in Owners
      /\ Nobody \in Items \union {Nobody} /\ Nobody \in Invitations \union {Nobody}
  BY NoMembersTyped DEF Owners, Tables
<1>2. ASSUME NEW ms \in Members
      PROVE  /\ Writing(u, ms) \in Requests
             /\ Writing(u, ms).pc = "members" /\ Writing(u, ms).members = ms
  BY <1>1 DEF At, Requests, Writing
<1>3. ASSUME NEW pc \in {"invite", "revoke"}, NEW i \in Invitations
      PROVE  /\ Inviting(pc, u, i) \in Requests
             /\ Inviting(pc, u, i).pc = pc /\ Inviting(pc, u, i).invitation = i
  BY <1>1 DEF At, Requests, Inviting
<1>4. ASSUME NEW i \in Items
      PROVE  /\ Storing(u, i) \in Requests
             /\ Storing(u, i).pc = "store" /\ Storing(u, i).item = i
  BY <1>1 DEF At, Requests, Storing
<1> QED BY <1>2, <1>3, <1>4

-----------------------------------------------------------------------------
LEMMA InitInv == Init => IInv
<1> SUFFICES ASSUME Init PROVE IInv
  OBVIOUS
<1>1. PICK u \in Users :
        \/ \E extra \in Payloads :
             team = [exists |-> TRUE, owner |-> Nobody,
                     members |-> build_create_shared_members(u, extra)]
        \/ team = [exists |-> TRUE, owner |-> u, members |-> NoMembers]
  BY DEF Init
<1>2. /\ team \in [exists : BOOLEAN, owner : Owners, members : Members]
      /\ team.exists /\ KeepsAnAdmin /\ OwnerStaysOutside
  <2>1. CASE \E extra \in Payloads :
               team = [exists |-> TRUE, owner |-> Nobody,
                       members |-> build_create_shared_members(u, extra)]
    <3>1. PICK extra \in Payloads :
            team = [exists |-> TRUE, owner |-> Nobody, members |-> With(extra, u, "admin")]
      BY <2>1 DEF build_create_shared_members
    <3>2. extra \in Members /\ "admin" \in Roles
      BY TeamAssumption DEF Roles
    <3> DEFINE ms == With(extra, u, "admin")
    <3>3. ms \in Members /\ u \in DOMAIN ms /\ ms[u] = "admin"
      <4>1. With(extra, u, "admin") \in Members /\ With(extra, u, "admin")[u] = "admin"
        BY <3>2, WithTyped
      <4>2. DOMAIN With(extra, u, "admin") = DOMAIN extra \union {u}
        BY <3>2, WithTyped
      <4> QED BY <4>1, <4>2
    <3> HIDE DEF ms
    <3>4. Nobody \notin DOMAIN ms
      BY <3>3, MembersDef, TeamAssumption
    <3>5. team = [exists |-> TRUE, owner |-> Nobody, members |-> ms]
      BY <3>1 DEF ms
    <3>6. HasAdmin(ms)
      BY <3>3 DEF HasAdmin
    <3> QED BY <3>3, <3>4, <3>5, <3>6 DEF Owners, KeepsAnAdmin, OwnerStaysOutside
  <2>2. CASE team = [exists |-> TRUE, owner |-> u, members |-> NoMembers]
    BY <2>2, NoMembersTyped, TeamAssumption DEF Owners, KeepsAnAdmin, OwnerStaysOutside
  <2> QED BY <1>1, <2>1, <2>2
<1>3. granted \in [Users -> SUBSET Roles] /\ RolesWereGranted
  <2>1. DOMAIN team.members \subseteq Users /\ team.members \in [DOMAIN team.members -> Roles]
    BY <1>2, MembersDef
  <2>2. granted = [u2 \in Users |-> IF u2 \in DOMAIN team.members THEN {team.members[u2]} ELSE {}]
    BY DEF Init
  <2> QED BY <2>1, <2>2 DEF RolesWereGranted
<1>4. request \in [Handlers -> Requests] /\ \A h \in Handlers : request[h].pc = "idle"
  BY AtTyped DEF Init, Owners
<1>5. TypeOK
  BY <1>2, <1>3, <1>4, TeamAssumption DEF Init, TypeOK, Owners
<1>6. \A h \in Handlers : Ready(request[h]) /\ Swept(request[h])
  BY <1>4 DEF Ready, Swept
<1> QED BY <1>2, <1>3, <1>5, <1>6 DEF IInv, NothingLeftBehind

-----------------------------------------------------------------------------
(* Steps that leave the team alone, and steps that leave the library alone. *)

\* A handler that begins, goes on or ends with request r.
Becomes(h, r) == request' = [request EXCEPT ![h] = r]

LEMMA RequestKeeps ==
  ASSUME IInv, NEW h \in Handlers, NEW r \in Requests, Becomes(h, r),
         UNCHANGED <<team, invitations, items, late>>, begun' \in 0 .. MaxRequests,
         granted' \in [Users -> SUBSET Roles],
         \A u \in Users : granted[u] \subseteq granted'[u],
         Ready(r)', Swept(r)
  PROVE  IInv'
<1>1. TypeOK'
  BY DEF IInv, TypeOK, Becomes
<1>2. \A ms \in Members : \A u \in DOMAIN ms : u \in Users
  BY MembersDef
<1>3. team.members \in Members /\ \A g \in Handlers : request[g].members \in Members
  BY DEF IInv, TypeOK, Requests
<1>4. (KeepsAnAdmin /\ OwnerStaysOutside /\ NothingLeftBehind)'
  BY DEF IInv, KeepsAnAdmin, OwnerStaysOutside, NothingLeftBehind
<1>5. RolesWereGranted'
  BY <1>2, <1>3 DEF IInv, RolesWereGranted
<1>6. ASSUME NEW g \in Handlers PROVE Ready(request[g])' /\ Swept(request[g])'
  <2>1. CASE g = h
    <3>1. request'[g] = r
      BY <2>1 DEF Becomes, IInv, TypeOK
    <3> QED BY <3>1 DEF Ready, Swept, Allowed
  <2>2. CASE g # h
    <3>1. request'[g] = request[g]
      BY <2>2 DEF Becomes, IInv, TypeOK
    <3> QED BY <1>2, <1>3, <3>1 DEF IInv, Ready, Swept, Allowed
  <2> QED BY <2>1, <2>2
<1> QED BY <1>1, <1>4, <1>5, <1>6 DEF IInv

\* What follows from the invariant for the handler that takes a step.
LEMMA InvTypes ==
  ASSUME IInv
  PROVE  /\ team.members \in Members /\ team.owner \in Owners
         /\ DOMAIN team.members \subseteq Users
         /\ granted \in [Users -> SUBSET Roles] /\ begun \in 0 .. MaxRequests
         /\ \A h \in Handlers : request[h] \in Requests
BY MembersDef DEF IInv, TypeOK

LEMMA BeginBecomes ==
  ASSUME IInv, NEW h \in Handlers, NEW r, Begin(h, r)
  PROVE  Becomes(h, r) /\ begun' \in 0 .. MaxRequests
BY InvTypes, TeamAssumption DEF Begin, Becomes

LEMMA ContinueBecomes ==
  ASSUME IInv, NEW h \in Handlers, NEW r, Continue(h, r)
  PROVE  Becomes(h, r) /\ begun' \in 0 .. MaxRequests
BY InvTypes DEF Continue, Becomes

LEMMA IdleReady == Ready(Idle) /\ Swept(Idle)
BY AtTyped DEF Ready, Swept, Owners

\* A deletion begins with nothing swept; other requests sweep nothing.
LEMMA FreshSwept ==
  ASSUME NEW r, r.pc # "reassign" \/ r.table = 1
  PROVE  Swept(r)
BY TeamAssumption DEF Swept, Tables

-----------------------------------------------------------------------------
LEMMA PutKeeps ==
  ASSUME IInv, NEW h \in Handlers, Put(h)
  PROVE  IInv'
<1>a. PICK u \in Users : \E ms \in Payloads \union {Without(team.members, u)} :
        /\ Allowed(ms)
        /\ Begin(h, Writing(u, ms))
        /\ \/ Grant(ms)
           \/ member_self_leave_payload(u, ms) /\ UNCHANGED granted
  BY DEF Put
<1>1. PICK ms \in Payloads \union {Without(team.members, u)} :
        /\ Allowed(ms)
        /\ Begin(h, Writing(u, ms))
        /\ \/ Grant(ms)
           \/ member_self_leave_payload(u, ms) /\ UNCHANGED granted
  BY <1>a
<1>2. ms \in Members /\ DOMAIN ms \subseteq Users /\ ms \in [DOMAIN ms -> Roles]
  BY <1>1, InvTypes, WithoutTyped, MembersDef, TeamAssumption
<1>3. PICK r \in Requests : /\ r = Writing(u, ms)
                            /\ r.pc = "members" /\ r.members = ms
  BY <1>2, AtWith
<1>4. UNCHANGED <<team, invitations, items, late>>
  BY DEF Put
<1>5. /\ granted' \in [Users -> SUBSET Roles]
      /\ \A v \in Users : granted[v] \subseteq granted'[v]
      /\ \A v \in DOMAIN ms : ms[v] \in granted'[v]
  <2>1. CASE Grant(ms)
    BY <2>1, <1>2, InvTypes DEF Grant
  <2>2. CASE member_self_leave_payload(u, ms) /\ UNCHANGED granted
    <3>1. ms = Without(team.members, u)
      BY <2>2 DEF member_self_leave_payload
    <3>2. /\ DOMAIN Without(team.members, u) = DOMAIN team.members \ {u}
          /\ \A v \in DOMAIN team.members \ {u} :
               Without(team.members, u)[v] = team.members[v]
      BY InvTypes, WithoutTyped
    <3>3. \A v \in DOMAIN ms : v \in DOMAIN team.members /\ ms[v] = team.members[v]
      BY <3>1, <3>2
    <3> QED BY <2>2, <3>3, InvTypes DEF IInv, RolesWereGranted
  <2> QED BY <1>1, <2>1, <2>2
<1>6. Ready(r)'
  BY <1>1, <1>3, <1>4, <1>5 DEF Ready, Allowed
<1>7. Swept(r)
  BY <1>3 DEF Swept
<1>8. Becomes(h, r) /\ begun' \in 0 .. MaxRequests
  BY <1>1, <1>3, BeginBecomes
<1> QED BY <1>3, <1>4, <1>5, <1>6, <1>7, <1>8, RequestKeeps

LEMMA AcceptKeeps ==
  ASSUME IInv, NEW h \in Handlers, Accept(h)
  PROVE  IInv'
<1>1. PICK u \in Users :
        /\ NeedsGuest(u)
        /\ Begin(h, Writing(u, With(team.members, u, "guest")))
        /\ granted' = [granted EXCEPT ![u] = @ \union {"guest"}]
  BY DEF Accept
<1>2. "guest" \in Roles /\ team.members \in Members
  BY InvTypes DEF Roles
<1>3. PICK ms \in Members : ms = With(team.members, u, "guest")
  BY <1>2, WithTyped
<1>4. /\ DOMAIN With(team.members, u, "guest") = DOMAIN team.members \union {u}
      /\ With(team.members, u, "guest")[u] = "guest"
      /\ \A v \in DOMAIN team.members \ {u} :
           With(team.members, u, "guest")[v] = team.members[v]
  BY DEF With
<1>5. /\ DOMAIN ms = DOMAIN team.members \union {u} /\ ms[u] = "guest"
      /\ \A v \in DOMAIN team.members \ {u} : ms[v] = team.members[v]
  BY <1>3, <1>4
<1>6. UNCHANGED <<team, invitations, items, late>>
  BY DEF Accept
<1>7. PICK r \in Requests : /\ r = Writing(u, ms)
                            /\ r.pc = "members" /\ r.members = ms
  BY AtWith
<1>8. /\ granted' \in [Users -> SUBSET Roles]
      /\ \A v \in Users : granted[v] \subseteq granted'[v]
      /\ \A v \in DOMAIN ms : ms[v] \in granted'[v]
  <2>1. /\ granted' \in [Users -> SUBSET Roles]
        /\ \A v \in Users : granted[v] \subseteq granted'[v]
        /\ "guest" \in granted'[u]
    BY <1>1, InvTypes DEF Roles
  <2>2. \A v \in DOMAIN team.members : team.members[v] \in granted'[v]
    BY <2>1, InvTypes DEF IInv, RolesWereGranted
  <2> QED BY <1>5, <2>1, <2>2
<1>9. Allowed(ms)
  <2>1. CASE team.owner = Nobody
    <3>1. PICK a \in DOMAIN team.members : team.members[a] = "admin"
      BY <2>1 DEF IInv, KeepsAnAdmin, HasAdmin
    <3>2. a # u /\ ms[a] = "admin" /\ a \in DOMAIN ms
      BY <1>1, <1>5, <3>1 DEF NeedsGuest
    <3> QED BY <2>1, <3>2 DEF Allowed, HasAdmin
  <2>2. CASE team.owner # Nobody
    BY <1>1, <1>5, <2>2 DEF Allowed, NeedsGuest, IInv, OwnerStaysOutside
  <2> QED BY <2>1, <2>2
<1>10. Ready(r)'
  BY <1>6, <1>7, <1>8, <1>9 DEF Ready, Allowed
<1>11. Swept(r)
  BY <1>7 DEF Swept
<1>12. Becomes(h, r) /\ begun' \in 0 .. MaxRequests
  BY <1>1, <1>3, <1>7, BeginBecomes
<1> QED BY <1>6, <1>7, <1>8, <1>10, <1>11, <1>12, RequestKeeps

-----------------------------------------------------------------------------
LEMMA InvitationKeeps ==
  ASSUME IInv, NEW h \in Handlers, CreateInvitation(h) \/ DeleteInvitation(h)
  PROVE  IInv'
<1>1. PICK u \in Users : \E i \in Invitations : \E pc \in {"invite", "revoke"} :
        Begin(h, Inviting(pc, u, i))
  BY DEF CreateInvitation, DeleteInvitation, IInv, TypeOK
<1>2. PICK i \in Invitations, pc \in {"invite", "revoke"} :
        Begin(h, Inviting(pc, u, i))
  BY <1>1
<1>3. PICK r \in Requests : /\ r = Inviting(pc, u, i)
                            /\ r.pc = pc /\ r.invitation = i
  BY AtWith
<1>4. r.pc \in {"invite", "revoke"} /\ r.invitation \in Invitations
  BY <1>3
<1>5. UNCHANGED <<team, invitations, items, granted, late>>
  BY DEF CreateInvitation, DeleteInvitation
<1>6. Becomes(h, r) /\ begun' \in 0 .. MaxRequests
  BY <1>2, <1>3, BeginBecomes
<1>7. Ready(r)' /\ Swept(r)
  BY <1>4 DEF Ready, Swept
<1> QED BY <1>5, <1>6, <1>7, InvTypes, RequestKeeps

LEMMA CreateItemKeeps ==
  ASSUME IInv, NEW h \in Handlers, CreateItem(h)
  PROVE  IInv'
<1>1. PICK u \in Users : \E i \in Items : Begin(h, Storing(u, i))
  BY DEF CreateItem
<1>2. PICK i \in Items : Begin(h, Storing(u, i))
  BY <1>1
<1>3. PICK r \in Requests : /\ r = Storing(u, i)
                            /\ r.pc = "store" /\ r.item = i
  BY AtWith
<1>4. r.pc = "store" /\ r.item \in Items
  BY <1>3
<1>5. UNCHANGED <<team, invitations, items, granted, late>>
  BY DEF CreateItem
<1>6. Becomes(h, r) /\ begun' \in 0 .. MaxRequests
  BY <1>2, <1>3, BeginBecomes
<1>7. Ready(r)' /\ Swept(r)
  BY <1>4 DEF Ready, Swept
<1> QED BY <1>5, <1>6, <1>7, InvTypes, RequestKeeps

LEMMA DeleteKeeps ==
  ASSUME IInv, NEW h \in Handlers, Delete(h)
  PROVE  IInv'
<1>1. PICK u \in Users : Begin(h, At("reassign", u))
  BY DEF Delete
<1>2. PICK r \in Requests : r = At("reassign", u) /\ r.pc = "reassign" /\ r.table = 1
  BY AtTyped DEF Owners
<1>3. UNCHANGED <<team, invitations, items, granted, late>>
  BY DEF Delete
<1>4. Becomes(h, r) /\ begun' \in 0 .. MaxRequests
  BY <1>1, <1>2, BeginBecomes
<1>5. Ready(r)' /\ Swept(r)
  BY <1>2, FreshSwept DEF Ready
<1> QED BY <1>3, <1>4, <1>5, InvTypes, RequestKeeps

LEMMA DropKeeps ==
  ASSUME IInv, NEW h \in Handlers, Drop(h)
  PROVE  IInv'
<1>1. PICK r \in Requests : r = Idle /\ r.pc = "idle"
  BY AtTyped DEF Owners
<1>2. UNCHANGED <<team, invitations, items, granted, late>>
  BY DEF Drop
<1>3. Becomes(h, r) /\ begun' \in 0 .. MaxRequests
  BY <1>1, ContinueBecomes DEF Drop, End
<1>4. Ready(r)' /\ Swept(r)
  BY <1>1 DEF Ready, Swept
<1> QED BY <1>2, <1>3, <1>4, InvTypes, RequestKeeps

-----------------------------------------------------------------------------
(* The steps that write.                                                   *)

LEMMA UpdateMembersKeeps ==
  ASSUME IInv, NEW h \in Handlers, UpdateMembers(h)
  PROVE  IInv'
<1>1. /\ request[h].pc = "members" /\ Becomes(h, Idle) /\ begun' \in 0 .. MaxRequests
      /\ UNCHANGED <<invitations, items, granted, late>>
  BY ContinueBecomes DEF UpdateMembers, End
<1>2. PICK ms \in Members : ms = request[h].members
  BY InvTypes DEF Requests
<1>3. /\ Allowed(ms) /\ \A u \in DOMAIN ms : ms[u] \in granted[u]
      /\ DOMAIN ms \subseteq Users
  BY <1>1, <1>2, MembersDef DEF IInv, Ready
<1>4. team' = IF team.exists THEN [team EXCEPT !.members = ms] ELSE team
  BY <1>2 DEF UpdateMembers, Set
<1>5. /\ team' \in [exists : BOOLEAN, owner : Owners, members : Members]
      /\ team'.owner = team.owner /\ team'.exists = team.exists
      /\ team'.members \in {team.members, ms}
  BY <1>4 DEF IInv, TypeOK
<1>6. TypeOK'
  BY <1>1, <1>5, AtTyped DEF IInv, TypeOK, Becomes, Owners
<1>7. KeepsAnAdmin'
  BY <1>3, <1>5 DEF IInv, KeepsAnAdmin, Allowed, HasAdmin
<1>8. OwnerStaysOutside'
  BY <1>3, <1>5, TeamAssumption DEF IInv, OwnerStaysOutside, Allowed
<1>9. RolesWereGranted'
  BY <1>1, <1>3, <1>5 DEF IInv, RolesWereGranted
<1>10. NothingLeftBehind'
  BY <1>1, <1>5 DEF IInv, NothingLeftBehind
<1>11. ASSUME NEW g \in Handlers PROVE Ready(request[g])' /\ Swept(request[g])'
  <2>1. CASE g = h
    <3>1. request'[g].pc = "idle"
      BY <2>1, <1>1, AtTyped DEF Becomes, IInv, TypeOK, Owners
    <3> QED BY <3>1 DEF Ready, Swept
  <2>2. CASE g # h
    <3>1. request'[g] = request[g]
      BY <2>2, <1>1 DEF Becomes, IInv, TypeOK
    <3> QED BY <1>1, <1>5, <3>1 DEF IInv, Ready, Swept, Allowed
  <2> QED BY <2>1, <2>2
<1> QED BY <1>6, <1>7, <1>8, <1>9, <1>10, <1>11 DEF IInv

\* The other requests, when the library only shrinks or grows by late items.
LEMMA OthersKept ==
  ASSUME IInv, NEW h \in Handlers, NEW r \in Requests, Becomes(h, r), UNCHANGED granted,
         team'.owner = team.owner, items' \in [Items -> Owners \union {TheTeam}],
         \A i \in Items : items'[i] = TheTeam => items[i] = TheTeam \/ i \in late',
         late \subseteq late',
         Ready(r), Swept(r)'
  PROVE  \A g \in Handlers : Ready(request[g])' /\ Swept(request[g])'
<1> SUFFICES ASSUME NEW g \in Handlers PROVE Ready(request[g])' /\ Swept(request[g])'
  OBVIOUS
<1>1. CASE g = h
  <2>1. request'[g] = r
    BY <1>1 DEF Becomes, IInv, TypeOK
  <2> QED BY <2>1 DEF Ready, Swept, Allowed
<1>2. CASE g # h
  <2>1. request'[g] = request[g] /\ Ready(request[g]) /\ Swept(request[g])
    BY <1>2 DEF Becomes, IInv, TypeOK
  <2> QED BY <2>1 DEF Ready, Swept, Allowed
<1> QED BY <1>1, <1>2

LEMMA WriteInvitationKeeps ==
  ASSUME IInv, NEW h \in Handlers, WriteInvitation(h)
  PROVE  IInv'
<1>1. /\ Becomes(h, Idle) /\ begun' \in 0 .. MaxRequests
      /\ UNCHANGED <<team, items, granted, late>>
  BY ContinueBecomes DEF WriteInvitation, End
<1>2. invitations' \subseteq Invitations
  BY DEF WriteInvitation, IInv, TypeOK, Ready
<1>3. PICK r \in Requests : r = Idle /\ r.pc = "idle"
  BY AtTyped DEF Owners
<1>4. TypeOK'
  BY <1>1, <1>2, <1>3 DEF IInv, TypeOK, Becomes
<1>5. (KeepsAnAdmin /\ OwnerStaysOutside /\ RolesWereGranted /\ NothingLeftBehind)'
  BY <1>1 DEF IInv, KeepsAnAdmin, OwnerStaysOutside, RolesWereGranted, NothingLeftBehind
<1>6. Ready(r) /\ Swept(r)'
  BY <1>3 DEF Ready, Swept
<1>7. items' \in [Items -> Owners \union {TheTeam}]
  BY <1>4 DEF TypeOK
<1>8. \A g \in Handlers : Ready(request[g])' /\ Swept(request[g])'
  BY <1>1, <1>3, <1>6, <1>7, OthersKept
<1> QED BY <1>4, <1>5, <1>8 DEF IInv

LEMMA StoreItemKeeps ==
  ASSUME IInv, NEW h \in Handlers, StoreItem(h)
  PROVE  IInv'
<1>1. /\ Becomes(h, Idle) /\ begun' \in 0 .. MaxRequests
      /\ UNCHANGED <<team, invitations, granted>>
  BY ContinueBecomes DEF StoreItem, End
<1>2. PICK i \in Items : i = request[h].item
  BY DEF StoreItem, IInv, Ready
<1>3. /\ items' = [items EXCEPT ![i] = IF @ = Nobody THEN TheTeam ELSE @]
      /\ late' = IF Passed(i) THEN late \union {i} ELSE late
  BY <1>2 DEF StoreItem
<1>4. PICK r \in Requests : r = Idle /\ r.pc = "idle"
  BY AtTyped DEF Owners
<1>5. /\ items' \in [Items -> Owners \union {TheTeam}] /\ late' \subseteq Items
      /\ \A j \in Items : j # i => items'[j] = items[j]
      /\ late \subseteq late' /\ (Passed(i) => i \in late')
  BY <1>3 DEF IInv, TypeOK
<1>6. TypeOK'
  BY <1>1, <1>4, <1>5 DEF IInv, TypeOK, Becomes
<1>7. (KeepsAnAdmin /\ OwnerStaysOutside /\ RolesWereGranted)'
  BY <1>1 DEF IInv, KeepsAnAdmin, OwnerStaysOutside, RolesWereGranted
<1>8. NothingLeftBehind'
  BY <1>1, <1>5 DEF IInv, NothingLeftBehind, Passed
<1>9. ASSUME NEW g \in Handlers PROVE Ready(request[g])' /\ Swept(request[g])'
  <2>1. CASE g = h
    <3>1. request'[g] = r
      BY <2>1, <1>1, <1>4 DEF Becomes, IInv, TypeOK
    <3> QED BY <1>4, <3>1 DEF Ready, Swept
  <2>2. CASE g # h
    <3>1. request'[g] = request[g] /\ Ready(request[g]) /\ Swept(request[g])
      BY <2>2, <1>1 DEF Becomes, IInv, TypeOK
    <3>2. ASSUME request[g].pc = "reassign", NEW j \in Items, TableOf[j] < request[g].table,
                 items'[j] = TheTeam
          PROVE  j \in late'
      <4>1. CASE j = i
        <5>1. Passed(i)
          BY <3>2, <4>1, InvTypes, TeamAssumption DEF Passed, Requests, Tables
        <5> QED BY <5>1, <4>1, <1>5
      <4>2. CASE j # i
        BY <3>1, <3>2, <4>2, <1>5 DEF Swept
      <4> QED BY <4>1, <4>2
    <3> QED BY <1>1, <3>1, <3>2 DEF Ready, Swept, Allowed
  <2> QED BY <2>1, <2>2
<1> QED BY <1>6, <1>7, <1>8, <1>9 DEF IInv

LEMMA ReassignKeeps ==
  ASSUME IInv, NEW h \in Handlers, reassign_content(h)
  PROVE  IInv'
<1>1. PICK q \in Requests : q = request[h]
  BY InvTypes
<1>2. /\ q.pc = "reassign" /\ q.table \in Tables
      /\ items' = [i \in Items |-> IF items[i] = TheTeam /\ TableOf[i] = q.table
                                   THEN q.user ELSE items[i]]
      /\ Continue(h, [q EXCEPT !.table = @ + 1])
      /\ UNCHANGED <<team, invitations, granted, late>>
  BY <1>1 DEF reassign_content
<1>3. /\ [q EXCEPT !.table = @ + 1] \in Requests
      /\ [q EXCEPT !.table = @ + 1].pc = "reassign"
      /\ [q EXCEPT !.table = @ + 1].table = q.table + 1
      /\ q.user \in Owners
  BY <1>2 DEF Requests, Tables
<1>4. PICK r \in Requests : /\ r = [q EXCEPT !.table = @ + 1]
                            /\ r.pc = "reassign" /\ r.table = q.table + 1
  BY <1>3, Zenon
<1>5. Becomes(h, r) /\ begun' \in 0 .. MaxRequests
  BY <1>2, <1>4, ContinueBecomes, Zenon
<1>6. /\ items' \in [Items -> Owners \union {TheTeam}]
      /\ \A i \in Items : items'[i] = TheTeam => items[i] = TheTeam /\ TableOf[i] # q.table
  BY <1>2, <1>3, TeamAssumption DEF IInv, TypeOK, Owners
<1>7. TypeOK'
  BY <1>2, <1>5, <1>6 DEF IInv, TypeOK, Becomes
<1>8. (KeepsAnAdmin /\ OwnerStaysOutside /\ RolesWereGranted)'
  BY <1>2 DEF IInv, KeepsAnAdmin, OwnerStaysOutside, RolesWereGranted
<1>9. NothingLeftBehind'
  BY <1>2, <1>6 DEF IInv, NothingLeftBehind
<1>10. Ready(r)
  BY <1>4 DEF Ready
<1>11. Swept(r)'
  <2>1. Swept(q) /\ \A i \in Items : TableOf[i] \in Nat
    BY <1>1, TeamAssumption DEF IInv, Tables
  <2>2. \A i \in Items : TableOf[i] < r.table /\ TableOf[i] # q.table => TableOf[i] < q.table
    BY <1>2, <1>4, <2>1 DEF Tables
  <2> QED BY <1>2, <1>6, <2>1, <2>2 DEF Swept
<1>12. \A g \in Handlers : Ready(request[g])' /\ Swept(request[g])'
  BY <1>2, <1>5, <1>6, <1>10, <1>11, OthersKept
<1> QED BY <1>7, <1>8, <1>9, <1>12 DEF IInv

LEMMA DeleteRecordKeeps ==
  ASSUME IInv, NEW h \in Handlers, DeleteRecord(h)
  PROVE  IInv'
<1>1. /\ Becomes(h, Idle) /\ begun' \in 0 .. MaxRequests
      /\ request[h].pc = "reassign" /\ request[h].table \notin Tables
      /\ team' = [team EXCEPT !.exists = FALSE] /\ invitations' = {}
      /\ UNCHANGED <<items, granted, late>>
  BY ContinueBecomes DEF DeleteRecord, End
<1>2. PICK r \in Requests : r = Idle /\ r.pc = "idle"
  BY AtTyped DEF Owners
<1>3. /\ team' \in [exists : BOOLEAN, owner : Owners, members : Members]
      /\ team'.owner = team.owner /\ team'.members = team.members
  BY <1>1 DEF IInv, TypeOK
<1>4. TypeOK'
  BY <1>1, <1>2, <1>3 DEF IInv, TypeOK, Becomes
<1>5. (KeepsAnAdmin /\ OwnerStaysOutside /\ RolesWereGranted)'
  BY <1>1, <1>3 DEF IInv, KeepsAnAdmin, OwnerStaysOutside, RolesWereGranted
<1>6. NothingLeftBehind'
  <2>1. request[h].table = 5
    BY <1>1, InvTypes DEF Requests
  <2>2. \A i \in Items : TableOf[i] < request[h].table
    BY <2>1, TeamAssumption DEF Tables
  <2>3. Swept(request[h])
    BY DEF IInv
  <2> QED BY <1>1, <2>2, <2>3 DEF NothingLeftBehind, Swept
<1>7. Ready(r) /\ Swept(r)'
  BY <1>2 DEF Ready, Swept
<1>8. items' \in [Items -> Owners \union {TheTeam}]
  BY <1>4 DEF TypeOK
<1>9. \A g \in Handlers : Ready(request[g])' /\ Swept(request[g])'
  BY <1>1, <1>2, <1>3, <1>7, <1>8, OthersKept
<1> QED BY <1>4, <1>5, <1>6, <1>9 DEF IInv

LEMMA DeleteOwnerKeeps == ASSUME IInv, DeleteOwner PROVE IInv'
<1>1. /\ team' = [team EXCEPT !.exists = FALSE] /\ invitations' = {}
      /\ items' = [i \in Items |-> IF items[i] = TheTeam THEN Nobody ELSE items[i]]
      /\ UNCHANGED <<request, begun, granted, late>>
  BY DEF DeleteOwner
<1>2. /\ team' \in [exists : BOOLEAN, owner : Owners, members : Members]
      /\ team'.owner = team.owner /\ team'.members = team.members
  BY <1>1 DEF IInv, TypeOK
<1>3. /\ items' \in [Items -> Owners \union {TheTeam}]
      /\ \A i \in Items : items'[i] # TheTeam
  BY <1>1, TeamAssumption DEF IInv, TypeOK, Owners
<1>4. TypeOK'
  BY <1>1, <1>2, <1>3 DEF IInv, TypeOK
<1>5. (KeepsAnAdmin /\ OwnerStaysOutside /\ RolesWereGranted)'
  BY <1>1, <1>2 DEF IInv, KeepsAnAdmin, OwnerStaysOutside, RolesWereGranted
<1>6. NothingLeftBehind'
  BY <1>3 DEF NothingLeftBehind
<1>7. \A g \in Handlers : Ready(request[g])' /\ Swept(request[g])'
  BY <1>1, <1>2, <1>3 DEF IInv, Ready, Swept, Allowed
<1> QED BY <1>4, <1>5, <1>6, <1>7 DEF IInv

-----------------------------------------------------------------------------
LEMMA NextInv == IInv /\ [Next]_vars => IInv'
<1> SUFFICES ASSUME IInv, [Next]_vars PROVE IInv'
  OBVIOUS
<1>1. CASE UNCHANGED vars
  BY <1>1 DEF vars, IInv, TypeOK, KeepsAnAdmin, OwnerStaysOutside, RolesWereGranted,
              NothingLeftBehind, HasAdmin, Ready, Swept, Allowed
<1>2. CASE DeleteOwner
  BY <1>2, DeleteOwnerKeeps
<1>3. ASSUME NEW h \in Handlers, Handle(h) PROVE IInv'
  BY <1>3, PutKeeps, UpdateMembersKeeps, InvitationKeeps, WriteInvitationKeeps,
     AcceptKeeps, CreateItemKeeps, StoreItemKeeps, DeleteKeeps, ReassignKeeps,
     DeleteRecordKeeps, DropKeeps DEF Handle
<1> QED BY <1>1, <1>2, <1>3 DEF Next

LEMMA Safe == Spec => []IInv
BY InitInv, NextInv, PTL DEF Spec

\* Every state of a team and of the requests on it has its type.
THEOREM TeamTyped == Spec => []TypeOK
<1>1. IInv => TypeOK
  BY DEF IInv
<1> QED BY <1>1, Safe, PTL

\* No interleaving of requests leaves a shared team without an admin.
THEOREM AdminIsKept == Spec => []KeepsAnAdmin
<1>1. IInv => KeepsAnAdmin
  BY DEF IInv
<1> QED BY <1>1, Safe, PTL

\* The owner of a personal team never becomes a member of it as well.
THEOREM OwnerIsKeptOut == Spec => []OwnerStaysOutside
<1>1. IInv => OwnerStaysOutside
  BY DEF IInv
<1> QED BY <1>1, Safe, PTL

\* Nobody holds a role that was never given to him, whoever leaves meanwhile.
THEOREM RolesAreGranted == Spec => []RolesWereGranted
<1>1. IInv => RolesWereGranted
  BY DEF IInv
<1> QED BY <1>1, Safe, PTL

\* The library outlives its team, up to items stored behind the deletion's back.
THEOREM LibrarySurvives == Spec => []NothingLeftBehind
<1>1. IInv => NothingLeftBehind
  BY DEF IInv
<1> QED BY <1>1, Safe, PTL

\* What late requests write does not bring a deleted team back.
THEOREM GoneForGood == Spec => DeletedStaysDeleted
<1>1. IInv /\ [Next]_vars => [~team.exists => team' = team]_vars
  <2> SUFFICES ASSUME IInv, Next, ~team.exists PROVE team' = team
    BY DEF vars
  <2>1. ASSUME NEW h \in Handlers, Handle(h) PROVE team' = team
    <3>1. CASE UpdateMembers(h)
      BY <3>1 DEF UpdateMembers, Set
    <3>2. CASE DeleteRecord(h)
      BY <3>2 DEF DeleteRecord, IInv, TypeOK
    <3>3. CASE WriteInvitation(h) \/ StoreItem(h) \/ reassign_content(h) \/ Drop(h)
      BY <3>3 DEF WriteInvitation, StoreItem, reassign_content, Drop
    <3>4. CASE Put(h) \/ CreateInvitation(h) \/ DeleteInvitation(h) \/ Accept(h)
               \/ CreateItem(h) \/ Delete(h)
      BY <3>4 DEF Put, CreateInvitation, DeleteInvitation, Accept, CreateItem, Delete
    <3> QED BY <2>1, <3>1, <3>2, <3>3, <3>4 DEF Handle
  <2>2. CASE DeleteOwner
    BY <2>2 DEF DeleteOwner
  <2> QED BY <2>1, <2>2 DEF Next
<1> QED BY <1>1, Safe, PTL DEF Spec, DeletedStaysDeleted
=============================================================================
