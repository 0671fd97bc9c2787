--------------------------- MODULE TeamMembership ---------------------------
(***************************************************************************)
(* One team: who is in it, its invitations, and the library it owns.       *)
(* TeamService and InvitationService (resources/team) read the team with   *)
(* one statement, decide, and write the whole members array with another,  *)
(* which has no condition: a request is a handler with its own program     *)
(* counter, and handlers of all instances interleave at statements.        *)
(*                                                                         *)
(* A team is shared (no owner, some admin) or the personal team of its     *)
(* owner.  The library is one row per item; which table an item is in      *)
(* matters because deleting a team moves table after table.  A handler may *)
(* be dropped at any statement: a crash, or a client that hangs up.        *)
(* Names, covers, searches and the content of rows are left out; a PATCH   *)
(* with members is a PUT that reads the team once more before.             *)
(***************************************************************************)
EXTENDS Naturals

CONSTANTS
  Users, Nobody,  \* Nobody owns a shared team
  Handlers,
  Invitations,    \* ids of invitations
  Items, TheTeam, \* items of the library; who owns one: the team, a user, nobody
  TableOf,        \* the table of an item, by its place in reassign_content
  Payloads,       \* members arrays that clients send
  MaxRequests     \* bound on the requests

Roles   == {"admin", "content_maintainer", "guest"}
Members == UNION {[S -> Roles] : S \in SUBSET Users}
Tables  == 1 .. 4               \* blob, song, collection, setlist

ASSUME TeamAssumption ==
  /\ Nobody \notin Users /\ TheTeam \notin Users \union {Nobody}
  /\ Payloads \subseteq Members
  /\ TableOf \in [Items -> Tables]
  /\ MaxRequests \in Nat

VARIABLES
  team,         \* the team record; exists is FALSE once it is deleted
  invitations,  \* rows of team_invitation
  items,        \* owner of each item's row, Nobody without a row
  request,      \* what each handler does
  begun,        \* how many requests were begun
  granted,      \* history: the roles a user was legitimately given
  late          \* history: items stored after a deletion had passed their table

vars == <<team, invitations, items, request, begun, granted, late>>

Owners    == Users \union {Nobody}
NoMembers == [u \in {} |-> "guest"]

HasAdmin(ms)   == \E u \in DOMAIN ms : ms[u] = "admin"
Without(ms, u) == [v \in DOMAIN ms \ {u} |-> ms[v]]
With(ms, u, role) == [v \in DOMAIN ms \union {u} |-> IF v = u THEN role ELSE ms[v]]

\* Mutant: a shared team may lose its last admin.
AllowedToAll(ms) == team.owner \notin DOMAIN ms

\* ensure_shared_team_has_admin_after_update, validate_personal_members_not_owner.
Allowed(ms) == IF team.owner = Nobody THEN HasAdmin(ms) ELSE team.owner \notin DOMAIN ms

HasRole(u, roles) == u = team.owner \/ (u \in DOMAIN team.members /\ team.members[u] \in roles)
member_or_owner_readable(u) == team.exists /\ HasRole(u, Roles)
effective_admin(u)          == team.exists /\ HasRole(u, {"admin"})

At(pc, u) == [pc |-> pc, user |-> u, members |-> NoMembers, item |-> Nobody,
              invitation |-> Nobody, table |-> 1]
Idle == At("idle", Nobody)
Writing(u, ms)     == [At("members", u) EXCEPT !.members = ms]
Inviting(pc, u, i) == [At(pc, u) EXCEPT !.invitation = i]
Storing(u, i)      == [At("store", u) EXCEPT !.item = i]

\* Mutant: a role that parse_role does not know.
build_create_with_owner(u, extra) == With(extra, u, "owner")

\* build_create_shared_members: the creator is admin, whatever the payload says.
build_create_shared_members(u, extra) == With(extra, u, "admin")

Init ==
  /\ \E u \in Users :
       \/ \E extra \in Payloads :
            team = [exists |-> TRUE, owner |-> Nobody,
                    members |-> build_create_shared_members(u, extra)]
       \/ team = [exists |-> TRUE, owner |-> u, members |-> NoMembers]
  /\ invitations = {}
  /\ items = [i \in Items |-> Nobody]
  /\ request = [h \in Handlers |-> Idle]
  /\ begun = 0
  /\ granted = [u \in Users |-> IF u \in DOMAIN team.members THEN {team.members[u]} ELSE {}]
  /\ late = {}

Begin(h, r) ==
  /\ request[h].pc = "idle"
  /\ begun < MaxRequests
  /\ begun' = begun + 1
  /\ request' = [request EXCEPT ![h] = r]

Continue(h, r) == request' = [request EXCEPT ![h] = r] /\ UNCHANGED begun
End(h)         == Continue(h, Idle)

-----------------------------------------------------------------------------
(* Changing a team.                                                        *)

\* Mutant: a member who leaves may change the others' roles on the way.
LeaveByNames(u, ms) == u \in DOMAIN team.members /\ DOMAIN ms = DOMAIN team.members \ {u}

member_self_leave_payload(u, ms) ==
  u \in DOMAIN team.members /\ ms = Without(team.members, u)

\* An admin's list, once validated, gives everybody on it a role.
Grant(ms) ==
  granted' = [u \in Users |-> granted[u] \union (IF u \in DOMAIN ms THEN {ms[u]} ELSE {})]

\* update_team_for_user up to its write: an admin replaces the list, another
\* member may only take himself out of it.  Clients send any list, or the one
\* they know without themselves.
Put(h) ==
  /\ \E u \in Users : \E ms \in Payloads \union {Without(team.members, u)} :
       /\ member_or_owner_readable(u)
       /\ Allowed(ms)
       /\ Begin(h, Writing(u, ms))
       /\ \/ effective_admin(u) /\ Grant(ms)
          \/ /\ ~effective_admin(u) /\ member_self_leave_payload(u, ms)
             /\ UNCHANGED granted
  /\ UNCHANGED <<team, invitations, items, late>>

\* Mutant: UPSERT would make a deleted team anew.
SetOrMake(record) == team' = [record EXCEPT !.exists = TRUE]

\* UPDATE changes a record that exists and makes none.
Set(record) == team' = IF team.exists THEN record ELSE team

UpdateMembers(h) ==
  /\ request[h].pc = "members"
  /\ Set([team EXCEPT !.members = request[h].members])
  /\ End(h)
  /\ UNCHANGED <<invitations, items, granted, late>>

-----------------------------------------------------------------------------
(* Invitations.                                                            *)

CreateInvitation(h) ==
  /\ \E u \in Users, i \in Invitations \ invitations :
       effective_admin(u) /\ Begin(h, Inviting("invite", u, i))
  /\ UNCHANGED <<team, invitations, items, granted, late>>

DeleteInvitation(h) ==
  /\ \E u \in Users, i \in invitations :
       effective_admin(u) /\ Begin(h, Inviting("revoke", u, i))
  /\ UNCHANGED <<team, invitations, items, granted, late>>

WriteInvitation(h) ==
  LET r == request[h] IN
  /\ \/ r.pc = "invite" /\ invitations' = invitations \union {r.invitation}
     \/ r.pc = "revoke" /\ invitations' = invitations \ {r.invitation}
  /\ End(h)
  /\ UNCHANGED <<team, items, granted, late>>

\* Mutant: the owner of a personal team is a guest like any other.
NeedsGuestOwnerToo(u) == u \notin DOMAIN team.members

NeedsGuest(u) == u # team.owner /\ u \notin DOMAIN team.members

\* accept_invitation_for_user: invitation and team are read by one statement.
\* Who is in the team already gets it shown and nothing is written.
Accept(h) ==
  /\ invitations # {} /\ team.exists
  /\ \E u \in Users :
       /\ NeedsGuest(u)
       /\ Begin(h, Writing(u, With(team.members, u, "guest")))
       /\ granted' = [granted EXCEPT ![u] = @ \union {"guest"}]
  /\ UNCHANGED <<team, invitations, items, late>>

-----------------------------------------------------------------------------
(* The library, and the end of a team.                                     *)

\* A blob, song, collection or setlist is created for the team by a user whose
\* roles were read when the request came in.
CreateItem(h) ==
  /\ \E u \in Users, i \in Items :
       /\ team.exists /\ HasRole(u, {"admin", "content_maintainer"})
       /\ items[i] = Nobody
       /\ Begin(h, Storing(u, i))
  /\ UNCHANGED <<team, invitations, items, granted, late>>

Passed(i) == \/ ~team.exists
             \/ \E g \in Handlers : request[g].pc = "reassign" /\ request[g].table > TableOf[i]

StoreItem(h) ==
  LET i == request[h].item IN
  /\ request[h].pc = "store"
  /\ items' = [items EXCEPT ![i] = IF @ = Nobody THEN TheTeam ELSE @]
  /\ late' = IF Passed(i) THEN late \union {i} ELSE late
  /\ End(h)
  /\ UNCHANGED <<team, invitations, granted>>

\* delete_team_for_user: only a shared team, only by an admin.
Delete(h) ==
  /\ team.owner = Nobody
  /\ \E u \in Users : effective_admin(u) /\ Begin(h, At("reassign", u))
  /\ UNCHANGED <<team, invitations, items, granted, late>>

\* Mutant: setlists are forgotten.
reassign_three(h) ==
  LET r == request[h] IN
  /\ r.pc = "reassign" /\ r.table \in Tables
  /\ items' = [i \in Items |-> IF items[i] = TheTeam /\ TableOf[i] = r.table /\ r.table < 4
                               THEN r.user ELSE items[i]]
  /\ Continue(h, [r EXCEPT !.table = @ + 1])
  /\ UNCHANGED <<team, invitations, granted, late>>

\* reassign_content: one UPDATE per table.
reassign_content(h) ==
  LET r == request[h] IN
  /\ r.pc = "reassign" /\ r.table \in Tables
  /\ items' = [i \in Items |-> IF items[i] = TheTeam /\ TableOf[i] = r.table
                               THEN r.user ELSE items[i]]
  /\ Continue(h, [r EXCEPT !.table = @ + 1])
  /\ UNCHANGED <<team, invitations, granted, late>>

\* delete_team_record; the event team_invitation_team_cascade takes the
\* invitations with it.
DeleteRecord(h) ==
  /\ request[h].pc = "reassign" /\ request[h].table \notin Tables
  /\ team' = [team EXCEPT !.exists = FALSE]
  /\ invitations' = {}
  /\ End(h)
  /\ UNCHANGED <<items, granted, late>>

\* The owner's account is deleted: his personal team, its library and its
\* invitations go with it, by events of the same transaction.
DeleteOwner ==
  /\ team.exists /\ team.owner # Nobody
  /\ team' = [team EXCEPT !.exists = FALSE]
  /\ invitations' = {}
  /\ items' = [i \in Items |-> IF items[i] = TheTeam THEN Nobody ELSE items[i]]
  /\ UNCHANGED <<request, begun, granted, late>>

Drop(h) ==
  /\ request[h].pc # "idle"
  /\ End(h)
  /\ UNCHANGED <<team, invitations, items, granted, late>>

-----------------------------------------------------------------------------
Handle(h) ==
  \/ Put(h) \/ UpdateMembers(h)
  \/ CreateInvitation(h) \/ DeleteInvitation(h) \/ WriteInvitation(h) \/ Accept(h)
  \/ CreateItem(h) \/ StoreItem(h)
  \/ Delete(h) \/ reassign_content(h) \/ DeleteRecord(h)
  \/ Drop(h)

Next == DeleteOwner \/ \E h \in Handlers : Handle(h)

Spec == Init /\ [][Next]_vars

-----------------------------------------------------------------------------
Requests ==
  [pc : {"idle", "members", "invite", "revoke", "store", "reassign"},
   user : Owners, members : Members,
   item : Items \union {Nobody}, invitation : Invitations \union {Nobody},
   table : Tables \union {5}]

TypeOK ==
  /\ team \in [exists : BOOLEAN, owner : Owners, members : Members]
  /\ invitations \subseteq Invitations
  /\ items \in [Items -> Owners \union {TheTeam}]
  /\ request \in [Handlers -> Requests]
  /\ begun \in 0 .. MaxRequests
  /\ granted \in [Users -> SUBSET Roles]
  /\ late \subseteq Items

\* A shared team keeps an admin (BLC-TEAM-011, BLC-TEAM-015), although two
\* admins may leave at once: each writes the whole array he validated, so the
\* later one brings the other back rather than leaving nobody.
KeepsAnAdmin == team.owner = Nobody => HasAdmin(team.members)

\* The owner of a personal team never appears among its members, by a PUT, by
\* an invitation to his own team, or by an array that was read long ago.
OwnerStaysOutside == team.owner \notin DOMAIN team.members

\* Whatever arrays overwrite each other, a role someone holds was once given
\* to him: by the team's creation, an admin's PUT or PATCH, or an invitation.
\* A member who leaves gives nobody a role.
RolesWereGranted ==
  \A u \in DOMAIN team.members : team.members[u] \in granted[u]

\* When a team is gone its library is not: what was there before the deletion
\* reached its table belongs to somebody else, even if handlers were dropped
\* half way and another deletion finished the work (BLC-TEAM-016).
NothingLeftBehind ==
  ~team.exists => \A i \in Items : items[i] = TheTeam => i \in late

\* A request that was under way when a team was deleted does not bring it back.
DeletedStaysDeleted == [][~team.exists => team' = team]_vars
=============================================================================
