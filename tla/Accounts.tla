-------------------------------- MODULE Accounts --------------------------------
(***************************************************************************)
(* People, organizations and workspaces (auth/provisioning.py and its      *)
(* routers): who belongs to what, and the refusals that keep everyone with *)
(* a way in and every plan within its caps.  A refusal is checked in one   *)
(* statement and the change is committed later, by another, so that        *)
(* requests overlap between the two.  Local mode, hosted: billing is on    *)
(* and anyone may sign up.  An admin, who may do what an owner may but     *)
(* delete the organization, is left out, and so is the date of an          *)
(* invitation: one that is past it keeps its seat and is not accepted.     *)
(***************************************************************************)
EXTENDS Naturals, FiniteSets

CONSTANTS
    Users,            \* emails; a personal organization is named by its user
    Companies,        \* company organizations, once created
    WorkspaceIds,     \* workspaces, once created
    InviteIds,        \* invitations, once created
    Slots,            \* requests under way at once
    SeatLimit, WorkspaceLimit,   \* of a company's plan; a seat is its owner's
    MaxOrganizations, \* settings.max_organizations_per_user
    MaxCalls,         \* bound: requests that pass their check
    Nobody, Nothing   \* no user; no organization or workspace or invitation

Orgs == Companies \cup Users

ASSUME AccountAssumption ==
    /\ Companies \cap Users = {}
    /\ IsFiniteSet(Users) /\ IsFiniteSet(WorkspaceIds) /\ IsFiniteSet(InviteIds)
    /\ Nobody \notin Users
    /\ Nothing \notin Orgs \cup WorkspaceIds \cup InviteIds
    /\ SeatLimit \in Nat \ {0} /\ WorkspaceLimit \in Nat
    /\ MaxOrganizations \in Nat /\ MaxCalls \in Nat

VARIABLES
    accounts,   \* users with a row
    orgs,       \* organizations with a row
    role,       \* [Orgs -> [Users -> role, "none" without a membership]]
    home,       \* [WorkspaceIds -> its organization, or Nothing]
    invite,     \* [InviteIds -> its organization, email and status]
    call,       \* [Slots -> a request between its check and its commit]
    calls,      \* requests so far
    staleCommits,      \* commits whose check did not hold any more
    evicted,    \* users removed by others, or with their organization
    halved      \* organizations whose deletion stopped half way

accountVars ==
    <<accounts, orgs, role, home, invite, call, calls, staleCommits, evicted, halved>>

MembersOf(o) == {u \in Users : role[o][u] # "none"}
WorkspacesOf(o) == {w \in WorkspaceIds : home[w] = o}
Pending(o) == {i \in InviteIds : invite[i].org = o /\ invite[i].status = "PENDING"}

\* queries.user_workspaces
Reach(u) == {w \in WorkspaceIds : home[w] # Nothing /\ u \in MembersOf(home[w])}

Unused == [org |-> Nothing, email |-> Nobody, status |-> "none"]

NoCall == [op |-> "none", by |-> Nobody, org |-> Nothing, user |-> Nobody,
           of |-> Nothing, left |-> {}]

Ops == {"createOrg", "createWorkspace", "deleteWorkspace", "invite", "accept",
        "revoke", "remove", "deleteOrg", "drop"}

AccountTypeOK ==
    /\ accounts \subseteq Users
    /\ orgs \subseteq Orgs
    /\ role \in [Orgs -> [Users -> {"none", "OWNER", "MEMBER"}]]
    /\ home \in [WorkspaceIds -> Orgs \cup {Nothing}]
    /\ invite \in [InviteIds ->
         [org : Orgs \cup {Nothing}, email : Users \cup {Nobody},
          status : {"none", "PENDING", "ACCEPTED", "REVOKED"}]]
    /\ call \in [Slots ->
         [op : Ops \cup {"none"}, by : Users \cup {Nobody}, org : Orgs \cup {Nothing},
          user : Users \cup {Nobody}, of : WorkspaceIds \cup InviteIds \cup {Nothing},
          left : SUBSET WorkspaceIds]]
    /\ calls \in 0..MaxCalls
    /\ staleCommits \in Nat
    /\ evicted \subseteq Users /\ halved \subseteq Orgs

AccountInit ==
    /\ accounts = {} /\ orgs = {}
    /\ role = [o \in Orgs |-> [u \in Users |-> "none"]]
    /\ home = [w \in WorkspaceIds |-> Nothing]
    /\ invite = [i \in InviteIds |-> Unused]
    /\ call = [s \in Slots |-> NoCall]
    /\ calls = 0 /\ staleCommits = 0
    /\ evicted = {} /\ halved = {}

-----------------------------------------------------------------------------
(* The refusals                                                            *)

CompaniesOf(u) == {o \in Companies : u \in MembersOf(o)}

\* seat_count
SeatsUsed(o) == Cardinality(MembersOf(o)) + Cardinality(Pending(o))

Owner(c) == c.org \in orgs /\ role[c.org][c.by] = "OWNER"

Member(c) == c.org \in orgs /\ c.by \in MembersOf(c.org)

\* assert_can_create_organization
CanCreateOrg(c) ==
    c.by \in accounts /\ Cardinality(CompaniesOf(c.by)) < MaxOrganizations

\* assert_can_add_workspace
CanAddWorkspace(c) ==
    /\ Owner(c)
    /\ Cardinality(WorkspacesOf(c.org)) < IF c.org \in Users THEN 1 ELSE WorkspaceLimit

\* mutant: the siblings are not asked for.
CanDeleteWorkspace_Last(c) == Owner(c) /\ c.of \in WorkspacesOf(c.org)

\* delete_workspace: not the last one.
CanDeleteWorkspace(c) == Owner(c) /\ c.of \in WorkspacesOf(c.org) /\ WorkspacesOf(c.org) # {c.of}

\* mutant: off by one.
CanInvite_Late(c) ==
    /\ Owner(c) /\ c.org \in Companies
    /\ SeatsUsed(c.org) <= SeatLimit
    /\ c.user \notin MembersOf(c.org)

\* assert_can_add_seat, and no member yet
CanInvite(c) ==
    /\ Owner(c) /\ c.org \in Companies
    /\ SeatsUsed(c.org) < SeatLimit
    /\ c.user \notin MembersOf(c.org)

IsPending(c) == invite[c.of].status = "PENDING"

CanRevoke(c) == Owner(c) /\ c.of \in Pending(c.org)

\* mutant: who leaves is not asked for another way in.
CanRemove_Out(c) ==
    /\ Member(c) /\ c.org \in Companies
    /\ role[c.org][c.user] = "MEMBER"
    /\ c.by = c.user \/ Owner(c)

\* remove_member: who leaves keeps another way in; the owner stays.
CanRemove(c) ==
    /\ Member(c) /\ c.org \in Companies
    /\ role[c.org][c.user] = "MEMBER"
    /\ IF c.by = c.user THEN Reach(c.user) \ WorkspacesOf(c.org) # {} ELSE Owner(c)

\* delete_organization: the owner keeps another way in.
CanDeleteOrg(c) ==
    Owner(c) /\ c.org \in Companies /\ Reach(c.by) \ WorkspacesOf(c.org) # {}

Allowed(c) ==
    \/ c.op = "createOrg" /\ CanCreateOrg(c)
    \/ c.op = "createWorkspace" /\ CanAddWorkspace(c)
    \/ c.op = "deleteWorkspace" /\ CanDeleteWorkspace(c)
    \/ c.op = "invite" /\ CanInvite(c)
    \/ c.op = "accept" /\ IsPending(c)
    \/ c.op = "revoke" /\ CanRevoke(c)
    \/ c.op = "remove" /\ CanRemove(c)
    \/ c.op \in {"deleteOrg", "drop"} /\ CanDeleteOrg(c)

\* Begins a request: it is checked now and committed later.
Begins(s, c) ==
    /\ call[s].op = "none"
    /\ calls < MaxCalls
    /\ Allowed(c)
    /\ call' = [call EXCEPT ![s] = c]
    /\ calls' = calls + 1
    /\ UNCHANGED <<accounts, orgs, role, home, invite, staleCommits, evicted, halved>>

Request(op, u, o) == [NoCall EXCEPT !.op = op, !.by = u, !.org = o]

BeginCall(s) ==
    \/ \E u \in Users : Begins(s, Request("createOrg", u, Nothing))
    \/ \E u \in Users, o \in orgs, op \in {"createWorkspace", "deleteOrg"} :
         Begins(s, Request(op, u, o))
    \/ \E u \in Users, o \in orgs : \E w \in WorkspacesOf(o) :
         Begins(s, [Request("deleteWorkspace", u, o) EXCEPT !.of = w])
    \/ \E u, v \in Users, o \in orgs, op \in {"invite", "remove"} :
         Begins(s, [Request(op, u, o) EXCEPT !.user = v])
    \/ \E u \in Users, o \in orgs : \E i \in Pending(o) :
         Begins(s, [Request("revoke", u, o) EXCEPT !.of = i])
    \/ \E o \in orgs : \E i \in Pending(o) :
         Begins(s, [Request("accept", invite[i].email, o) EXCEPT !.of = i])

-----------------------------------------------------------------------------
(* The commits                                                             *)

\* Request s commits, or fails, and is answered.
Ends(s) ==
    /\ call' = [call EXCEPT ![s] = NoCall]
    /\ staleCommits' = IF Allowed(call[s]) THEN staleCommits ELSE staleCommits + 1
    /\ UNCHANGED calls

\* A workspace, organization or invitation that nobody speaks of.
NewWorkspaces == {w \in WorkspaceIds : home[w] = Nothing
                    /\ \A s \in Slots : call[s].of # w /\ w \notin call[s].left}
NewCompanies == {o \in Companies \ orgs : \A s \in Slots : call[s].org # o}
NewInvites == {i \in InviteIds : invite[i].status = "none" /\ \A s \in Slots : call[s].of # i}

JoinsAs(o, u, r) ==
    /\ role' = [role EXCEPT ![o][u] = r]
    /\ evicted' = evicted \ {u}

\* create_organization and create_workspace, one commit.
NewOrg(o, u) ==
    /\ orgs' = orgs \cup {o}
    /\ JoinsAs(o, u, "OWNER")
    /\ \E w \in NewWorkspaces : home' = [home EXCEPT ![w] = o]

\* register: signup_personal.
Signup(u) ==
    /\ u \notin accounts
    /\ accounts' = accounts \cup {u}
    /\ NewOrg(u, u)
    /\ UNCHANGED <<invite, call, calls, staleCommits, halved>>

CreateOrg(s) ==
    /\ call[s].op = "createOrg"
    /\ \E o \in NewCompanies : NewOrg(o, call[s].by)
    /\ Ends(s)
    /\ UNCHANGED <<accounts, invite, halved>>

\* create_workspace; its organization may be gone.
CreateWorkspace(s) ==
    LET o == call[s].org
    IN /\ call[s].op = "createWorkspace"
       /\ IF o \in orgs THEN \E w \in NewWorkspaces : home' = [home EXCEPT ![w] = o]
          ELSE UNCHANGED home
       /\ Ends(s)
       /\ UNCHANGED <<accounts, orgs, role, invite, evicted, halved>>

\* project_delete of a workspace with a sibling.
DeleteWorkspace(s) ==
    /\ call[s].op = "deleteWorkspace"
    /\ home' = [home EXCEPT ![call[s].of] = Nothing]
    /\ Ends(s)
    /\ UNCHANGED <<accounts, orgs, role, invite, evicted, halved>>

\* create_invitation; its organization may be gone.
Invite(s) ==
    LET o == call[s].org
    IN /\ call[s].op = "invite"
       /\ IF o \in orgs
          THEN \E i \in NewInvites : invite' = [invite EXCEPT ![i] =
                 [org |-> o, email |-> call[s].user, status |-> "PENDING"]]
          ELSE UNCHANGED invite
       /\ Ends(s)
       /\ UNCHANGED <<accounts, orgs, role, home, evicted, halved>>

\* mutant: the UPDATE does not say WHERE status = 'PENDING'.
StillOpen_Any(c) == invite[c.of].status # "none"

\* The conditional UPDATE of accept_invitation finds its row.
StillOpen(c) == invite[c.of].status = "PENDING"

\* accept_invitation: an account, if there is none, and a membership, unless
\* there is one.  Without a workspace to land in, nothing is committed.
Accept(s) ==
    LET o == call[s].org
        u == call[s].by
    IN /\ call[s].op = "accept"
       /\ IF StillOpen(call[s]) /\ WorkspacesOf(o) # {}
          THEN /\ invite' = [invite EXCEPT ![call[s].of].status = "ACCEPTED"]
               /\ accounts' = accounts \cup {u}
               /\ IF u \in MembersOf(o) THEN UNCHANGED <<role, evicted>>
                  ELSE JoinsAs(o, u, "MEMBER")
          ELSE UNCHANGED <<invite, accounts, role, evicted>>
       /\ Ends(s)
       /\ UNCHANGED <<orgs, home, halved>>

\* revoke_invitation: it has read PENDING, and writes REVOKED.
Revoke(s) ==
    /\ call[s].op = "revoke"
    /\ invite' = IF invite[call[s].of].status = "none" THEN invite
                 ELSE [invite EXCEPT ![call[s].of].status = "REVOKED"]
    /\ Ends(s)
    /\ UNCHANGED <<accounts, orgs, role, home, evicted, halved>>

\* remove_organization_member, of oneself or of another.
RemoveMember(s) ==
    LET c == call[s]
    IN /\ c.op = "remove"
       /\ role' = [role EXCEPT ![c.org][c.user] = "none"]
       /\ evicted' = IF c.by # c.user /\ c.user \in MembersOf(c.org)
                     THEN evicted \cup {c.user} ELSE evicted
       /\ Ends(s)
       /\ UNCHANGED <<accounts, orgs, home, invite, halved>>

\* delete_organization lists its workspaces.
ListWorkspaces(s) ==
    LET o == call[s].org
    IN /\ call[s].op = "deleteOrg"
       /\ call' = [call EXCEPT ![s].op = "drop", ![s].left = WorkspacesOf(o)]
       /\ staleCommits' = IF Allowed(call[s]) THEN staleCommits ELSE staleCommits + 1
       /\ UNCHANGED <<accounts, orgs, role, home, invite, calls, evicted, halved>>

\* It deletes them one by one, each with a commit of its own; the others lose
\* their way in.
DropWorkspace(s) ==
    /\ call[s].op = "drop"
    /\ \E w \in call[s].left :
         /\ home' = [home EXCEPT ![w] = Nothing]
         /\ call' = [call EXCEPT ![s].left = @ \ {w}]
    /\ evicted' = evicted \cup (MembersOf(call[s].org) \ {call[s].by})
    /\ staleCommits' = IF Allowed(call[s]) THEN staleCommits ELSE staleCommits + 1
    /\ UNCHANGED <<accounts, orgs, role, invite, calls, halved>>

\* organization_delete, which a workspace created meanwhile makes fail.
DeleteOrg(s) ==
    LET o == call[s].org
    IN /\ call[s].op = "drop" /\ call[s].left = {}
       /\ IF WorkspacesOf(o) = {}
          THEN /\ orgs' = orgs \ {o}
               /\ role' = [role EXCEPT ![o] = [u \in Users |-> "none"]]
               /\ invite' = [i \in InviteIds |-> IF invite[i].org = o THEN Unused ELSE invite[i]]
               /\ evicted' = evicted \cup (MembersOf(o) \ {call[s].by})
               /\ halved' = halved \ {o}
          ELSE /\ halved' = halved \cup {o}
               /\ UNCHANGED <<orgs, role, invite, evicted>>
       /\ Ends(s)
       /\ UNCHANGED <<accounts, home>>

\* The request dies before its commit.
CallDies(s) ==
    /\ call[s].op # "none"
    /\ halved' = IF call[s].op = "drop" THEN halved \cup {call[s].org} ELSE halved
    /\ call' = [call EXCEPT ![s] = NoCall]
    /\ UNCHANGED <<accounts, orgs, role, home, invite, calls, staleCommits, evicted>>

AccountNext ==
    \/ \E u \in Users : Signup(u)
    \/ \E s \in Slots :
         \/ BeginCall(s)
         \/ CreateOrg(s) \/ CreateWorkspace(s) \/ DeleteWorkspace(s)
         \/ Invite(s) \/ Accept(s) \/ Revoke(s) \/ RemoveMember(s)
         \/ ListWorkspaces(s) \/ DropWorkspace(s) \/ DeleteOrg(s)
         \/ CallDies(s)

AccountSpec == AccountInit /\ [][AccountNext]_accountVars

-----------------------------------------------------------------------------
\* A company's members and pending invitations stay within its seats, but for
\* one seat per request that committed on a check that did not hold any more.
SeatsWithinCap == \A o \in Companies : SeatsUsed(o) <= SeatLimit + staleCommits

\* Whatever overlaps (two acceptances, a revocation, a removal), one joins an
\* organization that exists only by an invitation of one's own that is pending
\* and is used up by it.
JoinsByPendingInvite ==
    [][\A o \in orgs, u \in Users : role[o][u] = "none" /\ role'[o][u] # "none" =>
         \E i \in Pending(o) : invite[i].email = u /\ invite'[i].status = "ACCEPTED"]_accountVars

\* An organization has one owner; and a workspace, unless it is being deleted,
\* its deletion stopped half way, or a request committed on a stale check (two
\* deletions of its last two workspaces do).
OrgKeepsOwnerAndWorkspace ==
    \A o \in orgs :
        /\ Cardinality({u \in Users : role[o][u] = "OWNER"}) = 1
        /\ \/ WorkspacesOf(o) # {}
           \/ staleCommits > 0 \/ o \in halved
           \/ \E s \in Slots : call[s].op = "drop" /\ call[s].org = o

\* Nobody who has an account is left without a workspace to sign in to, but by
\* others' doing or a stale check: not even by a deletion that stops half way.
NobodyStranded ==
    \A u \in accounts : Reach(u) # {} \/ u \in evicted \/ staleCommits > 0
=============================================================================
