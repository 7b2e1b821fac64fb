---------------------------- MODULE Accounts_proof ----------------------------
(***************************************************************************)
(* Theorems about Accounts, for every set of people, of organizations, of  *)
(* invitations and of requests, and every cap.                             *)
(***************************************************************************)
EXTENDS Accounts, FiniteSetTheorems, TLAPS

CallRecords ==
    [op : Ops \cup {"none"}, by : Users \cup {Nobody}, org : Orgs \cup {Nothing},
     user : Users \cup {Nobody}, of : WorkspaceIds \cup InviteIds \cup {Nothing},
     left : SUBSET WorkspaceIds]

InviteRecords ==
    [org : Orgs \cup {Nothing}, email : Users \cup {Nobody},
     status : {"none", "PENDING", "ACCEPTED", "REVOKED"}]

\* A request is somebody's, and speaks of what its operation needs.
MakesSense(c) ==
    /\ c.op # "none" => c.by \in Users
    /\ c.op \in {"deleteOrg", "drop"} => c.org \in Orgs
    /\ c.op = "invite" => c.user \in Users
    /\ c.op = "accept" => c.of \in InviteIds

CallsMakeSense == \A s \in Slots : MakesSense(call[s])

\* An invitation that was made is an organization's, for somebody.
InvitesAreSomeones ==
    \A i \in InviteIds : invite[i].status # "none" =>
        invite[i].email \in Users /\ invite[i].org \in Orgs

\* An invitation that is pending is to the organization, and of the person, of
\* every request to accept it.
AcceptsOnesOwn ==
    \A s \in Slots, i \in InviteIds :
        call[s].op = "accept" /\ call[s].of = i /\ invite[i].status = "PENDING" =>
            invite[i].org = call[s].org /\ invite[i].email = call[s].by

\* A personal organization comes with the account.
PersonalOrgsHaveAccounts == \A u \in Users : u \in orgs => u \in accounts

AccountInv ==
    /\ AccountTypeOK
    /\ CallsMakeSense /\ InvitesAreSomeones /\ AcceptsOnesOwn
    /\ PersonalOrgsHaveAccounts

-----------------------------------------------------------------------------
\* What the state is made of.
LEMMA AccountTypes0 ==
    AccountTypeOK <=>
        /\ accounts \subseteq Users
        /\ orgs \subseteq Orgs
        /\ role \in [Orgs -> [Users -> {"none", "OWNER", "MEMBER"}]]
        /\ home \in [WorkspaceIds -> Orgs \cup {Nothing}]
        /\ invite \in [InviteIds -> InviteRecords]
        /\ call \in [Slots -> CallRecords]
        /\ calls \in 0..MaxCalls
        /\ staleCommits \in Nat
        /\ evicted \subseteq Users /\ halved \subseteq Orgs
  BY DEF AccountTypeOK, InviteRecords, CallRecords

\* No request, and the request to begin with, are requests.
LEMMA NoCallType ==
    /\ NoCall \in CallRecords /\ MakesSense(NoCall)
    /\ NoCall.op = "none"
    /\ Unused \in InviteRecords /\ Unused.status = "none"
  BY DEF NoCall, CallRecords, Ops, MakesSense, Unused, InviteRecords

\* The requests that BeginCall names.
LEMMA RequestType ==
    ASSUME NEW op \in Ops, NEW u \in Users, NEW o \in Orgs \cup {Nothing}
    PROVE  /\ Request(op, u, o) \in CallRecords
           /\ Request(op, u, o).op = op /\ Request(op, u, o).by = u
           /\ Request(op, u, o).org = o
  BY NoCallType DEF Request, CallRecords

\* One that names a workspace or an invitation as well.
LEMMA RequestOfType ==
    ASSUME NEW c \in CallRecords, NEW x \in WorkspaceIds \cup InviteIds
    PROVE  /\ [c EXCEPT !.of = x] \in CallRecords
           /\ [c EXCEPT !.of = x].op = c.op /\ [c EXCEPT !.of = x].by = c.by
           /\ [c EXCEPT !.of = x].org = c.org /\ [c EXCEPT !.of = x].of = x
  BY DEF CallRecords

\* One that names a person as well.
LEMMA RequestUserType ==
    ASSUME NEW c \in CallRecords, NEW v \in Users
    PROVE  /\ [c EXCEPT !.user = v] \in CallRecords
           /\ [c EXCEPT !.user = v].op = c.op /\ [c EXCEPT !.user = v].by = c.by
           /\ [c EXCEPT !.user = v].org = c.org /\ [c EXCEPT !.user = v].user = v
  BY DEF CallRecords

\* A request whose place is another, or whose workspaces are fewer.
LEMMA CallEditType ==
    ASSUME NEW c \in CallRecords, NEW left \in SUBSET WorkspaceIds
    PROVE  /\ [c EXCEPT !.op = "drop", !.left = left] \in CallRecords
           /\ [c EXCEPT !.left = left] \in CallRecords
           /\ [c EXCEPT !.op = "drop", !.left = left].op = "drop"
           /\ [c EXCEPT !.op = "drop", !.left = left].by = c.by
           /\ [c EXCEPT !.op = "drop", !.left = left].org = c.org
           /\ [c EXCEPT !.left = left].op = c.op
           /\ [c EXCEPT !.left = left].by = c.by
           /\ [c EXCEPT !.left = left].org = c.org
           /\ [c EXCEPT !.left = left].user = c.user
           /\ [c EXCEPT !.left = left].of = c.of
  BY DEF CallRecords, Ops

\* A request that begins makes sense, has dropped nothing yet, and accepts an
\* invitation of its own.
Sensible(c) ==
    /\ c \in CallRecords /\ MakesSense(c) /\ c.op # "drop"
    /\ c.op = "accept" => \A i \in InviteIds :
         c.of = i => invite[i].org = c.org /\ invite[i].email = c.by

\* Every request that begins is one.
LEMMA BeginFacts ==
    ASSUME AccountInv, NEW s \in Slots, BeginCall(s)
    PROVE  \E c : Sensible(c) /\ Begins(s, c)
  <1>1. /\ orgs \subseteq Orgs /\ invite \in [InviteIds -> InviteRecords]
        /\ \A o : WorkspacesOf(o) \subseteq WorkspaceIds /\ Pending(o) \subseteq InviteIds
    BY AccountTypes0 DEF AccountInv, WorkspacesOf, Pending
  <1>2. ASSUME NEW u \in Users, Begins(s, Request("createOrg", u, Nothing))
        PROVE  \E c : Sensible(c) /\ Begins(s, c)
    <2>1. "createOrg" \in Ops
      BY DEF Ops
    <2>2. Sensible(Request("createOrg", u, Nothing))
      BY <2>1, RequestType DEF Sensible, MakesSense
    <2> QED
      BY <1>2, <2>2
  <1>3. ASSUME NEW u \in Users, NEW o \in orgs, NEW op \in {"createWorkspace", "deleteOrg"},
               Begins(s, Request(op, u, o))
        PROVE  \E c : Sensible(c) /\ Begins(s, c)
    <2>1. op \in Ops /\ o \in Orgs
      BY <1>1 DEF Ops
    <2>2. Sensible(Request(op, u, o))
      BY <2>1, RequestType DEF Sensible, MakesSense
    <2> QED
      BY <1>3, <2>2
  <1>4. ASSUME NEW u \in Users, NEW o \in orgs, NEW w \in WorkspacesOf(o),
               Begins(s, [Request("deleteWorkspace", u, o) EXCEPT !.of = w])
        PROVE  \E c : Sensible(c) /\ Begins(s, c)
    <2> DEFINE c == Request("deleteWorkspace", u, o)
    <2>1. "deleteWorkspace" \in Ops /\ o \in Orgs /\ w \in WorkspaceIds
      BY <1>1 DEF Ops
    <2>2. c \in CallRecords /\ c.op = "deleteWorkspace" /\ c.by = u
      BY <2>1, RequestType
    <2> HIDE DEF c
    <2>3. Sensible([c EXCEPT !.of = w])
      BY <2>1, <2>2, RequestOfType DEF Sensible, MakesSense
    <2> QED
      BY <1>4, <2>3 DEF c
  <1>5. ASSUME NEW u \in Users, NEW v \in Users, NEW o \in orgs, NEW op \in {"invite", "remove"},
               Begins(s, [Request(op, u, o) EXCEPT !.user = v])
        PROVE  \E c : Sensible(c) /\ Begins(s, c)
    <2> DEFINE c == Request(op, u, o)
    <2>1. op \in Ops /\ o \in Orgs
      BY <1>1 DEF Ops
    <2>2. c \in CallRecords /\ c.op = op /\ c.by = u
      BY <2>1, RequestType
    <2> HIDE DEF c
    <2> DEFINE d == [c EXCEPT !.user = v]
    <2>3. d \in CallRecords /\ d.op = op /\ d.by = u /\ d.user = v
      BY <2>2, RequestUserType
    <2> HIDE DEF d
    <2>4. op # "accept" /\ op # "deleteOrg" /\ op # "drop"
      OBVIOUS
    <2>5. Sensible(d)
      BY <2>3, <2>4 DEF Sensible, MakesSense
    <2> QED
      BY <1>5, <2>5 DEF c, d
  <1>6. ASSUME NEW u \in Users, NEW o \in orgs, NEW i \in Pending(o),
               Begins(s, [Request("revoke", u, o) EXCEPT !.of = i])
        PROVE  \E c : Sensible(c) /\ Begins(s, c)
    <2> DEFINE c == Request("revoke", u, o)
    <2>1. "revoke" \in Ops /\ o \in Orgs /\ i \in InviteIds
      BY <1>1 DEF Ops
    <2>2. c \in CallRecords /\ c.op = "revoke" /\ c.by = u
      BY <2>1, RequestType
    <2> HIDE DEF c
    <2>3. Sensible([c EXCEPT !.of = i])
      BY <2>1, <2>2, RequestOfType DEF Sensible, MakesSense
    <2> QED
      BY <1>6, <2>3 DEF c
  <1>7. ASSUME NEW o \in orgs, NEW i \in Pending(o),
               Begins(s, [Request("accept", invite[i].email, o) EXCEPT !.of = i])
        PROVE  \E c : Sensible(c) /\ Begins(s, c)
    <2> DEFINE c == Request("accept", invite[i].email, o)
    <2>1. /\ "accept" \in Ops /\ o \in Orgs /\ i \in InviteIds
          /\ invite[i].org = o /\ invite[i].status = "PENDING"
      BY <1>1 DEF Ops, Pending
    <2>2. invite[i].email \in Users
      BY <2>1 DEF AccountInv, InvitesAreSomeones
    <2>3. c \in CallRecords /\ c.op = "accept" /\ c.by = invite[i].email /\ c.org = o
      BY <2>1, <2>2, RequestType
    <2> HIDE DEF c
    <2> DEFINE d == [c EXCEPT !.of = i]
    <2>4. /\ d \in CallRecords /\ d.op = "accept" /\ d.of = i
          /\ d.by = invite[i].email /\ d.org = o
      BY <2>1, <2>3, RequestOfType
    <2> HIDE DEF d
    <2>5. Sensible(d)
      BY <2>1, <2>2, <2>4 DEF Sensible, MakesSense
    <2> QED
      BY <1>7, <2>5 DEF c, d
  <1> QED
    BY <1>2, <1>3, <1>4, <1>5, <1>6, <1>7 DEF BeginCall

-----------------------------------------------------------------------------
\* An invitation becomes pending only where no request speaks of it.
PendingIsNew ==
    \A i \in InviteIds : invite'[i].status = "PENDING" =>
        invite'[i] = invite[i] \/ \A q \in Slots : call[q].of # i

\* One request changes, into one that accepts nothing, or what is its own.
LEMMA CallChange ==
    ASSUME AccountInv, NEW s \in Slots, NEW new \in CallRecords, MakesSense(new),
           call' = [call EXCEPT ![s] = new], PendingIsNew,
           new.op = "accept" => UNCHANGED invite /\ Sensible(new)
    PROVE  call' \in [Slots -> CallRecords] /\ CallsMakeSense' /\ AcceptsOnesOwn'
  <1>1. call \in [Slots -> CallRecords] /\ CallsMakeSense /\ AcceptsOnesOwn
    BY AccountTypes0 DEF AccountInv
  <1>2. call' \in [Slots -> CallRecords] /\ CallsMakeSense'
    BY <1>1 DEF CallsMakeSense
  <1>3. ASSUME NEW q \in Slots, NEW i \in InviteIds, call'[q].op = "accept",
               call'[q].of = i, invite'[i].status = "PENDING"
        PROVE  invite'[i].org = call'[q].org /\ invite'[i].email = call'[q].by
    <2>1. CASE q = s
      BY <1>1, <1>3, <2>1 DEF Sensible
    <2>2. CASE q # s
      <3>1. call'[q] = call[q]
        BY <1>1, <2>2
      <3>2. invite'[i] = invite[i]
        BY <1>3, <3>1 DEF PendingIsNew
      <3> QED
        BY <1>1, <1>3, <3>1, <3>2 DEF AcceptsOnesOwn
    <2> QED
      BY <2>1, <2>2
  <1> QED
    BY <1>2, <1>3 DEF AcceptsOnesOwn

\* The rest of the state, when it stays in shape.
RestInShape ==
    /\ accounts' \subseteq Users
    /\ orgs' \subseteq Orgs
    /\ role' \in [Orgs -> [Users -> {"none", "OWNER", "MEMBER"}]]
    /\ home' \in [WorkspaceIds -> Orgs \cup {Nothing}]
    /\ invite' \in [InviteIds -> InviteRecords]
    /\ evicted' \subseteq Users /\ halved' \subseteq Orgs
    /\ InvitesAreSomeones' /\ PersonalOrgsHaveAccounts'

\* What the state is made of in the next one.
LEMMA TypeNext ==
    ASSUME RestInShape, call' \in [Slots -> CallRecords], calls' \in 0..MaxCalls,
           staleCommits' \in Nat
    PROVE  AccountTypeOK'
  BY DEF AccountTypeOK, RestInShape, CallRecords, InviteRecords

\* A request that ends leaves the invariant, if it leaves the rest in shape.
LEMMA EndsKeeps ==
    ASSUME AccountInv, NEW s \in Slots, Ends(s), RestInShape, PendingIsNew
    PROVE  AccountInv'
  <1>1. /\ call' = [call EXCEPT ![s] = NoCall] /\ calls' = calls
        /\ staleCommits' = staleCommits \/ staleCommits' = staleCommits + 1
    BY DEF Ends
  <1>2. calls' \in 0..MaxCalls /\ staleCommits' \in Nat
    BY <1>1, AccountTypes0 DEF AccountInv
  <1>3. call' \in [Slots -> CallRecords] /\ CallsMakeSense' /\ AcceptsOnesOwn'
    BY <1>1, NoCallType, CallChange
  <1>4. AccountTypeOK'
    BY <1>2, <1>3, TypeNext
  <1> QED
    BY <1>3, <1>4 DEF AccountInv, RestInShape

\* The parts of the state, and what a request that is not "none" has.
LEMMA Shape ==
    ASSUME AccountInv
    PROVE  /\ accounts \subseteq Users
           /\ orgs \subseteq Orgs
           /\ role \in [Orgs -> [Users -> {"none", "OWNER", "MEMBER"}]]
           /\ home \in [WorkspaceIds -> Orgs \cup {Nothing}]
           /\ invite \in [InviteIds -> InviteRecords]
           /\ call \in [Slots -> CallRecords]
           /\ evicted \subseteq Users /\ halved \subseteq Orgs
           /\ InvitesAreSomeones /\ PersonalOrgsHaveAccounts
           /\ \A s \in Slots : MakesSense(call[s])
           /\ calls \in 0..MaxCalls /\ staleCommits \in Nat
  BY AccountTypes0 DEF AccountInv, CallsMakeSense

\* The rest stays in shape when these parts stay as they are.
LEMMA InviteUntouched ==
    ASSUME UNCHANGED invite
    PROVE  PendingIsNew
  BY DEF PendingIsNew

\* An account or an organization more, with its owner and its workspace.
LEMMA NewOrgShape ==
    ASSUME AccountInv, NEW o \in Orgs, NEW u \in Users, NewOrg(o, u)
    PROVE  /\ orgs' = orgs \cup {o} /\ orgs' \subseteq Orgs
           /\ role' \in [Orgs -> [Users -> {"none", "OWNER", "MEMBER"}]]
           /\ home' \in [WorkspaceIds -> Orgs \cup {Nothing}]
           /\ evicted' \subseteq Users
  BY Shape DEF NewOrg, JoinsAs

\* register
LEMMA SignupKeeps ==
    ASSUME AccountInv, NEW u \in Users, Signup(u)
    PROVE  AccountInv'
  <1>1. /\ accounts' = accounts \cup {u} /\ NewOrg(u, u)
        /\ UNCHANGED <<invite, call, calls, staleCommits, halved>>
    BY DEF Signup
  <1>2. u \in Orgs
    BY DEF Orgs
  <1>3. RestInShape
    BY <1>1, <1>2, Shape, NewOrgShape
       DEF RestInShape, InvitesAreSomeones, PersonalOrgsHaveAccounts
  <1>4. AccountTypeOK'
    BY <1>1, <1>3, Shape, TypeNext
  <1> QED
    BY <1>1, <1>3, <1>4 DEF AccountInv, RestInShape, CallsMakeSense, AcceptsOnesOwn

\* The requests that touch neither accounts nor invitations.
LEMMA PlainKeeps ==
    ASSUME AccountInv, NEW s \in Slots,
           CreateOrg(s) \/ CreateWorkspace(s) \/ DeleteWorkspace(s) \/ RemoveMember(s)
    PROVE  AccountInv'
  <1>1. Ends(s) /\ UNCHANGED <<accounts, invite, halved>>
    BY DEF CreateOrg, CreateWorkspace, DeleteWorkspace, RemoveMember
  <1>2. PendingIsNew /\ InvitesAreSomeones'
    BY <1>1, InviteUntouched, Shape DEF InvitesAreSomeones
  <1>3. CASE CreateOrg(s)
    <2>1. PICK o \in Companies \ orgs : NewOrg(o, call[s].by)
      BY <1>3 DEF CreateOrg, NewCompanies
    <2>2. call[s].by \in Users /\ o \in Orgs /\ o \notin Users
      BY <1>3, Shape, AccountAssumption DEF CreateOrg, MakesSense, Orgs
    <2>3. RestInShape
      BY <1>1, <1>2, <2>1, <2>2, Shape, NewOrgShape
         DEF RestInShape, PersonalOrgsHaveAccounts
    <2> QED
      BY <1>1, <1>2, <2>3, EndsKeeps
  <1>4. CASE CreateWorkspace(s) \/ DeleteWorkspace(s)
    <2>1. UNCHANGED <<orgs, role, evicted>>
      BY <1>4 DEF CreateWorkspace, DeleteWorkspace
    <2>2. home' \in [WorkspaceIds -> Orgs \cup {Nothing}]
      BY <1>4, Shape DEF CreateWorkspace, DeleteWorkspace
    <2>3. RestInShape
      BY <1>1, <1>2, <2>1, <2>2, Shape DEF RestInShape, PersonalOrgsHaveAccounts
    <2> QED
      BY <1>1, <1>2, <2>3, EndsKeeps
  <1>5. CASE RemoveMember(s)
    <2>1. /\ role' = [role EXCEPT ![call[s].org][call[s].user] = "none"]
          /\ evicted' = evicted \cup {call[s].user} \/ evicted' = evicted
          /\ evicted' # evicted => call[s].user \in Users
          /\ UNCHANGED <<orgs, home>>
      BY <1>5 DEF RemoveMember, MembersOf
    <2>2. role' \in [Orgs -> [Users -> {"none", "OWNER", "MEMBER"}]]
      BY <2>1, Shape
    <2>3. RestInShape
      BY <1>1, <1>2, <2>1, <2>2, Shape DEF RestInShape, PersonalOrgsHaveAccounts
    <2> QED
      BY <1>1, <1>2, <2>3, EndsKeeps
  <1> QED
    BY <1>3, <1>4, <1>5

\* The requests about an invitation.
LEMMA InviteKeeps ==
    ASSUME AccountInv, NEW s \in Slots, Invite(s) \/ Accept(s) \/ Revoke(s)
    PROVE  AccountInv'
  <1>1. Ends(s) /\ UNCHANGED <<orgs, home, halved>>
    BY DEF Invite, Accept, Revoke
  <1>2. CASE Invite(s)
    <2>1. UNCHANGED <<accounts, role, evicted>> /\ call[s].op = "invite"
      BY <1>2 DEF Invite
    <2>2. call[s].user \in Users
      BY <2>1, Shape DEF MakesSense
    <2>3. CASE UNCHANGED invite
      <3>1. RestInShape
        BY <1>1, <2>1, <2>3, Shape
           DEF RestInShape, InvitesAreSomeones, PersonalOrgsHaveAccounts
      <3> QED
        BY <1>1, <2>3, <3>1, InviteUntouched, EndsKeeps
    <2>4. CASE call[s].org \in orgs
      <3> DEFINE new == [org |-> call[s].org, email |-> call[s].user, status |-> "PENDING"]
      <3>1. PICK i \in NewInvites : invite' = [invite EXCEPT ![i] = new]
        BY <1>2, <2>4 DEF Invite
      <3>2. i \in InviteIds /\ \A q \in Slots : call[q].of # i
        BY <3>1 DEF NewInvites
      <3>3. new \in InviteRecords /\ new.email \in Users /\ new.org \in Orgs
        BY <2>2, <2>4, Shape DEF InviteRecords
      <3> HIDE DEF new
      <3>4. /\ invite' \in [InviteIds -> InviteRecords]
            /\ \A j \in InviteIds : invite'[j] = IF j = i THEN new ELSE invite[j]
        BY <3>1, <3>2, <3>3, Shape
      <3>5. PendingIsNew
        BY <3>2, <3>4 DEF PendingIsNew
      <3>6. InvitesAreSomeones'
        BY <3>3, <3>4, Shape DEF InvitesAreSomeones
      <3>7. RestInShape
        BY <1>1, <2>1, <3>4, <3>6, Shape DEF RestInShape, PersonalOrgsHaveAccounts
      <3> QED
        BY <1>1, <3>5, <3>7, EndsKeeps
    <2> QED
      BY <1>2, <2>3, <2>4 DEF Invite
  <1>3. ASSUME NEW new \in {"ACCEPTED", "REVOKED"},
               invite' = invite \/ (/\ invite[call[s].of].status # "none"
                                    /\ invite' = [invite EXCEPT ![call[s].of].status = new])
        PROVE  PendingIsNew /\ InvitesAreSomeones' /\ invite' \in [InviteIds -> InviteRecords]
    <2>1. CASE invite' = invite
      BY <2>1, InviteUntouched, Shape DEF InvitesAreSomeones
    <2>2. CASE /\ invite[call[s].of].status # "none"
               /\ invite' = [invite EXCEPT ![call[s].of].status = new]
      <3> PICK x : x = call[s].of
        OBVIOUS
      <3>1. invite' = [invite EXCEPT ![x] = [invite[x] EXCEPT !.status = new]]
        BY <2>2
      <3>2. \A r \in InviteRecords : /\ [r EXCEPT !.status = new] \in InviteRecords
                                    /\ [r EXCEPT !.status = new].status = new
                                    /\ [r EXCEPT !.status = new].email = r.email
                                    /\ [r EXCEPT !.status = new].org = r.org
        BY DEF InviteRecords
      <3>3. invite' \in [InviteIds -> InviteRecords]
        BY <3>1, <3>2, Shape
      <3>4. \A i \in InviteIds : \/ invite'[i] = invite[i]
                                 \/ /\ i = x /\ invite'[i].status = new
                                    /\ invite'[i].email = invite[i].email
                                    /\ invite'[i].org = invite[i].org
        BY <3>1, <3>2, Shape
      <3>5. PendingIsNew
        BY <3>4 DEF PendingIsNew
      <3>6. InvitesAreSomeones'
        BY <2>2, <3>4, Shape DEF InvitesAreSomeones
      <3> QED
        BY <3>3, <3>5, <3>6
    <2> QED
      BY <1>3, <2>1, <2>2
  <1>4. CASE Revoke(s)
    <2>1. PendingIsNew /\ InvitesAreSomeones' /\ invite' \in [InviteIds -> InviteRecords]
      BY <1>3, <1>4 DEF Revoke
    <2>2. RestInShape
      BY <1>1, <1>4, <2>1, Shape DEF Revoke, RestInShape, PersonalOrgsHaveAccounts
    <2> QED
      BY <1>1, <2>1, <2>2, EndsKeeps
  <1>5. CASE Accept(s)
    <2>1. call[s].by \in Users
      BY <1>5, Shape DEF Accept, MakesSense
    <2>2. PendingIsNew /\ InvitesAreSomeones' /\ invite' \in [InviteIds -> InviteRecords]
      BY <1>3, <1>5 DEF Accept, StillOpen
    <2>3. accounts' \subseteq Users /\ accounts \subseteq accounts'
      BY <1>5, <2>1, Shape DEF Accept
    <2>4. /\ role' \in [Orgs -> [Users -> {"none", "OWNER", "MEMBER"}]]
          /\ evicted' \subseteq Users
      BY <1>5, <2>1, Shape DEF Accept, JoinsAs
    <2>5. RestInShape
      BY <1>1, <2>2, <2>3, <2>4, Shape DEF RestInShape, PersonalOrgsHaveAccounts
    <2> QED
      BY <1>1, <2>2, <2>5, EndsKeeps
  <1> QED
    BY <1>2, <1>4, <1>5

\* A request that goes on as another, when the rest stays in shape.
LEMMA GoesOnKeeps ==
    ASSUME AccountInv, NEW s \in Slots, NEW new \in CallRecords, MakesSense(new),
           new.op # "accept", call' = [call EXCEPT ![s] = new], UNCHANGED invite,
           RestInShape, calls' \in 0..MaxCalls, staleCommits' \in Nat
    PROVE  AccountInv'
  <1>1. call' \in [Slots -> CallRecords] /\ CallsMakeSense' /\ AcceptsOnesOwn'
    BY InviteUntouched, CallChange
  <1>2. AccountTypeOK'
    BY <1>1, TypeNext
  <1> QED
    BY <1>1, <1>2 DEF AccountInv, RestInShape

\* The deletion of an organization, step by step.
LEMMA DeleteOrgKeeps ==
    ASSUME AccountInv, NEW s \in Slots,
           ListWorkspaces(s) \/ DropWorkspace(s) \/ DeleteOrg(s)
    PROVE  AccountInv'
  <1>1. /\ call[s] \in CallRecords /\ MakesSense(call[s])
        /\ call[s].op \in {"deleteOrg", "drop"} /\ call[s].left \subseteq WorkspaceIds
    BY Shape DEF ListWorkspaces, DropWorkspace, DeleteOrg, CallRecords
  <1>2. call[s].by \in Users /\ call[s].org \in Orgs
    BY <1>1 DEF MakesSense
  <1>3. \A o : MembersOf(o) \subseteq Users /\ WorkspacesOf(o) \subseteq WorkspaceIds
    BY DEF MembersOf, WorkspacesOf
  <1>4. CASE ListWorkspaces(s)
    <2> DEFINE left == WorkspacesOf(call[s].org)
               new == [call[s] EXCEPT !.op = "drop", !.left = left]
    <2>1. /\ call' = [call EXCEPT ![s] = new]
          /\ UNCHANGED <<accounts, orgs, role, home, invite, calls, evicted, halved>>
          /\ staleCommits' = staleCommits \/ staleCommits' = staleCommits + 1
      BY <1>4 DEF ListWorkspaces
    <2>2. /\ new \in CallRecords /\ new.op = "drop"
          /\ new.by = call[s].by /\ new.org = call[s].org
      BY <1>1, <1>3, CallEditType
    <2> HIDE DEF new
    <2>3. MakesSense(new)
      BY <1>2, <2>2 DEF MakesSense
    <2>4. RestInShape
      BY <2>1, Shape DEF RestInShape, InvitesAreSomeones, PersonalOrgsHaveAccounts
    <2>5. calls' \in 0..MaxCalls /\ staleCommits' \in Nat
      BY <2>1, Shape
    <2> QED
      BY <2>1, <2>2, <2>3, <2>4, <2>5, GoesOnKeeps
  <1>5. CASE DropWorkspace(s)
    <2>1. PICK w \in call[s].left :
            /\ home' = [home EXCEPT ![w] = Nothing]
            /\ call' = [call EXCEPT ![s].left = @ \ {w}]
      BY <1>5 DEF DropWorkspace
    <2> DEFINE left == call[s].left \ {w}
               new == [call[s] EXCEPT !.left = left]
    <2>2. /\ call[s].op = "drop" /\ UNCHANGED <<accounts, orgs, role, invite, calls, halved>>
          /\ evicted' = evicted \cup (MembersOf(call[s].org) \ {call[s].by})
          /\ staleCommits' = staleCommits \/ staleCommits' = staleCommits + 1
      BY <1>5 DEF DropWorkspace
    <2>3. call' = [call EXCEPT ![s] = new]
      BY <2>1
    <2>4. /\ new \in CallRecords /\ new.op = "drop"
          /\ new.by = call[s].by /\ new.org = call[s].org
      BY <1>1, <2>2, CallEditType
    <2> HIDE DEF new
    <2>5. MakesSense(new)
      BY <1>2, <2>4 DEF MakesSense
    <2>6. home' \in [WorkspaceIds -> Orgs \cup {Nothing}] /\ evicted' \subseteq Users
      BY <1>3, <2>1, <2>2, Shape
    <2>7. RestInShape
      BY <2>2, <2>6, Shape DEF RestInShape, InvitesAreSomeones, PersonalOrgsHaveAccounts
    <2>8. calls' \in 0..MaxCalls /\ staleCommits' \in Nat
      BY <2>2, Shape
    <2> QED
      BY <2>2, <2>3, <2>4, <2>5, <2>7, <2>8, GoesOnKeeps
  <1>6. CASE DeleteOrg(s)
    <2>1. Ends(s) /\ UNCHANGED <<accounts, home>>
      BY <1>6 DEF DeleteOrg
    <2>2. CASE UNCHANGED <<orgs, role, invite, evicted>> /\ halved' = halved \cup {call[s].org}
      <3>1. RestInShape
        BY <1>2, <2>1, <2>2, Shape
           DEF RestInShape, InvitesAreSomeones, PersonalOrgsHaveAccounts
      <3> QED
        BY <2>1, <2>2, <3>1, InviteUntouched, EndsKeeps
    <2>3. CASE /\ orgs' = orgs \ {call[s].org}
               /\ role' = [role EXCEPT ![call[s].org] = [u \in Users |-> "none"]]
               /\ invite' = [i \in InviteIds |-> IF invite[i].org = call[s].org THEN Unused
                                                ELSE invite[i]]
               /\ evicted' = evicted \cup (MembersOf(call[s].org) \ {call[s].by})
               /\ halved' = halved \ {call[s].org}
      <3>1. \A i \in InviteIds : invite'[i] = invite[i] \/ invite'[i] = Unused
        BY <2>3
      <3>2. invite' \in [InviteIds -> InviteRecords]
        BY <2>3, NoCallType, Shape
      <3>3. PendingIsNew /\ InvitesAreSomeones'
        BY <3>1, NoCallType, Shape DEF PendingIsNew, InvitesAreSomeones
      <3>4. role' \in [Orgs -> [Users -> {"none", "OWNER", "MEMBER"}]]
        BY <2>3, Shape
      <3>5. evicted' \subseteq Users /\ orgs' \subseteq Orgs /\ halved' \subseteq Orgs
        BY <1>3, <2>3, Shape
      <3>6. RestInShape
        BY <2>1, <2>3, <3>2, <3>3, <3>4, <3>5, Shape
           DEF RestInShape, PersonalOrgsHaveAccounts
      <3> QED
        BY <2>1, <3>3, <3>6, EndsKeeps
    <2> QED
      BY <1>6, <2>2, <2>3 DEF DeleteOrg
  <1> QED
    BY <1>4, <1>5, <1>6

\* A request dies: it did nothing that was not committed before.
LEMMA DiesKeeps ==
    ASSUME AccountInv, NEW s \in Slots, CallDies(s)
    PROVE  AccountInv'
  <1>1. /\ call' = [call EXCEPT ![s] = NoCall]
        /\ UNCHANGED <<accounts, orgs, role, home, invite, calls, staleCommits, evicted>>
        /\ halved' = halved \/ (call[s].op = "drop" /\ halved' = halved \cup {call[s].org})
    BY DEF CallDies
  <1>2. call[s].op = "drop" => call[s].org \in Orgs
    BY Shape DEF MakesSense
  <1>3. RestInShape
    BY <1>1, <1>2, Shape DEF RestInShape, InvitesAreSomeones, PersonalOrgsHaveAccounts
  <1>4. calls' \in 0..MaxCalls /\ staleCommits' \in Nat
    BY <1>1, Shape
  <1> QED
    BY <1>1, <1>3, <1>4, NoCallType, GoesOnKeeps

\* A request begins.
LEMMA BeginKeeps ==
    ASSUME AccountInv, NEW s \in Slots, BeginCall(s)
    PROVE  AccountInv'
  <1>1. PICK c : Sensible(c) /\ Begins(s, c)
    BY BeginFacts
  <1>2. /\ call' = [call EXCEPT ![s] = c] /\ calls < MaxCalls /\ calls' = calls + 1
        /\ UNCHANGED <<accounts, orgs, role, home, invite, staleCommits, evicted, halved>>
    BY <1>1 DEF Begins
  <1>3. calls' \in 0..MaxCalls /\ staleCommits' \in Nat
    BY <1>2, Shape, AccountAssumption
  <1>4. RestInShape
    BY <1>2, Shape DEF RestInShape, InvitesAreSomeones, PersonalOrgsHaveAccounts
  <1>5. c \in CallRecords /\ MakesSense(c)
    BY <1>1 DEF Sensible
  <1>6. call' \in [Slots -> CallRecords] /\ CallsMakeSense' /\ AcceptsOnesOwn'
    BY <1>1, <1>2, <1>5, InviteUntouched, CallChange
  <1>7. AccountTypeOK'
    BY <1>3, <1>4, <1>6, TypeNext
  <1> QED
    BY <1>4, <1>6, <1>7 DEF AccountInv, RestInShape

\* Every step keeps the invariant.
LEMMA AccountStep ==
    ASSUME AccountInv, [AccountNext]_accountVars
    PROVE  AccountInv'
  <1>1. CASE UNCHANGED accountVars
    BY <1>1 DEF accountVars, AccountInv, AccountTypeOK, CallsMakeSense,
                InvitesAreSomeones, AcceptsOnesOwn, PersonalOrgsHaveAccounts
  <1> QED
    BY <1>1, SignupKeeps, BeginKeeps, PlainKeeps, InviteKeeps, DeleteOrgKeeps, DiesKeeps
       DEF AccountNext

\* Nothing is there at first.
LEMMA AccountInitInv ==
    ASSUME AccountInit
    PROVE  AccountInv
  <1>1. /\ invite \in [InviteIds -> InviteRecords]
        /\ call \in [Slots -> CallRecords]
        /\ calls \in 0..MaxCalls
    BY NoCallType, AccountAssumption DEF AccountInit
  <1>2. AccountTypeOK
    BY <1>1 DEF AccountInit, AccountTypeOK, InviteRecords, CallRecords
  <1>3. \A s \in Slots : MakesSense(call[s]) /\ call[s].op = "none"
    BY NoCallType DEF AccountInit
  <1>4. \A i \in InviteIds : invite[i].status = "none"
    BY NoCallType DEF AccountInit
  <1>5. PersonalOrgsHaveAccounts
    BY DEF AccountInit, PersonalOrgsHaveAccounts
  <1> QED
    BY <1>2, <1>3, <1>4, <1>5
       DEF AccountInv, CallsMakeSense, InvitesAreSomeones, AcceptsOnesOwn

-----------------------------------------------------------------------------
\* Who joins an organization that exists accepts, of those that are pending, an
\* invitation of one's own to it, which is used up.
LEMMA JoinStep ==
    ASSUME AccountInv, [AccountNext]_accountVars, NEW o \in orgs, NEW u \in Users,
           role[o][u] = "none", role'[o][u] # "none"
    PROVE  \E i \in Pending(o) : invite[i].email = u /\ invite'[i].status = "ACCEPTED"
  <1>1. /\ o \in Orgs /\ role \in [Orgs -> [Users -> {"none", "OWNER", "MEMBER"}]]
        /\ role' # role
    BY Shape
  <1>2. ASSUME NEW v \in Users, Signup(v)
        PROVE  FALSE
    <2>1. v \notin accounts /\ role' = [role EXCEPT ![v][v] = "OWNER"]
      BY <1>2 DEF Signup, NewOrg, JoinsAs
    <2>2. v \notin orgs
      BY <2>1, Shape DEF PersonalOrgsHaveAccounts
    <2> QED
      BY <1>1, <2>1, <2>2
  <1>3. ASSUME NEW s \in Slots, CreateOrg(s)
        PROVE  FALSE
    <2>1. PICK p \in Companies \ orgs : role' = [role EXCEPT ![p][call[s].by] = "OWNER"]
      BY <1>3 DEF CreateOrg, NewCompanies, NewOrg, JoinsAs
    <2> QED
      BY <1>1, <2>1
  <1>4. ASSUME NEW s \in Slots, RemoveMember(s) \/ DeleteOrg(s)
        PROVE  FALSE
    BY <1>1, <1>4 DEF RemoveMember, DeleteOrg
  <1>5. ASSUME NEW s \in Slots, Accept(s)
        PROVE  \E i \in Pending(o) : invite[i].email = u /\ invite'[i].status = "ACCEPTED"
    <2>1. PICK i : i = call[s].of
      OBVIOUS
    <2>2. PICK p, v : p = call[s].org /\ v = call[s].by
      OBVIOUS
    <2>3. /\ call[s].op = "accept" /\ invite[i].status = "PENDING"
          /\ invite' = [invite EXCEPT ![i].status = "ACCEPTED"]
          /\ role' = [role EXCEPT ![p][v] = "MEMBER"]
      BY <1>1, <1>5, <2>1, <2>2 DEF Accept, StillOpen, JoinsAs
    <2>4. p = o /\ v = u
      BY <1>1, <2>3
    <2>5. i \in InviteIds
      BY <2>1, <2>3, Shape DEF MakesSense
    <2>6. invite[i].org = o /\ invite[i].email = u
      BY <2>1, <2>2, <2>3, <2>4, <2>5 DEF AccountInv, AcceptsOnesOwn
    <2>7. invite'[i].status = "ACCEPTED"
      <3>1. invite[i] \in InviteRecords /\ invite' = [invite EXCEPT ![i] =
                                                      [invite[i] EXCEPT !.status = "ACCEPTED"]]
        BY <2>3, <2>5, Shape
      <3>2. [invite[i] EXCEPT !.status = "ACCEPTED"].status = "ACCEPTED"
        BY <3>1 DEF InviteRecords
      <3> QED
        BY <2>5, <3>1, <3>2, Shape
    <2> QED
      BY <2>3, <2>5, <2>6, <2>7 DEF Pending
  <1>6. ASSUME NEW s \in Slots,
               \/ BeginCall(s) \/ CreateWorkspace(s) \/ DeleteWorkspace(s) \/ Invite(s)
               \/ Revoke(s) \/ ListWorkspaces(s) \/ DropWorkspace(s) \/ CallDies(s)
        PROVE  FALSE
    <2>1. CASE BeginCall(s)
      <3>1. PICK c : Begins(s, c)
        BY <2>1, BeginFacts
      <3> QED
        BY <1>1, <3>1 DEF Begins
    <2> QED
      BY <1>1, <1>6, <2>1 DEF CreateWorkspace, DeleteWorkspace, Invite, Revoke,
                              ListWorkspaces, DropWorkspace, CallDies
  <1>7. CASE UNCHANGED accountVars
    BY <1>1, <1>7 DEF accountVars
  <1> QED
    BY <1>2, <1>3, <1>4, <1>5, <1>6, <1>7 DEF AccountNext

-----------------------------------------------------------------------------
\* Accounts, organizations, memberships, workspaces, invitations and the requests
\* between their check and their commit stay well typed, through every overlap and
\* death of a request (auth/provisioning.py and its routers).
THEOREM AccountTypes == AccountSpec => []AccountTypeOK
  <1>1. AccountInit => AccountInv
    BY AccountInitInv
  <1>2. AccountInv /\ [AccountNext]_accountVars => AccountInv'
    BY AccountStep
  <1>3. AccountInv => AccountTypeOK
    BY DEF AccountInv
  <1> QED
    BY <1>1, <1>2, <1>3, PTL DEF AccountSpec

\* Whatever overlaps, accept_invitation is the only way into an organization that
\* exists, and each pending invitation lets in, once, the person it was sent to.
THEOREM OnlyTheInvitedJoin == AccountSpec => JoinsByPendingInvite
  <1>1. AccountInit => AccountInv
    BY AccountInitInv
  <1>2. AccountInv /\ [AccountNext]_accountVars => AccountInv'
    BY AccountStep
  <1>3. AccountInv /\ [AccountNext]_accountVars =>
          [\A o \in orgs, u \in Users : role[o][u] = "none" /\ role'[o][u] # "none" =>
             \E i \in Pending(o) : invite[i].email = u
                                   /\ invite'[i].status = "ACCEPTED"]_accountVars
    BY JoinStep
  <1> QED
    BY <1>1, <1>2, <1>3, PTL DEF AccountSpec, JoinsByPendingInvite

-----------------------------------------------------------------------------
(* What the steps do to members, pending invitations and workspaces.       *)

OwnersOf(o) == {u \in Users : role[o][u] = "OWNER"}

\* One person's role in one organization changes.
LEMMA RoleEffect ==
    ASSUME AccountInv, NEW o \in Orgs, NEW u \in Users, NEW r \in {"none", "OWNER", "MEMBER"},
           role' = [role EXCEPT ![o][u] = r]
    PROVE  /\ \A p \in Orgs : p # o => MembersOf(p)' = MembersOf(p) /\ OwnersOf(p)' = OwnersOf(p)
           /\ r # "none" => MembersOf(o)' = MembersOf(o) \cup {u}
           /\ r = "none" => MembersOf(o)' = MembersOf(o) \ {u}
           /\ r = "OWNER" => OwnersOf(o)' = OwnersOf(o) \cup {u}
           /\ r # "OWNER" => OwnersOf(o)' = OwnersOf(o) \ {u}
  <1>1. \A p \in Orgs, v \in Users : role'[p][v] = IF p = o /\ v = u THEN r ELSE role[p][v]
    BY Shape
  <1> QED
    BY <1>1 DEF MembersOf, OwnersOf

\* An organization more: its owner, and a workspace nobody speaks of.
LEMMA NewOrgEffect ==
    ASSUME AccountInv, NEW o \in Orgs, NEW u \in Users, NewOrg(o, u)
    PROVE  /\ orgs' = orgs \cup {o} /\ evicted' = evicted \ {u}
           /\ role' = [role EXCEPT ![o][u] = "OWNER"]
           /\ \E w \in NewWorkspaces : home' = [home EXCEPT ![w] = o]
  BY DEF NewOrg, JoinsAs

\* A workspace more.
LEMMA WorkspaceAdded ==
    ASSUME AccountInv, NEW o \in Orgs, NEW w \in NewWorkspaces,
           home' = [home EXCEPT ![w] = o]
    PROVE  /\ w \in WorkspaceIds /\ w \in WorkspacesOf(o)'
           /\ \A p \in Orgs : WorkspacesOf(p) \subseteq WorkspacesOf(p)'
           /\ \A x \in WorkspaceIds : home'[x] = home[x] \/ x = w
           /\ \A s \in Slots : w \notin call[s].left
  <1>1. w \in WorkspaceIds /\ home[w] = Nothing /\ \A s \in Slots : w \notin call[s].left
    BY DEF NewWorkspaces
  <1>2. Nothing \notin Orgs
    BY AccountAssumption
  <1> QED
    BY <1>1, <1>2, Shape DEF WorkspacesOf

\* A workspace less.
LEMMA WorkspaceGone ==
    ASSUME AccountInv, NEW w, home' = [home EXCEPT ![w] = Nothing]
    PROVE  /\ \A p \in Orgs : WorkspacesOf(p)' = WorkspacesOf(p) \ {w}
           /\ \A x \in WorkspaceIds : home'[x] = home[x] \/ home'[x] = Nothing
  <1>1. Nothing \notin Orgs
    BY AccountAssumption
  <1> QED
    BY <1>1, Shape DEF WorkspacesOf

\* An invitation more, or none because the organization is gone.
LEMMA InviteEffect ==
    ASSUME AccountInv, NEW s \in Slots, Invite(s)
    PROVE  \/ UNCHANGED invite
           \/ \E i \in InviteIds, o \in orgs :
                /\ o = call[s].org
                /\ Pending(o)' = Pending(o) \cup {i}
                /\ \A p \in Orgs : p # o => Pending(p)' = Pending(p)
  <1> PICK o : o = call[s].org
    OBVIOUS
  <1>1. CASE o \in orgs
    <2>1. PICK i \in NewInvites : invite' = [invite EXCEPT ![i] =
                 [org |-> o, email |-> call[s].user, status |-> "PENDING"]]
      BY <1>1 DEF Invite
    <2>2. i \in InviteIds /\ invite[i].status = "none"
      BY <2>1 DEF NewInvites
    <2>3. \A j \in InviteIds : IF j = i THEN invite'[j].org = o /\ invite'[j].status = "PENDING"
                               ELSE invite'[j] = invite[j]
      BY <2>1, <2>2, Shape
    <2>4. Pending(o)' = Pending(o) \cup {i}
      BY <2>2, <2>3 DEF Pending
    <2>5. \A p \in Orgs : p # o => Pending(p)' = Pending(p)
      BY <2>2, <2>3 DEF Pending
    <2> QED
      BY <1>1, <2>2, <2>4, <2>5
  <1>2. CASE o \notin orgs
    BY <1>2 DEF Invite
  <1> QED
    BY <1>1, <1>2

\* The status of one invitation becomes another than PENDING.
LEMMA NoLongerPending ==
    ASSUME AccountInv, NEW i \in InviteIds, NEW new \in {"ACCEPTED", "REVOKED"},
           invite' = [invite EXCEPT ![i].status = new]
    PROVE  \A p \in Orgs : Pending(p)' = Pending(p) \ {i}
  <1>1. invite[i] \in InviteRecords /\ invite' = [invite EXCEPT ![i] =
                                                  [invite[i] EXCEPT !.status = new]]
    BY Shape
  <1>2. [invite[i] EXCEPT !.status = new].status = new
    BY <1>1 DEF InviteRecords
  <1>3. \A j \in InviteIds : IF j = i THEN invite'[j].status = new ELSE invite'[j] = invite[j]
    BY <1>1, <1>2, Shape
  <1> QED
    BY <1>3 DEF Pending

\* Nobody joins, and one invitation at most is withdrawn.
LEMMA RevokeEffect ==
    ASSUME AccountInv, NEW s \in Slots, Revoke(s)
    PROVE  \A p \in Orgs : MembersOf(p)' = MembersOf(p) /\ Pending(p)' \subseteq Pending(p)
  <1>1. \A p \in Orgs : MembersOf(p)' = MembersOf(p)
    BY DEF Revoke, MembersOf
  <1>2. CASE UNCHANGED invite
    BY <1>1, <1>2 DEF Pending
  <1>3. CASE invite' = [invite EXCEPT ![call[s].of].status = "REVOKED"]
    <2> PICK i : i = call[s].of
      OBVIOUS
    <2>1. CASE i \in InviteIds
      BY <1>1, <1>3, <2>1, NoLongerPending
    <2>2. CASE i \notin InviteIds
      BY <1>1, <1>3, <2>2, Shape DEF Pending
    <2> QED
      BY <2>1, <2>2
  <1> QED
    BY <1>2, <1>3 DEF Revoke

\* Nothing, or a membership for a pending invitation to an organization that has
\* a workspace; who is a member already uses it up as well.
LEMMA AcceptEffect ==
    ASSUME AccountInv, NEW s \in Slots, Accept(s)
    PROVE  \/ UNCHANGED <<accounts, role, invite, evicted>>
           \/ \E o \in Orgs, u \in Users, i \in InviteIds :
                /\ i \in Pending(o) /\ WorkspacesOf(o) # {}
                /\ \A p \in Orgs : Pending(p)' = Pending(p) \ {i}
                /\ accounts' = accounts \cup {u}
                /\ \/ u \in MembersOf(o) /\ UNCHANGED <<role, evicted>>
                   \/ /\ u \notin MembersOf(o) /\ evicted' = evicted \ {u}
                      /\ role' = [role EXCEPT ![o][u] = "MEMBER"]
  <1> PICK c : c = call[s]
    OBVIOUS
  <1>1. c.op = "accept" /\ c.by \in Users /\ c.of \in InviteIds
    BY Shape DEF Accept, MakesSense
  <1>2. CASE StillOpen(c) /\ WorkspacesOf(c.org) # {}
    <2>1. /\ invite' = [invite EXCEPT ![c.of].status = "ACCEPTED"]
          /\ accounts' = accounts \cup {c.by}
          /\ IF c.by \in MembersOf(c.org) THEN UNCHANGED <<role, evicted>>
             ELSE JoinsAs(c.org, c.by, "MEMBER")
      BY <1>2 DEF Accept
    <2>2. invite[c.of].status = "PENDING" /\ invite[c.of].org = c.org
      BY <1>1, <1>2 DEF StillOpen, AccountInv, AcceptsOnesOwn
    <2>3. c.of \in Pending(c.org)
      BY <1>1, <2>2 DEF Pending
    <2>4. c.org \in Orgs
      BY <1>1, <2>2, Shape DEF InvitesAreSomeones
    <2>5. \A p \in Orgs : Pending(p)' = Pending(p) \ {c.of}
      BY <1>1, <2>1, NoLongerPending
    <2> QED
      BY <1>1, <1>2, <2>1, <2>3, <2>4, <2>5 DEF JoinsAs
  <1>3. CASE ~(StillOpen(c) /\ WorkspacesOf(c.org) # {})
    BY <1>3 DEF Accept
  <1> QED
    BY <1>2, <1>3

\* A request begins: it was allowed, and nothing but the request is new.
LEMMA BeginEffect ==
    ASSUME AccountInv, NEW s \in Slots, BeginCall(s)
    PROVE  \E c \in CallRecords :
             /\ c.op # "drop" /\ Allowed(c)
             /\ call' = [call EXCEPT ![s] = c]
             /\ UNCHANGED <<accounts, orgs, role, home, invite, staleCommits, evicted, halved>>
  BY BeginFacts DEF Sensible, Begins

\* Commits on a stale check only add up.
LEMMA StaleGrows ==
    ASSUME AccountInv, [AccountNext]_accountVars
    PROVE  staleCommits' \in Nat /\ staleCommits <= staleCommits'
  <1>1. staleCommits \in Nat
    BY Shape
  <1>2. staleCommits' = staleCommits \/ staleCommits' = staleCommits + 1
    <2>1. ASSUME NEW s \in Slots, BeginCall(s)
          PROVE  staleCommits' = staleCommits
      BY <2>1, BeginEffect
    <2> QED
      BY <2>1 DEF AccountNext, accountVars, Signup, CreateOrg, CreateWorkspace,
         DeleteWorkspace, Invite, Accept, Revoke, RemoveMember, ListWorkspaces,
         DropWorkspace, DeleteOrg, CallDies, Ends
  <1> QED
    BY <1>1, <1>2

\* The steps that change neither organizations, nor roles, nor invitations.
LEMMA PeopleUntouched ==
    ASSUME AccountInv, NEW s \in Slots,
           \/ BeginCall(s) \/ CreateWorkspace(s) \/ DeleteWorkspace(s)
           \/ ListWorkspaces(s) \/ DropWorkspace(s) \/ CallDies(s)
    PROVE  UNCHANGED <<orgs, role, invite>>
  <1>1. CASE BeginCall(s)
    BY <1>1, BeginEffect
  <1> QED
    BY <1>1 DEF CreateWorkspace, DeleteWorkspace, ListWorkspaces, DropWorkspace, CallDies

\* Somebody loses a role.
LEMMA RemoveEffect ==
    ASSUME AccountInv, NEW s \in Slots, RemoveMember(s)
    PROVE  \E o, u :
             /\ o = call[s].org /\ u = call[s].user
             /\ \A p \in Orgs : p # o => MembersOf(p)' = MembersOf(p) /\ OwnersOf(p)' = OwnersOf(p)
             /\ o \in Orgs => /\ MembersOf(o)' = MembersOf(o) \ {u}
                             /\ OwnersOf(o)' = OwnersOf(o) \ {u}
  <1> PICK o, u : o = call[s].org /\ u = call[s].user
    OBVIOUS
  <1>1. role' = [role EXCEPT ![o][u] = "none"]
    BY DEF RemoveMember
  <1>2. \A p \in Orgs, v \in Users :
          role'[p][v] = IF p = o /\ v = u THEN "none" ELSE role[p][v]
    BY <1>1, Shape
  <1>3. /\ \A p \in Orgs : p # o => MembersOf(p)' = MembersOf(p) /\ OwnersOf(p)' = OwnersOf(p)
        /\ o \in Orgs => /\ MembersOf(o)' = MembersOf(o) \ {u}
                        /\ OwnersOf(o)' = OwnersOf(o) \ {u}
    BY <1>2 DEF MembersOf, OwnersOf
  <1> QED
    BY <1>3

\* An organization goes with its members and invitations, or nothing goes.
LEMMA DeleteEffect ==
    ASSUME AccountInv, NEW s \in Slots, DeleteOrg(s)
    PROVE  \/ UNCHANGED <<orgs, role, invite, evicted>> /\ halved' = halved \cup {call[s].org}
           \/ \E o \in Orgs :
                /\ o = call[s].org /\ WorkspacesOf(o) = {}
                /\ orgs' = orgs \ {o} /\ halved' = halved \ {o}
                /\ MembersOf(o)' = {} /\ Pending(o)' = {}
                /\ \A p \in Orgs : p # o => /\ MembersOf(p)' = MembersOf(p)
                                             /\ OwnersOf(p)' = OwnersOf(p)
                                             /\ Pending(p)' = Pending(p)
                /\ evicted \subseteq evicted'
  <1> PICK o : o = call[s].org
    OBVIOUS
  <1>1. o \in Orgs
    BY Shape DEF DeleteOrg, MakesSense
  <1>2. CASE WorkspacesOf(o) = {}
    <2>1. /\ orgs' = orgs \ {o} /\ halved' = halved \ {o}
          /\ role' = [role EXCEPT ![o] = [u \in Users |-> "none"]]
          /\ invite' = [i \in InviteIds |-> IF invite[i].org = o THEN Unused ELSE invite[i]]
          /\ evicted \subseteq evicted'
      BY <1>2 DEF DeleteOrg
    <2>2. \A p \in Orgs, v \in Users : role'[p][v] = IF p = o THEN "none" ELSE role[p][v]
      BY <2>1, Shape
    <2>3. /\ MembersOf(o)' = {}
          /\ \A p \in Orgs : p # o => /\ MembersOf(p)' = MembersOf(p)
                                       /\ OwnersOf(p)' = OwnersOf(p)
      BY <1>1, <2>2 DEF MembersOf, OwnersOf
    <2>4. Unused.status # "PENDING"
      BY NoCallType
    <2>5. \A i \in InviteIds : IF invite[i].org = o THEN invite'[i].status # "PENDING"
                               ELSE invite'[i] = invite[i]
      BY <2>1, <2>4
    <2>6. /\ Pending(o)' = {}
          /\ \A p \in Orgs : p # o => Pending(p)' = Pending(p)
      BY <2>5 DEF Pending
    <2>7. \A p \in Orgs : p # o => /\ MembersOf(p)' = MembersOf(p)
                                    /\ OwnersOf(p)' = OwnersOf(p)
                                    /\ Pending(p)' = Pending(p)
      BY <2>3, <2>6
    <2>8. o = call[s].org
      OBVIOUS
    <2> QED
      BY ONLY <1>1, <1>2, <2>1, <2>3, <2>6, <2>7, <2>8
  <1>3. CASE WorkspacesOf(o) # {}
    BY <1>3 DEF DeleteOrg
  <1> QED
    BY <1>2, <1>3

-----------------------------------------------------------------------------
\* An organization that is gone, or not yet there, has no members and nobody is
\* invited to it: who creates it anew is alone in it.
GoneIsEmpty == \A o \in Orgs \ orgs : MembersOf(o) = {} /\ Pending(o) = {}

LEMMA GoneStep ==
    ASSUME AccountInv, GoneIsEmpty, [AccountNext]_accountVars
    PROVE  GoneIsEmpty'
  <1>0. orgs \subseteq Orgs
    BY Shape
  <1>1. ASSUME NEW o \in Orgs, NEW u \in Users, NewOrg(o, u), UNCHANGED invite
        PROVE  GoneIsEmpty'
    <2>1. \A p \in Orgs : p # o => MembersOf(p)' = MembersOf(p)
      BY <1>1, NewOrgEffect, RoleEffect
    <2>2. orgs' = orgs \cup {o} /\ \A p \in Orgs : Pending(p)' = Pending(p)
      BY <1>1 DEF NewOrg, Pending
    <2> QED
      BY <2>1, <2>2 DEF GoneIsEmpty
  <1>2. ASSUME NEW u \in Users, Signup(u)
        PROVE  GoneIsEmpty'
    BY <1>1, <1>2 DEF Signup, Orgs
  <1>3. ASSUME NEW s \in Slots, CreateOrg(s)
        PROVE  GoneIsEmpty'
    <2>1. call[s].by \in Users
      BY <1>3, Shape DEF CreateOrg, MakesSense
    <2> QED
      BY <1>1, <1>3, <2>1 DEF CreateOrg, NewCompanies, Orgs
  <1>4. ASSUME NEW s \in Slots, Invite(s)
        PROVE  GoneIsEmpty'
    <2>1. UNCHANGED <<orgs, role>>
      BY <1>4 DEF Invite
    <2>2. \A p \in Orgs \ orgs : Pending(p)' = Pending(p)
      <3>1. CASE UNCHANGED invite
        BY <3>1 DEF Pending
      <3> QED
        BY <1>4, <3>1, InviteEffect
    <2> QED
      BY <2>1, <2>2 DEF GoneIsEmpty, MembersOf
  <1>5. ASSUME NEW s \in Slots, Accept(s)
        PROVE  GoneIsEmpty'
    <2>1. orgs' = orgs
      BY <1>5 DEF Accept
    <2>2. CASE UNCHANGED <<accounts, role, invite, evicted>>
      BY <2>1, <2>2 DEF GoneIsEmpty, MembersOf, Pending
    <2>3. ASSUME NEW o \in Orgs, NEW u \in Users, NEW i \in InviteIds,
                 i \in Pending(o), \A p \in Orgs : Pending(p)' = Pending(p) \ {i},
                 role' = role \/ role' = [role EXCEPT ![o][u] = "MEMBER"]
          PROVE  GoneIsEmpty'
      <3>1. o \in orgs
        BY <2>3 DEF GoneIsEmpty
      <3>2. \A p \in Orgs : p # o => MembersOf(p)' = MembersOf(p)
        <4>1. CASE role' = role
          BY <4>1 DEF MembersOf
        <4> QED
          BY <2>3, <4>1, RoleEffect
      <3> QED
        BY <2>1, <2>3, <3>1, <3>2 DEF GoneIsEmpty
    <2> QED
      BY <1>5, <2>2, <2>3, AcceptEffect
  <1>6. ASSUME NEW s \in Slots, Revoke(s)
        PROVE  GoneIsEmpty'
    <2>1. orgs' = orgs
      BY <1>6 DEF Revoke
    <2> QED
      BY <1>6, <2>1, RevokeEffect DEF GoneIsEmpty
  <1>7. ASSUME NEW s \in Slots, RemoveMember(s)
        PROVE  GoneIsEmpty'
    <2>1. UNCHANGED <<orgs, invite>>
      BY <1>7 DEF RemoveMember
    <2>2. \A p \in Orgs : MembersOf(p)' \subseteq MembersOf(p)
      BY <1>7, RemoveEffect
    <2> QED
      BY <2>1, <2>2 DEF GoneIsEmpty, Pending
  <1>8. ASSUME NEW s \in Slots, DeleteOrg(s)
        PROVE  GoneIsEmpty'
    <2>1. CASE UNCHANGED <<orgs, role, invite, evicted>>
      BY <2>1 DEF GoneIsEmpty, MembersOf, Pending
    <2> QED
      BY <1>8, <2>1, DeleteEffect DEF GoneIsEmpty
  <1>9. CASE UNCHANGED <<orgs, role, invite>>
    BY <1>9 DEF GoneIsEmpty, MembersOf, Pending
  <1> QED
    BY <1>2, <1>3, <1>4, <1>5, <1>6, <1>7, <1>8, <1>9, PeopleUntouched
       DEF AccountNext, accountVars

-----------------------------------------------------------------------------
\* Members and invitations can be counted, now and in the next state.
LEMMA SeatsCount ==
    ASSUME NEW o
    PROVE  /\ IsFiniteSet(MembersOf(o)) /\ IsFiniteSet(Pending(o))
           /\ Cardinality(MembersOf(o)) \in Nat /\ Cardinality(Pending(o)) \in Nat
           /\ SeatsUsed(o) \in Nat
  <1>1. MembersOf(o) \subseteq Users /\ Pending(o) \subseteq InviteIds
    BY DEF MembersOf, Pending
  <1>2. IsFiniteSet(MembersOf(o)) /\ IsFiniteSet(Pending(o))
    BY <1>1, AccountAssumption, FS_Subset
  <1>3. Cardinality(MembersOf(o)) \in Nat /\ Cardinality(Pending(o)) \in Nat
    BY <1>2, FS_CardinalityType
  <1> QED
    BY <1>2, <1>3 DEF SeatsUsed

\* Who leaves frees a seat at most.
LEMMA SeatsShrink ==
    ASSUME NEW o, MembersOf(o)' \subseteq MembersOf(o), Pending(o)' \subseteq Pending(o)
    PROVE  SeatsUsed(o)' <= SeatsUsed(o) /\ SeatsUsed(o)' \in Nat
  <1>1. /\ Cardinality(MembersOf(o)') <= Cardinality(MembersOf(o))
        /\ Cardinality(Pending(o)') <= Cardinality(Pending(o))
        /\ Cardinality(MembersOf(o)') \in Nat /\ Cardinality(Pending(o)') \in Nat
    BY SeatsCount, FS_Subset, FS_CardinalityType
  <1>2. Cardinality(MembersOf(o)) \in Nat /\ Cardinality(Pending(o)) \in Nat
    BY SeatsCount
  <1> QED
    BY <1>1, <1>2 DEF SeatsUsed

\* A request that invites either passes its check now, and there is a seat, or it
\* is one more that committed on a check that did not hold any more.
LEMMA InviteNeedsSeat ==
    ASSUME AccountInv, NEW s \in Slots, Invite(s), NEW o \in Orgs, o = call[s].org
    PROVE  SeatsUsed(o) < SeatLimit \/ staleCommits' = staleCommits + 1
  <1>1. call[s].op = "invite" /\ Ends(s)
    BY DEF Invite
  <1>2. CASE Allowed(call[s])
    <2>1. CanInvite(call[s])
      BY <1>1, <1>2 DEF Allowed
    <2> QED
      BY <2>1 DEF CanInvite
  <1>3. CASE ~Allowed(call[s])
    BY <1>1, <1>3 DEF Ends
  <1> QED
    BY <1>2, <1>3

LEMMA SeatStep ==
    ASSUME AccountInv, GoneIsEmpty, SeatsWithinCap, [AccountNext]_accountVars
    PROVE  SeatsWithinCap'
  <1> SUFFICES ASSUME NEW o \in Companies
               PROVE  SeatsUsed(o)' <= SeatLimit + staleCommits'
    BY DEF SeatsWithinCap
  <1>0. /\ o \in Orgs /\ SeatsUsed(o) <= SeatLimit + staleCommits
        /\ SeatsUsed(o) \in Nat /\ SeatLimit \in Nat \ {0}
        /\ staleCommits \in Nat /\ staleCommits' \in Nat /\ staleCommits <= staleCommits'
        /\ Cardinality(MembersOf(o)) \in Nat /\ Cardinality(Pending(o)) \in Nat
        /\ SeatsUsed(o) = Cardinality(MembersOf(o)) + Cardinality(Pending(o))
        /\ SeatsUsed(o)' = Cardinality(MembersOf(o)') + Cardinality(Pending(o)')
    BY SeatsCount, StaleGrows, Shape, AccountAssumption DEF SeatsWithinCap, Orgs, SeatsUsed
  <1>1. ASSUME MembersOf(o)' \subseteq MembersOf(o), Pending(o)' \subseteq Pending(o)
        PROVE  SeatsUsed(o)' <= SeatLimit + staleCommits'
    <2>1. SeatsUsed(o)' <= SeatsUsed(o) /\ SeatsUsed(o)' \in Nat
      BY <1>1, SeatsShrink
    <2> HIDE DEF SeatsUsed
    <2> QED
      BY <1>0, <2>1
  <1>2. ASSUME NEW p \in Orgs, NEW u \in Users, NewOrg(p, u), UNCHANGED invite, p \notin orgs
        PROVE  SeatsUsed(o)' <= SeatLimit + staleCommits'
    <2>1. Pending(o)' = Pending(o)
      BY <1>2 DEF Pending
    <2>2. role' = [role EXCEPT ![p][u] = "OWNER"]
      BY <1>2, NewOrgEffect
    <2>3. CASE p # o
      BY <1>0, <1>1, <1>2, <2>1, <2>2, <2>3, RoleEffect
    <2>4. CASE p = o
      <3>1. MembersOf(o)' = {u} /\ Pending(o)' = {}
        <4>1. role' = [role EXCEPT ![o][u] = "OWNER"] /\ o \notin orgs
          BY <1>2, <2>2, <2>4
        <4>2. MembersOf(o)' = MembersOf(o) \cup {u}
          BY <1>0, <4>1, RoleEffect
        <4>3. MembersOf(o) = {} /\ Pending(o) = {}
          BY <1>0, <4>1 DEF GoneIsEmpty
        <4> QED
          BY <2>1, <4>2, <4>3
      <3>2. Cardinality(MembersOf(o)') = 1 /\ Cardinality(Pending(o)') = 0
        BY <3>1, FS_Singleton, FS_EmptySet
      <3>3. SeatsUsed(o)' = 1
        BY <1>0, <3>2
      <3>4. 1 <= SeatLimit + staleCommits'
        <4>1. \A a \in Nat \ {0}, b \in Nat : 1 <= a + b
          OBVIOUS
        <4>2. SeatLimit \in Nat \ {0} /\ staleCommits' \in Nat
          BY AccountAssumption, StaleGrows
        <4> QED
          BY <4>1, <4>2
      <3> QED
        BY <3>3, <3>4
    <2> QED
      BY <2>3, <2>4
  <1>3. ASSUME NEW u \in Users, Signup(u)
        PROVE  SeatsUsed(o)' <= SeatLimit + staleCommits'
    <2>1. u \notin orgs /\ u \in Orgs
      BY <1>3, Shape DEF Signup, PersonalOrgsHaveAccounts, Orgs
    <2> QED
      BY <1>2, <1>3, <2>1 DEF Signup
  <1>4. ASSUME NEW s \in Slots, CreateOrg(s)
        PROVE  SeatsUsed(o)' <= SeatLimit + staleCommits'
    <2>1. call[s].by \in Users
      BY <1>4, Shape DEF CreateOrg, MakesSense
    <2> QED
      BY <1>2, <1>4, <2>1 DEF CreateOrg, NewCompanies, Orgs
  <1>5. ASSUME NEW s \in Slots, Invite(s)
        PROVE  SeatsUsed(o)' <= SeatLimit + staleCommits'
    <2>1. MembersOf(o)' = MembersOf(o)
      BY <1>5 DEF Invite, MembersOf
    <2>2. CASE UNCHANGED invite
      <3>1. Pending(o)' = Pending(o)
        BY <2>2 DEF Pending
      <3> QED
        BY <1>1, <2>1, <3>1
    <2>3. ASSUME NEW i \in InviteIds, NEW p \in orgs, p = call[s].org,
                 Pending(p)' = Pending(p) \cup {i},
                 \A q \in Orgs : q # p => Pending(q)' = Pending(q)
          PROVE  SeatsUsed(o)' <= SeatLimit + staleCommits'
      <3>1. CASE p # o
        BY <1>0, <1>1, <2>1, <2>3, <3>1
      <3>2. CASE p = o
        <4>1. Pending(o)' = Pending(o) \cup {i}
          BY <2>3, <3>2
        <4>2. Cardinality(Pending(o)') <= Cardinality(Pending(o)) + 1
              /\ Cardinality(Pending(o)') \in Nat
          <5>1. Cardinality(Pending(o) \cup {i})
                  = IF i \in Pending(o) THEN Cardinality(Pending(o))
                    ELSE Cardinality(Pending(o)) + 1
            BY SeatsCount, FS_AddElement
          <5> QED
            BY <1>0, <4>1, <5>1
        <4>3. SeatsUsed(o) < SeatLimit \/ staleCommits' = staleCommits + 1
          BY <1>0, <1>5, <2>3, <3>2, InviteNeedsSeat
        <4>4. SeatsUsed(o)' <= SeatsUsed(o) + 1 /\ SeatsUsed(o)' \in Nat
          BY <1>0, <2>1, <4>2
        <4> QED
          BY <1>0, <4>3, <4>4
      <3> QED
        BY <3>1, <3>2
    <2> QED
      BY <1>5, <2>2, <2>3, InviteEffect
  <1>6. ASSUME NEW s \in Slots, Accept(s)
        PROVE  SeatsUsed(o)' <= SeatLimit + staleCommits'
    <2>1. CASE UNCHANGED <<accounts, role, invite, evicted>>
      <3>1. MembersOf(o)' = MembersOf(o) /\ Pending(o)' = Pending(o)
        BY <2>1 DEF MembersOf, Pending
      <3> QED
        BY <1>1, <3>1
    <2>2. ASSUME NEW p \in Orgs, NEW u \in Users, NEW i \in InviteIds, i \in Pending(p),
                 \A q \in Orgs : Pending(q)' = Pending(q) \ {i},
                 \/ role' = role
                 \/ u \notin MembersOf(p) /\ role' = [role EXCEPT ![p][u] = "MEMBER"]
          PROVE  SeatsUsed(o)' <= SeatLimit + staleCommits'
      <3>1. Pending(o)' = Pending(o) \ {i}
        BY <1>0, <2>2
      <3>2. CASE role' = role
        <4>1. MembersOf(o)' = MembersOf(o)
          BY <3>2 DEF MembersOf
        <4> QED
          BY <1>1, <3>1, <4>1
      <3>3. CASE role' = [role EXCEPT ![p][u] = "MEMBER"] /\ p # o
        <4>1. MembersOf(o)' = MembersOf(o)
          BY <1>0, <3>3, RoleEffect
        <4> QED
          BY <1>1, <3>1, <4>1
      <3>4. CASE /\ u \notin MembersOf(p) /\ role' = [role EXCEPT ![p][u] = "MEMBER"]
                 /\ p = o
        <4>1. MembersOf(o)' = MembersOf(o) \cup {u} /\ u \notin MembersOf(o)
              /\ i \in Pending(o)
          BY <1>0, <2>2, <3>4, RoleEffect
        <4>2. Cardinality(MembersOf(o)') = Cardinality(MembersOf(o)) + 1
          <5>1. Cardinality(MembersOf(o) \cup {u}) = Cardinality(MembersOf(o)) + 1
            BY <4>1, SeatsCount, FS_AddElement
          <5> QED
            BY <4>1, <5>1
        <4>3. Cardinality(Pending(o)') = Cardinality(Pending(o)) - 1
          <5>1. Cardinality(Pending(o) \ {i}) = Cardinality(Pending(o)) - 1
            BY <4>1, SeatsCount, FS_RemoveElement
          <5> QED
            BY <3>1, <5>1
        <4> QED
          BY <1>0, <4>2, <4>3
      <3> QED
        BY <2>2, <3>2, <3>3, <3>4
    <2> QED
      BY <1>6, <2>1, <2>2, AcceptEffect
  <1>7. ASSUME NEW s \in Slots, Revoke(s)
        PROVE  SeatsUsed(o)' <= SeatLimit + staleCommits'
    BY <1>0, <1>1, <1>7, RevokeEffect
  <1>8. ASSUME NEW s \in Slots, RemoveMember(s)
        PROVE  SeatsUsed(o)' <= SeatLimit + staleCommits'
    <2>1. Pending(o)' = Pending(o)
      BY <1>8 DEF RemoveMember, Pending
    <2>2. MembersOf(o)' \subseteq MembersOf(o)
      BY <1>0, <1>8, RemoveEffect
    <2> QED
      BY <1>1, <2>1, <2>2
  <1>9. ASSUME NEW s \in Slots, DeleteOrg(s)
        PROVE  SeatsUsed(o)' <= SeatLimit + staleCommits'
    <2>1. CASE UNCHANGED <<orgs, role, invite, evicted>>
      <3>1. MembersOf(o)' = MembersOf(o) /\ Pending(o)' = Pending(o)
        BY <2>1 DEF MembersOf, Pending
      <3> QED
        BY <1>1, <3>1
    <2>2. ASSUME NEW p \in Orgs, MembersOf(p)' = {}, Pending(p)' = {},
                 \A q \in Orgs : q # p => /\ MembersOf(q)' = MembersOf(q)
                                           /\ OwnersOf(q)' = OwnersOf(q)
                                           /\ Pending(q)' = Pending(q)
          PROVE  MembersOf(o)' \subseteq MembersOf(o) /\ Pending(o)' \subseteq Pending(o)
      <3>1. CASE p = o
        BY <2>2, <3>1
      <3>2. CASE p # o
        BY <1>0, <2>2, <3>2
      <3> QED
        BY <3>1, <3>2
    <2> QED
      BY <1>1, <1>9, <2>1, <2>2, DeleteEffect
  <1>10. CASE UNCHANGED <<orgs, role, invite>>
    <2>1. MembersOf(o)' = MembersOf(o) /\ Pending(o)' = Pending(o)
      BY <1>10 DEF MembersOf, Pending
    <2> QED
      BY <1>1, <2>1
  <1> QED
    BY <1>3, <1>4, <1>5, <1>6, <1>7, <1>8, <1>9, <1>10, PeopleUntouched
       DEF AccountNext, accountVars

LEMMA SeatsBegin ==
    ASSUME AccountInit
    PROVE  GoneIsEmpty /\ SeatsWithinCap
  <1>1. staleCommits = 0 /\ SeatLimit \in Nat
    BY AccountAssumption DEF AccountInit
  <1>2. \A o \in Orgs : MembersOf(o) = {} /\ Pending(o) = {}
    BY NoCallType DEF AccountInit, MembersOf, Pending
  <1>3. \A o \in Orgs : SeatsUsed(o) = 0
    BY <1>2, FS_EmptySet DEF SeatsUsed
  <1> QED
    BY <1>1, <1>2, <1>3 DEF GoneIsEmpty, SeatsWithinCap, Orgs

\* assert_can_add_seat, for every cap, every number of people and of requests that
\* overlap: members and pending invitations exceed the cap by no more than the
\* requests that committed after their check had ceased to hold.
THEOREM SeatsHold == AccountSpec => []SeatsWithinCap
  <1> DEFINE Inv == AccountInv /\ GoneIsEmpty /\ SeatsWithinCap
  <1>1. AccountInit => Inv
    BY AccountInitInv, SeatsBegin
  <1>2. Inv /\ [AccountNext]_accountVars => Inv'
    BY AccountStep, GoneStep, SeatStep
  <1>3. Inv => SeatsWithinCap
    OBVIOUS
  <1> QED
    BY <1>1, <1>2, <1>3, PTL DEF AccountSpec

-----------------------------------------------------------------------------
\* Whoever is about to be removed from a company does not own it.
RemovesNoOwner ==
    \A s \in Slots : call[s].op = "remove" =>
        call[s].org \in Companies /\ call[s].user \notin OwnersOf(call[s].org)

OneOwner == \A o \in orgs : Cardinality(OwnersOf(o)) = 1

\* An organization that appears has the one who made it for an owner, and nobody
\* was speaking of it; no other step gives or takes ownership of one that stays.
LEMMA OwnersEffect ==
    ASSUME AccountInv, GoneIsEmpty, RemovesNoOwner, [AccountNext]_accountVars
    PROVE  \/ \E o \in Orgs, u \in Users :
                /\ o \notin orgs /\ orgs' = orgs \cup {o}
                /\ \A s \in Slots : call[s].op = "remove" => call[s].org # o
                /\ OwnersOf(o)' = OwnersOf(o) \cup {u}
                /\ \A p \in Orgs : p # o => OwnersOf(p)' = OwnersOf(p)
           \/ /\ orgs' \subseteq orgs
              /\ \A p \in orgs' : OwnersOf(p)' = OwnersOf(p)
              /\ \A p \in Orgs : OwnersOf(p)' \subseteq OwnersOf(p)
  <1> DEFINE Kept == /\ orgs' \subseteq orgs
                     /\ \A p \in orgs' : OwnersOf(p)' = OwnersOf(p)
                     /\ \A p \in Orgs : OwnersOf(p)' \subseteq OwnersOf(p)
             Appears == \E o \in Orgs, u \in Users :
                /\ o \notin orgs /\ orgs' = orgs \cup {o}
                /\ \A s \in Slots : call[s].op = "remove" => call[s].org # o
                /\ OwnersOf(o)' = OwnersOf(o) \cup {u}
                /\ \A p \in Orgs : p # o => OwnersOf(p)' = OwnersOf(p)
  <1> SUFFICES Appears \/ Kept
    OBVIOUS
  <1>0. orgs \subseteq Orgs
    BY Shape
  <1>1. ASSUME NEW u \in Users, Signup(u)
        PROVE  Appears
    <2>1. u \notin orgs /\ u \in Orgs /\ u \notin Companies
      BY <1>1, Shape, AccountAssumption DEF Signup, PersonalOrgsHaveAccounts, Orgs
    <2>2. orgs' = orgs \cup {u} /\ role' = [role EXCEPT ![u][u] = "OWNER"]
      BY <1>1, <2>1, NewOrgEffect DEF Signup
    <2>3. \A s \in Slots : call[s].op = "remove" => call[s].org # u
      BY <2>1 DEF RemovesNoOwner
    <2> QED
      BY <2>1, <2>2, <2>3, RoleEffect
  <1>2. ASSUME NEW s \in Slots, CreateOrg(s)
        PROVE  Appears
    <2>1. PICK o \in NewCompanies : NewOrg(o, call[s].by)
      BY <1>2 DEF CreateOrg
    <2>2. PICK u \in Users : u = call[s].by
      BY <1>2, Shape DEF CreateOrg, MakesSense
    <2>3. /\ o \in Orgs /\ o \notin orgs
          /\ \A q \in Slots : call[q].org # o
      BY <2>1 DEF NewCompanies, Orgs
    <2>4. orgs' = orgs \cup {o} /\ role' = [role EXCEPT ![o][u] = "OWNER"]
      BY <2>1, <2>2, <2>3, NewOrgEffect
    <2> QED
      BY <2>3, <2>4, RoleEffect
  <1>3. ASSUME NEW s \in Slots, Accept(s)
        PROVE  Kept
    <2>1. orgs' = orgs
      BY <1>3 DEF Accept
    <2>2. CASE UNCHANGED <<accounts, role, invite, evicted>>
      BY <2>1, <2>2 DEF OwnersOf
    <2>3. ASSUME NEW o \in Orgs, NEW u \in Users,
                 \/ role' = role
                 \/ u \notin MembersOf(o) /\ role' = [role EXCEPT ![o][u] = "MEMBER"]
          PROVE  Kept
      <3>1. CASE role' = role
        BY <2>1, <3>1 DEF OwnersOf
      <3>2. CASE u \notin MembersOf(o) /\ role' = [role EXCEPT ![o][u] = "MEMBER"]
        <4>1. u \notin OwnersOf(o)
          BY <3>2 DEF OwnersOf, MembersOf
        <4>2. OwnersOf(o)' = OwnersOf(o) \ {u}
          BY <3>2, RoleEffect
        <4>3. OwnersOf(o)' = OwnersOf(o)
          BY <4>1, <4>2
        <4>4. \A p \in Orgs : p # o => OwnersOf(p)' = OwnersOf(p)
          BY <3>2, RoleEffect
        <4>5. \A p \in Orgs : OwnersOf(p)' = OwnersOf(p)
          BY <4>3, <4>4
        <4> QED
          BY <1>0, <2>1, <4>5
      <3> QED
        BY <2>3, <3>1, <3>2
    <2> QED
      BY <1>3, <2>2, <2>3, AcceptEffect
  <1>4. ASSUME NEW s \in Slots, RemoveMember(s)
        PROVE  Kept
    <2>1. orgs' = orgs
      BY <1>4 DEF RemoveMember
    <2>2. PICK o, u :
             /\ o = call[s].org /\ u = call[s].user
             /\ \A p \in Orgs : p # o => OwnersOf(p)' = OwnersOf(p)
             /\ o \in Orgs => OwnersOf(o)' = OwnersOf(o) \ {u}
      BY <1>4, RemoveEffect
    <2>3. call[s].op = "remove"
      BY <1>4 DEF RemoveMember
    <2>4. o \in Orgs /\ u \notin OwnersOf(o)
      BY <2>2, <2>3 DEF RemovesNoOwner, Orgs
    <2>5. OwnersOf(o)' = OwnersOf(o)
      BY <2>2, <2>4
    <2>6. \A p \in Orgs : OwnersOf(p)' = OwnersOf(p)
      BY <2>2, <2>5
    <2> QED
      BY <1>0, <2>1, <2>6
  <1>5. ASSUME NEW s \in Slots, DeleteOrg(s)
        PROVE  Kept
    <2>1. CASE UNCHANGED <<orgs, role, invite, evicted>>
      BY <2>1 DEF OwnersOf
    <2>2. ASSUME NEW o \in Orgs, orgs' = orgs \ {o}, MembersOf(o)' = {},
                 \A p \in Orgs : p # o => OwnersOf(p)' = OwnersOf(p)
          PROVE  Kept
      <3>1. OwnersOf(o)' \subseteq MembersOf(o)'
        BY DEF OwnersOf, MembersOf
      <3>2. OwnersOf(o)' \subseteq OwnersOf(o)
        BY <2>2, <3>1
      <3> QED
        BY <1>0, <2>2, <3>2
    <2> QED
      BY <1>5, <2>1, <2>2, DeleteEffect
  <1>6. CASE UNCHANGED <<orgs, role>>
    BY <1>6 DEF OwnersOf
  <1> QED
    BY <1>1, <1>2, <1>3, <1>4, <1>5, <1>6, PeopleUntouched
       DEF AccountNext, accountVars, Invite, Revoke

\* A request that stands after a step stood before it; or it is no request, or was
\* allowed just now; or it has become a deletion, or a deletion with less to drop.
LEMMA CallsEffect ==
    ASSUME AccountInv, [AccountNext]_accountVars, NEW q \in Slots
    PROVE  \/ call'[q] = call[q]
           \/ call'[q].op = "none"
           \/ /\ Allowed(call'[q]) /\ call'[q].op # "drop" /\ UNCHANGED <<role, home>>
           \/ /\ call'[q].op = "drop" /\ call'[q].org = call[q].org
              /\ \/ call[q].op = "deleteOrg" /\ UNCHANGED home
                                            /\ call'[q].left = WorkspacesOf(call[q].org)
                 \/ call[q].op = "drop" /\ call'[q].left \subseteq call[q].left
  <1>1. ASSUME NEW s \in Slots, call' = [call EXCEPT ![s] = NoCall]
        PROVE  call'[q] = call[q] \/ call'[q].op = "none"
    BY <1>1, Shape, NoCallType
  <1>2. ASSUME NEW s \in Slots, BeginCall(s)
        PROVE  \/ call'[q] = call[q]
               \/ /\ Allowed(call'[q]) /\ call'[q].op # "drop" /\ UNCHANGED <<role, home>>
    <2>1. PICK c \in CallRecords :
             /\ c.op # "drop" /\ Allowed(c)
             /\ call' = [call EXCEPT ![s] = c] /\ UNCHANGED <<role, home>>
      BY <1>2, BeginEffect
    <2> QED
      BY <2>1, Shape
  <1>3. ASSUME NEW s \in Slots, ListWorkspaces(s)
        PROVE  \/ call'[q] = call[q]
               \/ /\ call'[q].op = "drop" /\ call'[q].org = call[q].org
                  /\ call[q].op = "deleteOrg" /\ UNCHANGED home
                  /\ call'[q].left = WorkspacesOf(call[q].org)
    <2>1. PICK left \in SUBSET WorkspaceIds : left = WorkspacesOf(call[s].org)
      BY DEF WorkspacesOf
    <2>2. /\ call' = [call EXCEPT ![s] = [call[s] EXCEPT !.op = "drop", !.left = left]]
          /\ call[s].op = "deleteOrg" /\ UNCHANGED home
      BY <1>3, <2>1 DEF ListWorkspaces
    <2>3. /\ [call[s] EXCEPT !.op = "drop", !.left = left].op = "drop"
          /\ [call[s] EXCEPT !.op = "drop", !.left = left].org = call[s].org
          /\ [call[s] EXCEPT !.op = "drop", !.left = left].left = left
      BY Shape DEF CallRecords
    <2> QED
      BY <2>1, <2>2, <2>3, Shape
  <1>4. ASSUME NEW s \in Slots, DropWorkspace(s)
        PROVE  \/ call'[q] = call[q]
               \/ /\ call'[q].op = "drop" /\ call'[q].org = call[q].org
                  /\ call[q].op = "drop" /\ call'[q].left \subseteq call[q].left
    <2>1. PICK w \in call[s].left : call' = [call EXCEPT ![s].left = @ \ {w}]
      BY <1>4 DEF DropWorkspace
    <2>2. PICK left \in SUBSET call[s].left : left = call[s].left \ {w}
      OBVIOUS
    <2>3. call' = [call EXCEPT ![s] = [call[s] EXCEPT !.left = left]]
      BY <2>1, <2>2
    <2>4. call[s].op = "drop"
      BY <1>4 DEF DropWorkspace
    <2>5. /\ [call[s] EXCEPT !.left = left].op = call[s].op
          /\ [call[s] EXCEPT !.left = left].org = call[s].org
          /\ [call[s] EXCEPT !.left = left].left = left
      BY Shape DEF CallRecords
    <2> QED
      BY <2>2, <2>3, <2>4, <2>5, Shape
  <1>5. CASE UNCHANGED call
    BY <1>5
  <1> QED
    BY <1>1, <1>2, <1>3, <1>4, <1>5
       DEF AccountNext, accountVars, Signup, CreateOrg, CreateWorkspace, DeleteWorkspace,
           Invite, Accept, Revoke, RemoveMember, DeleteOrg, CallDies, Ends

LEMMA OwnerStep ==
    ASSUME AccountInv, GoneIsEmpty, RemovesNoOwner, OneOwner, [AccountNext]_accountVars
    PROVE  RemovesNoOwner' /\ OneOwner'
  <1>1. ASSUME NEW q \in Slots, call'[q].op = "remove"
        PROVE  \E o \in Companies : \E u :
                 o = call'[q].org /\ u = call'[q].user /\ u \notin OwnersOf(o)'
    <2> PICK o, u : o = call'[q].org /\ u = call'[q].user
      OBVIOUS
    <2>1. CASE call'[q] = call[q]
      <3>1. o \in Companies /\ u \notin OwnersOf(o) /\ o \in Orgs
            /\ call[q].op = "remove" /\ call[q].org = o
        BY <1>1, <2>1 DEF RemovesNoOwner, Orgs
      <3>2. OwnersOf(o)' \subseteq OwnersOf(o)
        BY <3>1, OwnersEffect
      <3> QED
        BY <3>1, <3>2
    <2>2. CASE Allowed(call'[q]) /\ UNCHANGED role
      <3>1. CanRemove(call'[q])
        BY <1>1, <2>2 DEF Allowed
      <3>2. o \in Companies /\ role'[o][u] # "OWNER"
        BY <2>2, <3>1 DEF CanRemove
      <3> QED
        BY <3>2 DEF OwnersOf
    <2> QED
      BY <1>1, <2>1, <2>2, CallsEffect
  <1>2. RemovesNoOwner'
    BY <1>1 DEF RemovesNoOwner
  <1>3. CASE \E o \in Orgs, u \in Users :
                /\ o \notin orgs /\ orgs' = orgs \cup {o}
                /\ OwnersOf(o)' = OwnersOf(o) \cup {u}
                /\ \A p \in Orgs : p # o => OwnersOf(p)' = OwnersOf(p)
    <2>1. PICK o \in Orgs, u \in Users :
                /\ o \notin orgs /\ orgs' = orgs \cup {o}
                /\ OwnersOf(o)' = OwnersOf(o) \cup {u}
                /\ \A p \in Orgs : p # o => OwnersOf(p)' = OwnersOf(p)
      BY <1>3
    <2>2. OwnersOf(o) = {}
      BY <2>1 DEF GoneIsEmpty, OwnersOf, MembersOf
    <2>3. Cardinality(OwnersOf(o)') = 1
      BY <2>1, <2>2, FS_Singleton
    <2>4. \A p \in orgs : p # o /\ p \in Orgs
      BY <2>1, Shape
    <2>5. \A p \in orgs : Cardinality(OwnersOf(p)') = 1
      BY <2>1, <2>4 DEF OneOwner
    <2> QED
      BY <1>2, <2>1, <2>3, <2>5 DEF OneOwner
  <1>4. CASE orgs' \subseteq orgs /\ \A p \in orgs' : OwnersOf(p)' = OwnersOf(p)
    BY <1>2, <1>4 DEF OneOwner
  <1> QED
    BY <1>3, <1>4, OwnersEffect

-----------------------------------------------------------------------------
\* What a deletion has yet to drop is the organization's own, or gone.
DropsOwn ==
    \A s \in Slots : call[s].op = "drop" =>
        \A w \in call[s].left : home[w] \in {call[s].org, Nothing}

\* A workspace is added that no deletion lists, or some are gone, or none changes.
LEMMA HomeEffect ==
    ASSUME AccountInv, [AccountNext]_accountVars
    PROVE  \/ \E w \in NewWorkspaces, o \in Orgs : home' = [home EXCEPT ![w] = o]
           \/ \A w \in WorkspaceIds : home'[w] \in {home[w], Nothing}
  <1>1. ASSUME NEW o \in Orgs, NEW u \in Users, NewOrg(o, u)
        PROVE  \E w \in NewWorkspaces : home' = [home EXCEPT ![w] = o]
    BY <1>1, NewOrgEffect
  <1>2. ASSUME NEW u \in Users, Signup(u)
        PROVE  \E w \in NewWorkspaces, o \in Orgs : home' = [home EXCEPT ![w] = o]
    <2>1. u \in Orgs /\ NewOrg(u, u)
      BY <1>2 DEF Signup, Orgs
    <2> QED
      BY <1>1, <2>1
  <1>3. ASSUME NEW s \in Slots, CreateOrg(s)
        PROVE  \E w \in NewWorkspaces, o \in Orgs : home' = [home EXCEPT ![w] = o]
    <2>1. call[s].by \in Users
      BY <1>3, Shape DEF CreateOrg, MakesSense
    <2>2. PICK o \in Orgs : NewOrg(o, call[s].by)
      BY <1>3 DEF CreateOrg, NewCompanies, Orgs
    <2> QED
      BY <1>1, <2>1, <2>2
  <1>4. ASSUME NEW s \in Slots, CreateWorkspace(s)
        PROVE  \/ \E w \in NewWorkspaces, o \in Orgs : home' = [home EXCEPT ![w] = o]
               \/ UNCHANGED home
    BY <1>4, Shape DEF CreateWorkspace
  <1>5. ASSUME NEW s \in Slots, DeleteWorkspace(s) \/ DropWorkspace(s)
        PROVE  \A w \in WorkspaceIds : home'[w] \in {home[w], Nothing}
    <2>1. PICK w : home' = [home EXCEPT ![w] = Nothing]
      BY <1>5 DEF DeleteWorkspace, DropWorkspace
    <2> QED
      BY <2>1, WorkspaceGone
  <1>6. ASSUME NEW s \in Slots, BeginCall(s)
        PROVE  UNCHANGED home
    BY <1>6, BeginEffect
  <1> QED
    BY <1>2, <1>3, <1>4, <1>5, <1>6
       DEF AccountNext, accountVars, Invite, Accept, Revoke, RemoveMember, ListWorkspaces,
           DeleteOrg, CallDies

LEMMA DropsOwnStep ==
    ASSUME AccountInv, DropsOwn, [AccountNext]_accountVars
    PROVE  DropsOwn'
  <1> SUFFICES ASSUME NEW q \in Slots, call'[q].op = "drop", NEW w \in call'[q].left
               PROVE  home'[w] \in {call'[q].org, Nothing}
    BY DEF DropsOwn
  <1>1. ASSUME call[q].op = "drop", call'[q].org = call[q].org, w \in call[q].left
        PROVE  home'[w] \in {call'[q].org, Nothing}
    <2>1. home[w] \in {call[q].org, Nothing} /\ w \in WorkspaceIds
      BY <1>1, Shape DEF DropsOwn, CallRecords
    <2>2. CASE \E x \in NewWorkspaces, o \in Orgs : home' = [home EXCEPT ![x] = o]
      <3>1. PICK x \in NewWorkspaces, o \in Orgs : home' = [home EXCEPT ![x] = o]
        BY <2>2
      <3>2. x # w
        BY <1>1, <3>1 DEF NewWorkspaces
      <3> QED
        BY <1>1, <2>1, <3>1, <3>2, Shape
    <2>3. CASE \A x \in WorkspaceIds : home'[x] \in {home[x], Nothing}
      BY <1>1, <2>1, <2>3
    <2> QED
      BY <2>2, <2>3, HomeEffect
  <1>2. CASE call'[q] = call[q]
    BY <1>1, <1>2
  <1>3. CASE /\ call'[q].org = call[q].org /\ UNCHANGED home
             /\ call'[q].left = WorkspacesOf(call[q].org)
    BY <1>3 DEF WorkspacesOf
  <1>4. CASE /\ call'[q].org = call[q].org /\ call[q].op = "drop"
             /\ call'[q].left \subseteq call[q].left
    BY <1>1, <1>4
  <1> QED
    BY <1>2, <1>3, <1>4, CallsEffect

-----------------------------------------------------------------------------
\* As long as nothing committed on a stale check, a request that commits is
\* allowed at that moment.
LEMMA NothingStale ==
    ASSUME AccountInv, NEW s \in Slots, ~(staleCommits' > 0),
           staleCommits' = IF Allowed(call[s]) THEN staleCommits ELSE staleCommits + 1
    PROVE  Allowed(call[s]) /\ ~(staleCommits > 0)
  <1>1. staleCommits \in Nat
    BY Shape
  <1> QED
    BY <1>1

\* A workspace that is deleted leaves its organization another; one that is
\* dropped belongs to the organization that is deleted.
LEMMA AnotherRemains ==
    ASSUME AccountInv, NEW s \in Slots, DeleteWorkspace(s), ~(staleCommits' > 0)
    PROVE  \A o \in Orgs : WorkspacesOf(o) # {} => WorkspacesOf(o)' # {}
  <1> PICK c : c = call[s]
    OBVIOUS
  <1>1. /\ c.op = "deleteWorkspace" /\ home' = [home EXCEPT ![c.of] = Nothing]
        /\ staleCommits' = IF Allowed(c) THEN staleCommits ELSE staleCommits + 1
    BY DEF DeleteWorkspace, Ends
  <1>2. CanDeleteWorkspace(c)
    <2>1. Allowed(c)
      BY <1>1, NothingStale
    <2> QED
      BY <1>1, <2>1 DEF Allowed
  <1>3. c.of \in WorkspacesOf(c.org) /\ WorkspacesOf(c.org) # {c.of}
    BY <1>2 DEF CanDeleteWorkspace
  <1>4. \A o \in Orgs : WorkspacesOf(o)' = WorkspacesOf(o) \ {c.of}
    BY <1>1, WorkspaceGone
  <1>5. \A o \in Orgs : o # c.org => c.of \notin WorkspacesOf(o)
    BY <1>3 DEF WorkspacesOf
  <1> QED
    BY <1>3, <1>4, <1>5

LEMMA OthersNotDropped ==
    ASSUME AccountInv, DropsOwn, NEW s \in Slots, DropWorkspace(s)
    PROVE  \A o \in Orgs : o # call[s].org => WorkspacesOf(o)' = WorkspacesOf(o)
  <1>1. PICK w \in call[s].left : home' = [home EXCEPT ![w] = Nothing]
    BY DEF DropWorkspace
  <1>2. home[w] \in {call[s].org, Nothing} /\ Nothing \notin Orgs
    BY <1>1, AccountAssumption DEF DropsOwn, DropWorkspace
  <1>3. \A o \in Orgs : WorkspacesOf(o)' = WorkspacesOf(o) \ {w}
    BY <1>1, WorkspaceGone
  <1>4. \A o \in Orgs : o # call[s].org => w \notin WorkspacesOf(o)
    BY <1>2 DEF WorkspacesOf
  <1> QED
    BY <1>3, <1>4
-----------------------------------------------------------------------------
\* Why an organization may be without a workspace.
Excused(o) ==
    \/ staleCommits > 0 \/ o \in halved
    \/ \E s \in Slots : call[s].op = "drop" /\ call[s].org = o

HasWorkspace == \A o \in orgs : WorkspacesOf(o) # {} \/ Excused(o)

\* A deletion under way goes on, or is over, or dies.
LEMMA DropGoesOn ==
    ASSUME AccountInv, [AccountNext]_accountVars, NEW q \in Slots, call[q].op = "drop"
    PROVE  \/ call'[q].op = "drop" /\ call'[q].org = call[q].org
           \/ DeleteOrg(q)
           \/ halved' = halved \cup {call[q].org}
  <1> DEFINE On == call'[q].op = "drop" /\ call'[q].org = call[q].org
  <1>1. ASSUME NEW s \in Slots, Ends(s), call[s].op # "drop"
        PROVE  On
    BY <1>1, Shape DEF Ends
  <1>2. ASSUME NEW s \in Slots, BeginCall(s)
        PROVE  On
    <2>1. PICK c : Begins(s, c)
      BY <1>2, BeginFacts
    <2> QED
      BY <2>1, Shape DEF Begins
  <1>3. ASSUME NEW s \in Slots, ListWorkspaces(s) \/ DropWorkspace(s)
        PROVE  On
    <2>1. CASE s # q
      BY <1>3, <2>1, Shape DEF ListWorkspaces, DropWorkspace
    <2>2. CASE s = q
      <3>1. PICK w : call' = [call EXCEPT ![q].left = @ \ {w}]
        BY <1>3, <2>2 DEF ListWorkspaces, DropWorkspace
      <3>2. PICK left \in SUBSET WorkspaceIds : left = call[q].left \ {w}
        BY Shape DEF CallRecords
      <3>3. call' = [call EXCEPT ![q] = [call[q] EXCEPT !.left = left]]
        BY <3>1, <3>2
      <3>4. /\ [call[q] EXCEPT !.left = left].op = call[q].op
            /\ [call[q] EXCEPT !.left = left].org = call[q].org
        BY Shape, CallEditType
      <3> QED
        BY <3>3, <3>4, Shape
    <2> QED
      BY <2>1, <2>2
  <1>4. ASSUME NEW s \in Slots, DeleteOrg(s)
        PROVE  On \/ DeleteOrg(q)
    <2>1. CASE s # q
      BY <1>4, <2>1, Shape DEF DeleteOrg, Ends
    <2> QED
      BY <1>4, <2>1
  <1>5. ASSUME NEW s \in Slots, CallDies(s)
        PROVE  On \/ halved' = halved \cup {call[q].org}
    <2>1. CASE s # q
      BY <1>5, <2>1, Shape DEF CallDies
    <2>2. CASE s = q
      BY <1>5, <2>2 DEF CallDies
    <2> QED
      BY <2>1, <2>2
  <1>6. CASE UNCHANGED call
    BY <1>6
  <1> QED
    BY <1>1, <1>2, <1>3, <1>4, <1>5, <1>6
       DEF AccountNext, accountVars, Signup, CreateOrg, CreateWorkspace, DeleteWorkspace,
           Invite, Accept, Revoke, RemoveMember

\* An organization stays half deleted until it is gone.
LEMMA HalvedStays ==
    ASSUME AccountInv, [AccountNext]_accountVars, NEW o \in orgs', o \in halved
    PROVE  o \in halved'
  <1>1. ASSUME NEW s \in Slots, DeleteOrg(s)
        PROVE  o \in halved'
    BY <1>1, DeleteEffect
  <1>2. ASSUME NEW s \in Slots, BeginCall(s)
        PROVE  o \in halved'
    BY <1>2, BeginEffect
  <1> QED
    BY <1>1, <1>2
       DEF AccountNext, accountVars, Signup, CreateOrg, CreateWorkspace, DeleteWorkspace,
           Invite, Accept, Revoke, RemoveMember, ListWorkspaces, DropWorkspace, CallDies

\* What excused an organization still does, or another reason does.
LEMMA ExcuseKept ==
    ASSUME AccountInv, [AccountNext]_accountVars, NEW o \in orgs', Excused(o)
    PROVE  Excused(o)'
  <1>1. CASE staleCommits > 0
    <2>1. staleCommits' > 0
      BY <1>1, StaleGrows, Shape
    <2> QED
      BY <2>1 DEF Excused
  <1>2. CASE o \in halved
    BY <1>2, HalvedStays DEF Excused
  <1>3. ASSUME NEW q \in Slots, call[q].op = "drop", call[q].org = o
        PROVE  Excused(o)'
    <2>1. CASE call'[q].op = "drop" /\ call'[q].org = call[q].org
      BY <1>3, <2>1 DEF Excused
    <2>2. CASE DeleteOrg(q)
      <3>1. halved' = halved \cup {call[q].org}
        BY <1>3, <2>2, DeleteEffect
      <3> QED
        BY <1>3, <3>1 DEF Excused
    <2>3. CASE halved' = halved \cup {call[q].org}
      BY <1>3, <2>3 DEF Excused
    <2> QED
      BY <1>3, <2>1, <2>2, <2>3, DropGoesOn
  <1> QED
    BY <1>1, <1>2, <1>3 DEF Excused

\* The steps that take no workspace away.
LEMMA WorkspacesKept ==
    ASSUME AccountInv, [AccountNext]_accountVars, NEW o \in Orgs,
           \A s \in Slots : ~DeleteWorkspace(s) /\ ~DropWorkspace(s)
    PROVE  WorkspacesOf(o) \subseteq WorkspacesOf(o)'
  <1>1. CASE \E w \in NewWorkspaces, p \in Orgs : home' = [home EXCEPT ![w] = p]
    BY <1>1, WorkspaceAdded
  <1>2. CASE UNCHANGED home
    BY <1>2 DEF WorkspacesOf
  <1>3. ASSUME NEW p \in Orgs, NEW u \in Users, NewOrg(p, u)
        PROVE  \E w \in NewWorkspaces, r \in Orgs : home' = [home EXCEPT ![w] = r]
    BY <1>3, NewOrgEffect
  <1>4. ASSUME NEW u \in Users, Signup(u)
        PROVE  \E w \in NewWorkspaces, r \in Orgs : home' = [home EXCEPT ![w] = r]
    BY <1>3, <1>4 DEF Signup, Orgs
  <1>5. ASSUME NEW s \in Slots, CreateOrg(s)
        PROVE  \E w \in NewWorkspaces, r \in Orgs : home' = [home EXCEPT ![w] = r]
    <2>1. call[s].by \in Users
      BY <1>5, Shape DEF CreateOrg, MakesSense
    <2> QED
      BY <1>3, <1>5, <2>1 DEF CreateOrg, NewCompanies, Orgs
  <1>6. ASSUME NEW s \in Slots, CreateWorkspace(s)
        PROVE  \/ \E w \in NewWorkspaces, r \in Orgs : home' = [home EXCEPT ![w] = r]
               \/ UNCHANGED home
    BY <1>6, Shape DEF CreateWorkspace
  <1>7. ASSUME NEW s \in Slots, BeginCall(s)
        PROVE  UNCHANGED home
    BY <1>7, BeginEffect
  <1> QED
    BY <1>1, <1>2, <1>4, <1>5, <1>6, <1>7
       DEF AccountNext, accountVars, Invite, Accept, Revoke, RemoveMember, ListWorkspaces,
           DeleteOrg, CallDies

\* The last workspace goes only by a deletion of its organization, or on a check
\* that did not hold any more.
LEMMA LastWorkspace ==
    ASSUME AccountInv, DropsOwn, [AccountNext]_accountVars, NEW o \in Orgs,
           WorkspacesOf(o) # {}
    PROVE  WorkspacesOf(o)' # {} \/ Excused(o)'
  <1>1. ASSUME NEW s \in Slots, DeleteWorkspace(s)
        PROVE  WorkspacesOf(o)' # {} \/ Excused(o)'
    BY <1>1, AnotherRemains DEF Excused
  <1>2. ASSUME NEW s \in Slots, DropWorkspace(s)
        PROVE  WorkspacesOf(o)' # {} \/ Excused(o)'
    <2>1. CASE o # call[s].org
      BY <1>2, <2>1, OthersNotDropped
    <2>2. CASE o = call[s].org
      <3>1. call'[s].op = "drop" /\ call'[s].org = o
        BY <1>2, <2>2, CallsEffect DEF DropWorkspace
      <3> QED
        BY <3>1 DEF Excused
    <2> QED
      BY <2>1, <2>2
  <1>3. CASE \A s \in Slots : ~DeleteWorkspace(s) /\ ~DropWorkspace(s)
    BY <1>3, WorkspacesKept
  <1> QED
    BY <1>1, <1>2, <1>3

LEMMA WorkspaceStep ==
    ASSUME AccountInv, DropsOwn, HasWorkspace, [AccountNext]_accountVars
    PROVE  HasWorkspace'
  <1> SUFFICES ASSUME NEW o \in orgs'
               PROVE  WorkspacesOf(o)' # {} \/ Excused(o)'
    BY DEF HasWorkspace
  <1>1. CASE o \in orgs
    <2>1. o \in Orgs
      BY <1>1, Shape
    <2> QED
      BY <1>1, <2>1, ExcuseKept, LastWorkspace DEF HasWorkspace
  <1>2. ASSUME NEW p \in Orgs, NEW u \in Users, NewOrg(p, u), o \notin orgs
        PROVE  WorkspacesOf(o)' # {}
    <2>1. o = p
      BY <1>2, NewOrgEffect
    <2> QED
      BY <1>2, <2>1, NewOrgEffect, WorkspaceAdded
  <1>3. ASSUME o \notin orgs
        PROVE  WorkspacesOf(o)' # {}
    <2>1. ASSUME NEW u \in Users, Signup(u)
          PROVE  WorkspacesOf(o)' # {}
      BY <1>2, <1>3, <2>1 DEF Signup, Orgs
    <2>2. ASSUME NEW s \in Slots, CreateOrg(s)
          PROVE  WorkspacesOf(o)' # {}
      <3>1. call[s].by \in Users
        BY <2>2, Shape DEF CreateOrg, MakesSense
      <3> QED
        BY <1>2, <1>3, <2>2, <3>1 DEF CreateOrg, NewCompanies, Orgs
    <2>3. ASSUME NEW s \in Slots, DeleteOrg(s)
          PROVE  orgs' \subseteq orgs
      BY <2>3, DeleteEffect
    <2> QED
      BY <1>3, <2>1, <2>2, <2>3, PeopleUntouched
         DEF AccountNext, accountVars, Invite, Accept, Revoke, RemoveMember
  <1> QED
    BY <1>1, <1>3

\* Every organization has one owner through every overlap and death of a request;
\* and a workspace, but for the exceptions that the property names: delete_workspace
\* refuses the last one by a count it took before.
THEOREM OwnerAndWorkspaceKept == AccountSpec => []OrgKeepsOwnerAndWorkspace
  <1> DEFINE Inv == /\ AccountInv /\ GoneIsEmpty /\ RemovesNoOwner /\ OneOwner
                    /\ DropsOwn /\ HasWorkspace
  <1>1. AccountInit => Inv
    <2>1. ASSUME AccountInit
          PROVE  RemovesNoOwner /\ OneOwner /\ DropsOwn /\ HasWorkspace
      BY <2>1, NoCallType DEF AccountInit, RemovesNoOwner, OneOwner, DropsOwn, HasWorkspace
    <2> QED
      BY <2>1, AccountInitInv, SeatsBegin
  <1>2. Inv /\ [AccountNext]_accountVars => Inv'
    BY AccountStep, GoneStep, OwnerStep, DropsOwnStep, WorkspaceStep
  <1>3. Inv => OrgKeepsOwnerAndWorkspace
    BY DEF OneOwner, OwnersOf, HasWorkspace, Excused, OrgKeepsOwnerAndWorkspace
  <1> QED
    BY <1>1, <1>2, <1>3, PTL DEF AccountSpec

-----------------------------------------------------------------------------
\* A workspace one can sign in to.
Way(u) == \E o \in Orgs : u \in MembersOf(o) /\ WorkspacesOf(o) # {}

HasWay == \A u \in accounts : Way(u) \/ u \in evicted \/ staleCommits > 0

LEMMA WayIsReach ==
    ASSUME AccountInv, NEW u \in Users
    PROVE  Way(u) <=> Reach(u) # {}
  <1>1. home \in [WorkspaceIds -> Orgs \cup {Nothing}] /\ Nothing \notin Orgs
    BY Shape, AccountAssumption
  <1> QED
    BY <1>1 DEF Way, Reach, WorkspacesOf

\* Another way in, as remove_member and delete_organization ask for it.
LEMMA AnotherWay ==
    ASSUME AccountInv, NEW u \in Users, NEW o, Reach(u) \ WorkspacesOf(o) # {}
    PROVE  \E p \in Orgs : p # o /\ u \in MembersOf(p) /\ WorkspacesOf(p) # {}
  <1>1. PICK w \in WorkspaceIds : home[w] # Nothing /\ u \in MembersOf(home[w]) /\ home[w] # o
    BY DEF Reach, WorkspacesOf
  <1>2. home[w] \in Orgs /\ w \in WorkspacesOf(home[w])
    BY <1>1, Shape DEF WorkspacesOf
  <1> QED
    BY <1>1, <1>2

\* One keeps a way in who stays a member where there is still a workspace.
LEMMA WayKept ==
    ASSUME NEW u \in Users, NEW o \in Orgs, u \in MembersOf(o)', WorkspacesOf(o)' # {}
    PROVE  Way(u)'
  BY DEF Way

\* Nobody loses a way in by a step that takes neither members nor workspaces.
LEMMA NothingTaken ==
    ASSUME AccountInv, HasWay, [AccountNext]_accountVars, ~(staleCommits' > 0),
           NEW u \in accounts, u \notin evicted,
           \A o \in Orgs : u \in MembersOf(o) => u \in MembersOf(o)',
           \A o \in Orgs : WorkspacesOf(o) # {} => WorkspacesOf(o)' # {}
    PROVE  Way(u)'
  <1>1. u \in Users /\ ~(staleCommits > 0)
    BY Shape, StaleGrows
  <1>2. PICK o \in Orgs : u \in MembersOf(o) /\ WorkspacesOf(o) # {}
    BY <1>1 DEF HasWay, Way
  <1> QED
    BY <1>1, <1>2, WayKept

\* Who signs up, or creates an organization, has a way in by it, and nobody else
\* loses one.
LEMMA WayByNewOrg ==
    ASSUME AccountInv, HasWay, [AccountNext]_accountVars, ~(staleCommits' > 0),
           NEW o \in Orgs, NEW v \in Users, NewOrg(o, v),
           NEW u \in Users, u # v => u \in accounts /\ u \notin evicted
    PROVE  Way(u)'
  <1>1. role' = [role EXCEPT ![o][v] = "OWNER"]
    BY NewOrgEffect
  <1>2. \A p \in Orgs : /\ MembersOf(p) \subseteq MembersOf(p)'
                        /\ WorkspacesOf(p) \subseteq WorkspacesOf(p)'
    <2>1. \A p \in Orgs : MembersOf(p) \subseteq MembersOf(p)'
      BY <1>1, RoleEffect
    <2>2. \A p \in Orgs : WorkspacesOf(p) \subseteq WorkspacesOf(p)'
      BY NewOrgEffect, WorkspaceAdded
    <2> QED
      BY <2>1, <2>2
  <1>3. CASE u = v
    <2>1. MembersOf(o)' = MembersOf(o) \cup {v}
      BY <1>1, RoleEffect
    <2>2. WorkspacesOf(o)' # {}
      BY NewOrgEffect, WorkspaceAdded
    <2> QED
      BY <1>3, <2>1, <2>2, WayKept
  <1>4. CASE u # v
    BY <1>2, <1>4, NothingTaken
  <1> QED
    BY <1>3, <1>4
LEMMA AcceptKeepsWays ==
    ASSUME AccountInv, HasWay, [AccountNext]_accountVars, ~(staleCommits' > 0),
           NEW s \in Slots, Accept(s), NEW u \in accounts', u \notin evicted'
    PROVE  Way(u)'
  <1>1. \A p \in Orgs : WorkspacesOf(p)' = WorkspacesOf(p)
    BY DEF Accept, WorkspacesOf
  <1>2. CASE UNCHANGED <<accounts, role, invite, evicted>>
    <2>1. \A p \in Orgs : MembersOf(p)' = MembersOf(p)
      BY <1>2 DEF MembersOf
    <2> QED
      BY <1>1, <1>2, <2>1, NothingTaken
  <1>3. ASSUME NEW o \in Orgs, NEW v \in Users, WorkspacesOf(o) # {},
               accounts' = accounts \cup {v},
               \/ v \in MembersOf(o) /\ UNCHANGED <<role, evicted>>
               \/ evicted' = evicted \ {v} /\ role' = [role EXCEPT ![o][v] = "MEMBER"]
        PROVE  Way(u)'
    <2>1. \A p \in Orgs : MembersOf(p) \subseteq MembersOf(p)'
      <3>1. CASE UNCHANGED role
        BY <3>1 DEF MembersOf
      <3>2. CASE role' = [role EXCEPT ![o][v] = "MEMBER"]
        BY <3>2, RoleEffect
      <3> QED
        BY <1>3, <3>1, <3>2
    <2>2. v \in MembersOf(o)'
      <3>1. CASE v \in MembersOf(o)
        BY <2>1, <3>1
      <3>2. CASE role' = [role EXCEPT ![o][v] = "MEMBER"]
        <4>1. MembersOf(o)' = MembersOf(o) \cup {v}
          BY <3>2, RoleEffect
        <4> QED
          BY <4>1
      <3> QED
        BY <1>3, <3>1, <3>2
    <2>3. CASE u = v
      BY <1>1, <1>3, <2>2, <2>3, WayKept
    <2>4. CASE u # v
      <3>1. u \in accounts /\ u \notin evicted
        BY <1>3, <2>4
      <3> QED
        BY <1>1, <2>1, <3>1, NothingTaken
    <2> QED
      BY <2>3, <2>4
  <1> QED
    BY <1>2, <1>3, AcceptEffect

\* Who leaves of one's own accord was found another way in, and who is made to leave
\* is evicted.
LEMMA RemoveKeepsWays ==
    ASSUME AccountInv, HasWay, [AccountNext]_accountVars, ~(staleCommits' > 0),
           NEW s \in Slots, RemoveMember(s), NEW u \in accounts', u \notin evicted'
    PROVE  Way(u)'
  <1> PICK c : c = call[s]
    OBVIOUS
  <1>1. /\ c.op = "remove" /\ UNCHANGED <<accounts, home>>
        /\ evicted' = IF c.by # c.user /\ c.user \in MembersOf(c.org)
                      THEN evicted \cup {c.user} ELSE evicted
        /\ staleCommits' = IF Allowed(c) THEN staleCommits ELSE staleCommits + 1
    BY DEF RemoveMember, Ends
  <1>2. CanRemove(c)
    <2>1. Allowed(c)
      BY <1>1, NothingStale
    <2> QED
      BY <1>1, <2>1 DEF Allowed
  <1>3. u \in accounts /\ u \notin evicted /\ u \in Users
    BY <1>1, Shape
  <1>4. \A p \in Orgs : WorkspacesOf(p)' = WorkspacesOf(p)
    BY <1>1 DEF WorkspacesOf
  <1>5. /\ \A p \in Orgs : p # c.org => MembersOf(p)' = MembersOf(p)
        /\ \A p \in Orgs : MembersOf(p) \ {c.user} \subseteq MembersOf(p)'
    BY RemoveEffect
  <1>6. CASE u # c.user
    BY <1>3, <1>4, <1>5, <1>6, NothingTaken
  <1>7. CASE u = c.user
    <2>1. u \in MembersOf(c.org)
      BY <1>2, <1>3, <1>7 DEF CanRemove, MembersOf
    <2>2. c.by = c.user
      BY <1>1, <1>7, <2>1
    <2>3. Reach(u) \ WorkspacesOf(c.org) # {}
      BY <1>2, <1>7, <2>2 DEF CanRemove
    <2>4. PICK p \in Orgs : p # c.org /\ u \in MembersOf(p) /\ WorkspacesOf(p) # {}
      BY <1>3, <2>3, AnotherWay
    <2>5. u \in MembersOf(p)' /\ WorkspacesOf(p)' # {}
      BY <1>4, <1>5, <2>4
    <2> QED
      BY <1>3, <2>5, WayKept
  <1> QED
    BY <1>6, <1>7

\* A deletion evicts everybody but the owner, who was found another way in.
LEMMA DropKeepsWays ==
    ASSUME AccountInv, DropsOwn, HasWay, [AccountNext]_accountVars, ~(staleCommits' > 0),
           NEW s \in Slots, DropWorkspace(s), NEW u \in accounts', u \notin evicted'
    PROVE  Way(u)'
  <1> PICK c : c = call[s]
    OBVIOUS
  <1>1. /\ c.op = "drop" /\ UNCHANGED <<accounts, role>>
        /\ evicted' = evicted \cup (MembersOf(c.org) \ {c.by})
        /\ staleCommits' = IF Allowed(c) THEN staleCommits ELSE staleCommits + 1
    BY DEF DropWorkspace
  <1>2. Allowed(c) /\ ~(staleCommits > 0)
    BY <1>1, NothingStale
  <1>3. CanDeleteOrg(c)
    BY <1>1, <1>2 DEF Allowed
  <1>4. u \in accounts /\ u \notin evicted /\ u \in Users
    BY <1>1, Shape
  <1>5. \A p \in Orgs : MembersOf(p)' = MembersOf(p)
    BY <1>1 DEF MembersOf
  <1>6. \A p \in Orgs : p # c.org => WorkspacesOf(p)' = WorkspacesOf(p)
    BY OthersNotDropped
  <1>7. PICK p \in Orgs : p # c.org /\ u \in MembersOf(p) /\ WorkspacesOf(p) # {}
    <2>1. CASE u \in MembersOf(c.org)
      <3>1. u = c.by
        BY <1>1, <2>1
      <3> QED
        BY <1>3, <1>4, <3>1, AnotherWay DEF CanDeleteOrg
    <2>2. CASE u \notin MembersOf(c.org)
      BY <1>2, <1>4, <2>2 DEF HasWay, Way
    <2> QED
      BY <2>1, <2>2
  <1>8. u \in MembersOf(p)' /\ WorkspacesOf(p)' # {}
    BY <1>5, <1>6, <1>7
  <1> QED
    BY <1>4, <1>8, WayKept

\* The row of an organization without workspaces was nobody's way in.
LEMMA DeleteKeepsWays ==
    ASSUME AccountInv, HasWay, [AccountNext]_accountVars, ~(staleCommits' > 0),
           NEW s \in Slots, DeleteOrg(s), NEW u \in accounts', u \notin evicted'
    PROVE  Way(u)'
  <1>1. UNCHANGED <<accounts, home>>
    BY DEF DeleteOrg
  <1>2. \A p \in Orgs : WorkspacesOf(p)' = WorkspacesOf(p)
    BY <1>1 DEF WorkspacesOf
  <1>3. CASE UNCHANGED <<orgs, role, invite, evicted>>
    <2>1. \A p \in Orgs : MembersOf(p)' = MembersOf(p)
      BY <1>3 DEF MembersOf
    <2> QED
      BY <1>1, <1>2, <1>3, <2>1, NothingTaken
  <1>4. ASSUME NEW o \in Orgs, WorkspacesOf(o) = {}, evicted \subseteq evicted',
               \A p \in Orgs : p # o => MembersOf(p)' = MembersOf(p)
        PROVE  Way(u)'
    <2>1. u \in Users /\ u \in accounts /\ u \notin evicted /\ ~(staleCommits > 0)
      BY <1>1, <1>4, Shape, StaleGrows
    <2>2. PICK p \in Orgs : u \in MembersOf(p) /\ WorkspacesOf(p) # {}
      BY <2>1 DEF HasWay, Way
    <2>3. u \in MembersOf(p)' /\ WorkspacesOf(p)' # {}
      BY <1>2, <1>4, <2>2
    <2> QED
      BY <2>1, <2>3, WayKept
  <1> QED
    BY <1>3, <1>4, DeleteEffect

LEMMA WayStep ==
    ASSUME AccountInv, DropsOwn, HasWay, [AccountNext]_accountVars
    PROVE  HasWay'
  <1> SUFFICES ASSUME NEW u \in accounts', u \notin evicted', ~(staleCommits' > 0)
               PROVE  Way(u)'
    BY DEF HasWay
  <1>1. u \in Users
    <2>1. AccountInv'
      BY AccountStep
    <2> QED
      BY <2>1, AccountTypes0 DEF AccountInv, AccountTypeOK
  <1>2. ASSUME NEW v \in Users, Signup(v)
        PROVE  Way(u)'
    <2>1. NewOrg(v, v) /\ v \in Orgs /\ accounts' = accounts \cup {v}
      BY <1>2 DEF Signup, Orgs
    <2>2. evicted' = evicted \ {v}
      BY <2>1, NewOrgEffect
    <2> QED
      BY <1>1, <2>1, <2>2, WayByNewOrg
  <1>3. ASSUME NEW s \in Slots, CreateOrg(s)
        PROVE  Way(u)'
    <2>1. PICK v \in Users : v = call[s].by
      BY <1>3, Shape DEF CreateOrg, MakesSense
    <2>2. PICK o \in Orgs : NewOrg(o, v)
      BY <1>3, <2>1 DEF CreateOrg, NewCompanies, Orgs
    <2>3. evicted' = evicted \ {v} /\ accounts' = accounts
      BY <1>3, <2>2, NewOrgEffect DEF CreateOrg
    <2> QED
      BY <1>1, <2>2, <2>3, WayByNewOrg
  <1>4. ASSUME NEW s \in Slots, DeleteWorkspace(s)
        PROVE  Way(u)'
    <2>1. UNCHANGED <<accounts, role, evicted>>
      BY <1>4 DEF DeleteWorkspace
    <2>2. \A o \in Orgs : MembersOf(o)' = MembersOf(o)
      BY <2>1 DEF MembersOf
    <2> QED
      BY <1>4, <2>1, <2>2, AnotherRemains, NothingTaken
  <1>5. ASSUME NEW s \in Slots, Accept(s) \/ RemoveMember(s) \/ DropWorkspace(s) \/ DeleteOrg(s)
        PROVE  Way(u)'
    BY <1>5, AcceptKeepsWays, RemoveKeepsWays, DropKeepsWays, DeleteKeepsWays
  <1>6. ASSUME UNCHANGED <<accounts, role, evicted>>,
               \A s \in Slots : ~DeleteWorkspace(s) /\ ~DropWorkspace(s)
        PROVE  Way(u)'
    <2>1. \A o \in Orgs : MembersOf(o)' = MembersOf(o)
      BY <1>6 DEF MembersOf
    <2>2. \A o \in Orgs : WorkspacesOf(o) \subseteq WorkspacesOf(o)'
      BY <1>6, WorkspacesKept
    <2> QED
      BY <1>6, <2>1, <2>2, NothingTaken
  <1>7. ASSUME NEW s \in Slots, BeginCall(s)
        PROVE  UNCHANGED <<accounts, role, evicted>>
    BY <1>7, BeginEffect
  <1>8. CASE UNCHANGED <<accounts, role, evicted>>
    BY <1>4, <1>5, <1>6, <1>8
  <1> QED
    BY <1>2, <1>3, <1>5, <1>7, <1>8
       DEF AccountNext, accountVars, CreateWorkspace, DeleteWorkspace, Invite, Revoke,
           ListWorkspaces, CallDies

\* Through every overlap of requests, deletions that stop half way included, whoever
\* has an account can sign in to some workspace, but for those whom others removed:
\* the refusals of delete_workspace, remove_member and delete_organization suffice as
\* long as each still holds when its request commits.
THEOREM NobodyLeftOut == AccountSpec => []NobodyStranded
  <1> DEFINE Inv == AccountInv /\ DropsOwn /\ HasWay
  <1>1. AccountInit => Inv
    <2>1. ASSUME AccountInit
          PROVE  DropsOwn /\ HasWay
      BY <2>1, NoCallType DEF AccountInit, DropsOwn, HasWay
    <2> QED
      BY <2>1, AccountInitInv
  <1>2. Inv /\ [AccountNext]_accountVars => Inv'
    BY AccountStep, DropsOwnStep, WayStep
  <1>3. Inv => NobodyStranded
    BY Shape, WayIsReach DEF HasWay, NobodyStranded
  <1> QED
    BY <1>1, <1>2, <1>3, PTL DEF AccountSpec
=============================================================================
