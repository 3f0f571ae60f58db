-------------------------- MODULE OnboardingProofs --------------------------
(* Proofs about Onboarding.  The safety properties are not inductive: what *)
(* a handler may assume at each label, which keys an open transaction      *)
(* holds, and that a token hash is written once, have to be added.         *)
EXTENDS Onboarding, TLAPS

(* The requests that create an account. *)
Signing == {"joinLink", "signup", "register", "team", "company", "accept"}

(* What a handler's label says of its request and of the documents the     *)
(* handler has read or written.                                            *)
LabelOK(r) ==
    /\ pc[r] = "email" => Kind(r) \in Signing \union {"invite", "link"}
    /\ pc[r] = "create" => Kind(r) \in Signing
    /\ pc[r] = "create" /\ Kind(r) = "joinLink" => Kind(Of(r)) = "link"
    /\ pc[r] \in {"pending", "insert", "finalize"} => Kind(r) = "invite"
    /\ pc[r] = "read" => Kind(r) \in {"resend", "revoke", "info", "accept"}
    /\ pc[r] = "resend" => Kind(r) = "resend"
    /\ pc[r] = "revoke" => Kind(r) = "revoke"
    /\ pc[r] = "expire" => Kind(r) \in {"info", "accept"}
    /\ pc[r] \in {"name", "org", "commit"} => Kind(r) = "company"
    /\ pc[r] = "delete" => Kind(r) = "delete"
    /\ pc[r] \in {"me", "myEmail", "rename", "renameOnly", "save"} => Kind(r) = "updateMe"
    /\ pc[r] \in {"myEmail", "rename", "save"} => call[r].email # None
    /\ pc[r] \in {"rename", "renameOnly"} => call[r].name # None
    /\ pc[r] = "accept" => Kind(r) = "accept"

(* An invitation is inserted once, by its own invite, and a handler that   *)
(* read one keeps finding it.                                              *)
InvitationsOK ==
    \A r \in Reqs :
      /\ invs[r] # None => Kind(r) = "invite" /\ pc[r] \notin {"email", "pending", "insert"}
      /\ pc[r] = "finalize" => invs[r] # None
      /\ (\/ pc[r] \in {"resend", "revoke", "expire", "accept"}
          \/ Kind(r) = "accept" /\ pc[r] \in {"email", "create", "ok"}
          \/ Kind(r) = "revoke" /\ pc[r] = "ok") => invs[Of(r)] # None

(* The users a handler has created or read. *)
AccountsOK ==
    \A r \in Reqs :
      /\ pc[r] = "accept" => /\ users[r] # None
                             /\ users[r].role = invs[Of(r)].role
                             /\ users[r].org = invs[Of(r)].org
      /\ pc[r] \in {"myEmail", "rename", "renameOnly", "save"} => users[Of(r)] # None

(* The keys of open transactions are free and pairwise different. *)
TransactionsOK ==
    /\ \A r \in Reqs : pc[r] = "commit" =>
          ~Taken(call[r].email) /\ ~EmailHeld(r, call[r].email)
    /\ \A r \in Reqs : Kind(r) = "company" /\ pc[r] \in {"create", "commit"} =>
          ~NameTaken(call[r].name) /\ ~NameHeld(r, call[r].name)
    /\ \A r \in Reqs : orgs[r] # None => Kind(r) = "company" /\ pc[r] = "ok"

(* The final hash of a request is nowhere before the request has answered, *)
(* and a handler about to expire an invitation has seen its current expiry *)
(* past unless the hash has changed.                                       *)
HashesOK ==
    /\ \A q \in Reqs : pc[q] # "ok" =>
          \A r \in Reqs : /\ seen[r] # <<q, "final">>
                          /\ invs[r] # None => invs[r].hash # <<q, "final">>
    /\ \A r \in Reqs : pc[r] = "expire" /\ invs[Of(r)].hash = seen[r]
                          => ~invs[Of(r)].fresh

LocalOK == \A r \in Reqs : LabelOK(r)

IInv ==
    /\ TypeOK
    /\ LocalOK
    /\ InvitationsOK
    /\ AccountsOK
    /\ TransactionsOK
    /\ HashesOK
    /\ AcceptedHasAccount
    /\ ClosedUnlessResent
    /\ OneAccountPerEmail
    /\ OrgHasAdmin

-----------------------------------------------------------------------------
(* Steps that change nothing but the handler's own label. *)

\* The typed fields of a request that is about another document.
LEMMA CallTypes ==
  ASSUME TypeOK, NEW r \in Reqs
  PROVE  /\ call[r] \in Calls
         /\ Kind(r) \in Addressed => Of(r) \in Reqs
         /\ Kind(r) \notin Addressed => call[r].email \in Emails
         /\ Kind(r) = "company" => call[r].name \in Names
  BY OnboardingAssumption DEF TypeOK, Kind, Of

\* A handler that has not answered yet may answer with an error at any label:
\* every await of the handlers may throw.
LEMMA RefuseKeeps ==
  ASSUME IInv, NEW r \in Reqs, Refuse(r), pc[r] # "ok", UNCHANGED call
  PROVE  IInv'
<1> USE DEF IInv, Refuse, Goto, Kind, Of
<1>0. /\ pc' = [pc EXCEPT ![r] = "error"] /\ pc \in [Reqs -> Labels]
      /\ UNCHANGED <<call, seen, invs, users, orgs, issued>>
  BY DEF TypeOK
<1> HIDE DEF Refuse, Goto
<1>1. TypeOK'
  BY <1>0 DEF TypeOK, Labels
<1>2. LocalOK'
  BY <1>0 DEF LocalOK, LabelOK
<1>3. InvitationsOK'
  BY <1>0 DEF InvitationsOK
<1>4. AccountsOK'
  BY <1>0 DEF AccountsOK
<1>5. TransactionsOK'
  BY <1>0 DEF TransactionsOK, Taken, EmailHeld, NameTaken, NameHeld
<1>6. HashesOK'
  BY <1>0 DEF HashesOK
<1>7. AcceptedHasAccount'
  BY <1>0 DEF AcceptedHasAccount
<1>8. ClosedUnlessResent'
  BY <1>0 DEF ClosedUnlessResent
<1>9. OneAccountPerEmail' /\ OrgHasAdmin'
  BY <1>0 DEF OneAccountPerEmail, OrgHasAdmin
<1> QED
  BY <1>1, <1>2, <1>3, <1>4, <1>5, <1>6, <1>7, <1>8, <1>9

\* A handler that goes on after a read that wrote nothing, to a label whose
\* obligations the read has established.
LEMMA ProceedKeeps ==
  ASSUME IInv, NEW r \in Reqs, NEW l \in Labels, Proceed(r, l), pc[r] # "ok", UNCHANGED call,
         LabelOK(r)',
         l \in {"insert", "org", "create", "commit", "myEmail", "rename", "renameOnly",
                "save", "ok"},
         l = "ok" => Kind(r) \in {"updateMe", "link"},
         l = "insert" => invs[r] = None,
         l = "create" => Kind(r) = "company",
         l \in {"create", "commit"} =>
            ~NameTaken(call[r].name) /\ ~NameHeld(r, call[r].name),
         l = "commit" => ~Taken(call[r].email) /\ ~EmailHeld(r, call[r].email),
         l \in {"myEmail", "rename", "renameOnly", "save"} => users[Of(r)] # None
  PROVE  IInv'
<1> USE DEF IInv, Proceed, Goto, Kind, Of
<1>0. /\ pc' = [pc EXCEPT ![r] = l] /\ pc \in [Reqs -> Labels]
      /\ UNCHANGED <<call, seen, invs, users, orgs, issued>>
  BY DEF TypeOK
<1> HIDE DEF Proceed, Goto
<1>1. TypeOK'
  BY <1>0 DEF TypeOK
<1>2. LocalOK'
  BY <1>0 DEF LocalOK, LabelOK
<1>3. InvitationsOK'
  BY <1>0 DEF InvitationsOK
<1>4. AccountsOK'
  BY <1>0 DEF AccountsOK
<1>5. TransactionsOK'
  <2>1. \A q \in Reqs : pc[q] = "commit" => Kind(q) = "company"
    BY DEF LocalOK, LabelOK
  <2>2. l = "commit" => Kind(r) = "company"
    BY <1>0 DEF LabelOK
  <2>3. (\A q \in Reqs : pc[q] = "commit" =>
           ~Taken(call[q].email) /\ ~EmailHeld(q, call[q].email))'
    BY <1>0, <2>1, <2>2 DEF TransactionsOK, Taken, EmailHeld
  <2>4. (\A q \in Reqs : Kind(q) = "company" /\ pc[q] \in {"create", "commit"} =>
           ~NameTaken(call[q].name) /\ ~NameHeld(q, call[q].name))'
    BY <1>0, <2>1, <2>2 DEF TransactionsOK, NameTaken, NameHeld
  <2>5. (\A q \in Reqs : orgs[q] # None => Kind(q) = "company" /\ pc[q] = "ok")'
    BY <1>0 DEF TransactionsOK
  <2> QED
    BY <2>3, <2>4, <2>5 DEF TransactionsOK
<1>6. HashesOK'
  BY <1>0 DEF HashesOK
<1>7. AcceptedHasAccount'
  BY <1>0 DEF AcceptedHasAccount
<1>8. ClosedUnlessResent'
  BY <1>0 DEF ClosedUnlessResent
<1>9. OneAccountPerEmail' /\ OrgHasAdmin'
  BY <1>0 DEF OneAccountPerEmail, OrgHasAdmin
<1> QED
  BY <1>1, <1>2, <1>3, <1>4, <1>5, <1>6, <1>7, <1>8, <1>9


\* The check for a pending invitation of the same email and organization.
LEMMA FindPendingKeeps ==
  ASSUME IInv, NEW r \in Reqs, FindPending(r), UNCHANGED call
  PROVE  IInv'
<1>1. CASE Refuse(r)
  BY <1>1, RefuseKeeps DEF FindPending
<1>2. CASE Proceed(r, "insert")
  <2>1. Kind(r) = "invite" /\ invs[r] = None
    BY DEF FindPending, IInv, LocalOK, LabelOK, InvitationsOK
  <2>2. LabelOK(r)'
    BY <1>2, <2>1 DEF Proceed, Goto, LabelOK, Kind, IInv, TypeOK
  <2> QED
    BY <1>2, <2>1, <2>2, ProceedKeeps DEF FindPending, Labels
<1> QED
  BY <1>1, <1>2 DEF FindPending

\* The check that the company name is free.
LEMMA FindOrgByNameKeeps ==
  ASSUME IInv, NEW r \in Reqs, FindOrgByName(r), UNCHANGED call
  PROVE  IInv'
<1>1. CASE Refuse(r)
  BY <1>1, RefuseKeeps DEF FindOrgByName
<1>2. CASE Proceed(r, "org")
  <2>1. LabelOK(r)'
    BY <1>2 DEF FindOrgByName, Proceed, Goto, LabelOK, Kind, IInv, TypeOK, LocalOK
  <2> QED
    BY <1>2, <2>1, ProceedKeeps DEF FindOrgByName, Labels
<1> QED
  BY <1>1, <1>2 DEF FindOrgByName

\* The insert of the organization in the transaction, which now holds the name.
LEMMA CreateOrgKeeps ==
  ASSUME IInv, NEW r \in Reqs, CreateOrg(r), UNCHANGED call
  PROVE  IInv'
<1>1. CASE Refuse(r)
  BY <1>1, RefuseKeeps DEF CreateOrg
<1>2. CASE ~(NameTaken(call[r].name) \/ NameHeld(r, call[r].name)) /\ Proceed(r, "create")
  <2>1. Kind(r) = "company"
    BY DEF CreateOrg, IInv, LocalOK, LabelOK
  <2>2. LabelOK(r)'
    BY <1>2, <2>1 DEF Proceed, Goto, LabelOK, Kind, IInv, TypeOK, Signing
  <2> QED
    BY <1>2, <2>1, <2>2, ProceedKeeps DEF CreateOrg, Labels
<1> QED
  BY <1>1, <1>2 DEF CreateOrg

\* The insert of the administrator in the transaction, which now holds the email.
LEMMA CreateAdminKeeps ==
  ASSUME IInv, NEW r \in Reqs, CreateAdmin(r), UNCHANGED call
  PROVE  IInv'
<1>1. CASE Refuse(r)
  BY <1>1, RefuseKeeps DEF CreateAdmin
<1>2. CASE ~(Taken(call[r].email) \/ EmailHeld(r, call[r].email)) /\ Proceed(r, "commit")
  <2>1. ~NameTaken(call[r].name) /\ ~NameHeld(r, call[r].name)
    BY DEF CreateAdmin, IInv, TransactionsOK
  <2>2. LabelOK(r)'
    BY <1>2 DEF CreateAdmin, Proceed, Goto, LabelOK, Kind, IInv, TypeOK
  <2> QED
    BY <1>2, <2>1, <2>2, ProceedKeeps DEF CreateAdmin, Labels
<1> QED
  BY <1>1, <1>2 DEF CreateAdmin

\* The read of the user a profile update is about.
LEMMA FindMeKeeps ==
  ASSUME IInv, NEW r \in Reqs, FindMe(r), UNCHANGED call
  PROVE  IInv'
<1>1. CASE Refuse(r)
  BY <1>1, RefuseKeeps DEF FindMe
<1>2. ASSUME NEW l \in {"ok", "renameOnly", "myEmail"}, Proceed(r, l), users[Of(r)] # None,
             l = "renameOnly" => call[r].name # None,
             l = "myEmail" => call[r].email # None
      PROVE  IInv'
  <2>1. Kind(r) = "updateMe"
    BY DEF FindMe, IInv, LocalOK, LabelOK
  <2>2. LabelOK(r)'
    BY <1>2, <2>1 DEF Proceed, Goto, LabelOK, Kind, IInv, TypeOK
  <2> QED
    BY <1>2, <2>1, <2>2, ProceedKeeps DEF FindMe, Labels
<1> QED
  BY <1>1, <1>2 DEF FindMe, AfterMe

\* The check that the new email of a profile is free.
LEMMA FindEmailForMeKeeps ==
  ASSUME IInv, NEW r \in Reqs, FindEmailForMe(r), UNCHANGED call
  PROVE  IInv'
<1>1. CASE Refuse(r)
  BY <1>1, RefuseKeeps DEF FindEmailForMe
<1>2. ASSUME NEW l \in {"save", "rename"}, Proceed(r, l),
             l = "rename" => call[r].name # None
      PROVE  IInv'
  <2>1. Kind(r) = "updateMe" /\ call[r].email # None /\ users[Of(r)] # None
    BY DEF FindEmailForMe, IInv, LocalOK, LabelOK, AccountsOK
  <2>2. LabelOK(r)'
    BY <1>2, <2>1 DEF Proceed, Goto, LabelOK, Kind, IInv, TypeOK
  <2> QED
    BY <1>2, <2>1, <2>2, ProceedKeeps DEF FindEmailForMe, Labels
<1> QED
  BY <1>1, <1>2 DEF FindEmailForMe

\* The first read of a request that names a new email.  A link is also handed
\* out, which no part of the invariant but its type looks at.
LEMMA FindUserByEmailKeeps ==
  ASSUME IInv, NEW r \in Reqs, FindUserByEmail(r), UNCHANGED call
  PROVE  IInv'
<1>1. CASE Refuse(r)
  BY <1>1, RefuseKeeps DEF FindUserByEmail
<1>2. CASE ~Refuse(r)
  <2>1. Kind(r) \in Signing \union {"invite", "link"} /\ pc[r] = "email"
    BY DEF FindUserByEmail, IInv, LocalOK, LabelOK
  <2>2. PICK l \in {"pending", "ok", "name", "create"} :
           /\ pc' = [pc EXCEPT ![r] = l]
           /\ l = "pending" => Kind(r) = "invite"
           /\ l = "ok" => Kind(r) = "link"
           /\ l = "name" => Kind(r) = "company"
           /\ l = "create" => Kind(r) \in Signing \ {"company"}
    BY <1>2, <2>1, Zenon DEF FindUserByEmail, AfterEmail, Goto, Signing
  <2>3. /\ issued' \subseteq Reqs /\ pc \in [Reqs -> Labels]
        /\ UNCHANGED <<call, seen, invs, users, orgs>>
    BY <1>2 DEF FindUserByEmail, IInv, TypeOK
  <2>4. l = "create" /\ Kind(r) = "joinLink" => Kind(Of(r)) = "link"
    BY DEF FindUserByEmail, TokenHeld
  <2> USE DEF IInv, Kind, Of
  <2>5. TypeOK'
    BY <2>2, <2>3 DEF TypeOK, Labels
  <2>6. LocalOK'
    BY <2>1, <2>2, <2>3, <2>4 DEF LocalOK, LabelOK, Signing
  <2>7. InvitationsOK'
    BY <2>1, <2>2, <2>3 DEF InvitationsOK, Signing
  <2>8. AccountsOK'
    BY <2>2, <2>3 DEF AccountsOK
  <2>9. TransactionsOK'
    BY <2>1, <2>2, <2>3 DEF TransactionsOK, Taken, EmailHeld, NameTaken, NameHeld
  <2>10. HashesOK'
    <3>1. \A q \in Reqs : pc'[q] # "ok" => pc[q] # "ok"
      BY <2>1, <2>2, <2>3
    <3>2. \A q \in Reqs : pc'[q] = "expire" => pc[q] = "expire"
      BY <2>2, <2>3
    <3> QED
      BY <3>1, <3>2, <2>3 DEF HashesOK
  <2>11. AcceptedHasAccount' /\ ClosedUnlessResent'
    BY <2>2, <2>3 DEF AcceptedHasAccount, ClosedUnlessResent
  <2>12. OneAccountPerEmail' /\ OrgHasAdmin'
    BY <2>3 DEF OneAccountPerEmail, OrgHasAdmin
  <2> QED
    BY <2>5, <2>6, <2>7, <2>8, <2>9, <2>10, <2>11, <2>12
<1> QED
  BY <1>1, <1>2

-----------------------------------------------------------------------------
(* Steps that rewrite one invitation. *)

\* Email, role and organization of an invitation never change, so whatever
\* else is rewritten, accounts and transactions are not concerned.
LEMMA InvitationFrame ==
  ASSUME IInv, NEW i \in Reqs, NEW doc \in Invitation, invs[i] # None,
         doc.role = invs[i].role, doc.org = invs[i].org,
         invs' = [invs EXCEPT ![i] = doc],
         NEW r \in Reqs, NEW l \in {"ok", "error"},
         pc' = [pc EXCEPT ![r] = l],
         pc[r] \in {"finalize", "resend", "revoke", "expire", "accept"},
         issued' \subseteq Reqs, UNCHANGED <<call, seen, users, orgs>>
  PROVE  /\ TypeOK' /\ LocalOK' /\ InvitationsOK' /\ AccountsOK' /\ TransactionsOK'
         /\ OneAccountPerEmail' /\ OrgHasAdmin'
<1> USE DEF IInv, Kind, Of
<1>0. /\ pc \in [Reqs -> Labels] /\ invs \in [Reqs -> Invitation \union {None}]
      /\ doc # None
      /\ \A j \in Reqs : invs'[j] # None <=> invs[j] # None
      /\ \A j \in Reqs : invs'[j].role = invs[j].role /\ invs'[j].org = invs[j].org
  BY NoneAssumption DEF TypeOK
<1>1. TypeOK'
  BY <1>0 DEF TypeOK, Labels
<1>2. LocalOK'
  BY <1>0 DEF LocalOK, LabelOK
<1>3. InvitationsOK'
  <2>1. Kind(r) \in Addressed => Of(r) \in Reqs
    BY CallTypes
  <2>2. pc[r] \in {"resend", "revoke", "expire", "accept"} => invs[Of(r)] # None
    BY DEF InvitationsOK
  <2>3. pc[r] = "finalize" => Kind(r) = "invite"
    BY DEF LocalOK, LabelOK
  <2>4. \A q \in Reqs : Kind(q) \in Addressed => Of(q) \in Reqs
    BY CallTypes
  <2>5. \A q \in Reqs : pc[q] \in {"resend", "revoke", "expire", "accept"}
                          => Kind(q) \in Addressed
    BY DEF LocalOK, LabelOK, Addressed
  <2> QED
    BY <1>0, <2>1, <2>2, <2>3, <2>4, <2>5 DEF InvitationsOK, Addressed
<1>4. AccountsOK'
  <2>1. \A q \in Reqs : pc[q] = "accept" => Of(q) \in Reqs
    BY CallTypes DEF LocalOK, LabelOK, Addressed
  <2> QED
    BY <1>0, <2>1 DEF AccountsOK
<1>5. TransactionsOK'
  BY <1>0 DEF TransactionsOK, Taken, EmailHeld, NameTaken, NameHeld
<1>6. OneAccountPerEmail' /\ OrgHasAdmin'
  BY DEF OneAccountPerEmail, OrgHasAdmin
<1> QED
  BY <1>1, <1>2, <1>3, <1>4, <1>5, <1>6

\* The invitation a handler has read is there, and typed.
LEMMA ReadIsThere ==
  ASSUME IInv, NEW r \in Reqs, pc[r] \in {"resend", "revoke", "expire", "accept"}
  PROVE  Of(r) \in Reqs /\ invs[Of(r)] \in Invitation /\ invs[Of(r)] # None
<1>1. Kind(r) \in Addressed
  BY DEF IInv, LocalOK, LabelOK, Addressed
<1>2. Of(r) \in Reqs
  BY <1>1, CallTypes DEF IInv
<1> QED
  BY <1>2 DEF IInv, InvitationsOK, TypeOK

\* A rewrite that keeps the hash and leaves a status other than PENDING:
\* revoke, expire and accept.
LEMMA CloseKeeps ==
  ASSUME IInv, NEW r \in Reqs, NEW st \in InvitationStatus \ {"PENDING"},
         pc[r] \in {"revoke", "expire", "accept"},
         st = "ACCEPTED" => pc[r] = "accept",
         \/ invs' = [invs EXCEPT ![Of(r)].status = st]
         \/ invs' = invs /\ pc[r] # "revoke" /\ invs[Of(r)].hash # seen[r],
         NEW l \in {"ok", "error"}, pc' = [pc EXCEPT ![r] = l],
         l = "ok" => pc[r] # "expire",
         UNCHANGED <<call, seen, users, orgs, issued>>
  PROVE  IInv'
<1> DEFINE i == Of(r)
           hit == invs' = [invs EXCEPT ![i].status = st]
           doc == IF hit THEN [invs[i] EXCEPT !.status = st] ELSE invs[i]
<1>1. i \in Reqs /\ invs[i] \in Invitation /\ invs[i] # None
  BY ReadIsThere
<1>2. /\ doc \in Invitation
      /\ doc.role = invs[i].role /\ doc.org = invs[i].org
      /\ doc.hash = invs[i].hash /\ doc.fresh = invs[i].fresh
      /\ doc.status \in {invs[i].status, st}
      /\ hit => doc.status = st
  BY <1>1 DEF Invitation
<1>10. hit \/ (invs[i].hash # seen[r] /\ pc[r] # "revoke")
  OBVIOUS
<1>3. invs' = [invs EXCEPT ![i] = doc] /\ invs \in [Reqs -> Invitation \union {None}]
  BY <1>1 DEF IInv, TypeOK
<1>4. issued' \subseteq Reqs /\ pc \in [Reqs -> Labels]
  BY DEF IInv, TypeOK
<1> HIDE DEF doc, hit
<1>5. /\ TypeOK' /\ LocalOK' /\ InvitationsOK' /\ AccountsOK' /\ TransactionsOK'
      /\ OneAccountPerEmail' /\ OrgHasAdmin'
  BY <1>1, <1>2, <1>3, <1>4, InvitationFrame
<1>6. /\ \A j \in Reqs : invs'[j] # None <=> invs[j] # None
      /\ \A j \in Reqs : /\ invs'[j].hash = invs[j].hash /\ invs'[j].fresh = invs[j].fresh
                         /\ invs'[j].role = invs[j].role /\ invs'[j].org = invs[j].org
      /\ \A j \in Reqs : invs'[j].status \in {invs[j].status, st}
      /\ \A j \in Reqs : j # i => invs'[j] = invs[j]
  <2>1. invs'[i] = doc /\ doc # None
    BY <1>1, <1>2, <1>3, NoneAssumption
  <2>2. \A j \in Reqs : j # i => invs'[j] = invs[j]
    BY <1>3
  <2>3. ASSUME NEW j \in Reqs
        PROVE  /\ invs'[j] # None <=> invs[j] # None
               /\ invs'[j].hash = invs[j].hash /\ invs'[j].fresh = invs[j].fresh
               /\ invs'[j].role = invs[j].role /\ invs'[j].org = invs[j].org
               /\ invs'[j].status \in {invs[j].status, st}
    <3>1. CASE j = i
      BY <1>1, <1>2, <2>1, <3>1
    <3>2. CASE j # i
      BY <2>2, <3>2
    <3> QED
      BY <3>1, <3>2
  <2> QED
    BY <2>2, <2>3
<1> USE DEF IInv, Kind, Of
<1>7. HashesOK'
  <2>1. \A q \in Reqs : pc'[q] = "expire" => pc[q] = "expire" /\ Of(q) \in Reqs
    BY <1>4, ReadIsThere
  <2>2. \A q \in Reqs : pc'[q] # "ok" => pc[q] # "ok"
    BY <1>4
  <2> QED
    BY <1>6, <2>1, <2>2 DEF HashesOK
<1>8. AcceptedHasAccount'
  <2>1. pc[r] = "accept" => Kind(r) = "accept" /\ users[r] # None
                            /\ users[r].role = invs[i].role /\ users[r].org = invs[i].org
    BY DEF LocalOK, LabelOK, AccountsOK
  <2> QED
    BY <1>1, <1>6, <2>1 DEF AcceptedHasAccount
<1>9. ClosedUnlessResent'
  <2>1. \A q \in Reqs : Kind(q) \in {"revoke", "accept"} => Of(q) \in Reqs
    BY CallTypes DEF Addressed
  <2>2. pc[r] = "revoke" => Kind(r) = "revoke"
    BY DEF LocalOK, LabelOK
  <2>3. pc[r] \in {"expire", "accept"} => Kind(r) # "revoke"
    BY DEF LocalOK, LabelOK
  <2>4. hit => invs'[i].status # "PENDING"
    BY <1>1, <1>2, <1>3
  <2>5. \A q \in Reqs : q # r => pc'[q] = pc[q]
    BY <1>4
  <2>6. ASSUME pc'[r] = "ok"
        PROVE  /\ Kind(r) = "revoke" => invs'[i].status # "PENDING"
               /\ Kind(r) = "accept" /\ invs'[i].hash = seen[r] => invs'[i].status # "PENDING"
    BY <2>2, <2>3, <2>4, <1>1, <1>10, <1>6
  <2> QED
    BY <1>6, <2>1, <2>5, <2>6 DEF ClosedUnlessResent
<1> QED
  BY <1>5, <1>7, <1>8, <1>9

\* revokeInvitation, by id.
LEMMA RevokeKeeps ==
  ASSUME IInv, NEW r \in Reqs, Revoke(r), UNCHANGED call
  PROVE  IInv'
<1>1. "REVOKED" \in InvitationStatus \ {"PENDING"} /\ "REVOKED" # "ACCEPTED"
  BY DEF InvitationStatus
<1>2. /\ pc[r] = "revoke" /\ pc' = [pc EXCEPT ![r] = "ok"]
      /\ invs' = [invs EXCEPT ![Of(r)].status = "REVOKED"]
      /\ UNCHANGED <<call, seen, users, orgs, issued>>
  BY DEF Revoke, Goto
<1> QED
  BY <1>1, <1>2, CloseKeeps, Zenon

\* The EXPIRED mark, by token hash.
LEMMA ExpireKeeps ==
  ASSUME IInv, NEW r \in Reqs, Expire(r), UNCHANGED call
  PROVE  IInv'
<1>1. Of(r) \in Reqs /\ invs \in [Reqs -> Invitation \union {None}]
  BY ReadIsThere DEF Expire, IInv, TypeOK
<1>2. \/ invs' = [invs EXCEPT ![Of(r)].status = "EXPIRED"]
      \/ invs' = invs /\ invs[Of(r)].hash # seen[r]
  BY <1>1 DEF Expire, UpdateInvitationByTokenHash
<1>3. "EXPIRED" \in InvitationStatus \ {"PENDING"}
  BY DEF InvitationStatus
<1>4. /\ pc[r] = "expire" /\ pc' = [pc EXCEPT ![r] = "error"]
      /\ UNCHANGED <<call, seen, users, orgs, issued>>
  BY DEF Expire, Goto
<1> QED
  BY <1>2, <1>3, <1>4, CloseKeeps, Zenon

\* The ACCEPTED mark, by token hash, once the account exists.
LEMMA MarkAcceptedKeeps ==
  ASSUME IInv, NEW r \in Reqs, MarkAccepted(r), UNCHANGED call
  PROVE  IInv'
<1>1. Of(r) \in Reqs /\ invs \in [Reqs -> Invitation \union {None}]
  BY ReadIsThere DEF MarkAccepted, IInv, TypeOK
<1>2. \/ invs' = [invs EXCEPT ![Of(r)].status = "ACCEPTED"]
      \/ invs' = invs /\ invs[Of(r)].hash # seen[r]
  BY <1>1 DEF MarkAccepted, UpdateInvitationByTokenHash
<1>3. "ACCEPTED" \in InvitationStatus \ {"PENDING"}
  BY DEF InvitationStatus
<1>4. /\ pc[r] = "accept" /\ pc' = [pc EXCEPT ![r] = "ok"]
      /\ UNCHANGED <<call, seen, users, orgs, issued>>
  BY DEF MarkAccepted, Goto
<1> QED
  BY <1>2, <1>3, <1>4, CloseKeeps, Zenon

\* A rewrite that gives an invitation a hash never used before: the final
\* token of an invite and the token of a resend.  No handler has seen the new
\* hash, so no handler is concerned by what the step does to the expiry.
LEMMA RehashKeeps ==
  ASSUME IInv, NEW r \in Reqs, NEW i \in Reqs, invs[i] # None,
         pc[r] \in {"finalize", "resend"},
         NEW doc \in Invitation,
         doc = invs[i] \/ doc.hash = <<r, "final">>,
         doc.role = invs[i].role, doc.org = invs[i].org, doc.status = invs[i].status,
         invs' = [invs EXCEPT ![i] = doc],
         pc' = [pc EXCEPT ![r] = "ok"],
         issued' \subseteq Reqs, UNCHANGED <<call, seen, users, orgs>>
  PROVE  IInv'
<1>1. /\ TypeOK' /\ LocalOK' /\ InvitationsOK' /\ AccountsOK' /\ TransactionsOK'
      /\ OneAccountPerEmail' /\ OrgHasAdmin'
  BY InvitationFrame
<1>2. pc \in [Reqs -> Labels] /\ invs \in [Reqs -> Invitation \union {None}]
  BY DEF IInv, TypeOK
<1>3. /\ invs'[i] = doc /\ doc # None
      /\ \A j \in Reqs : j # i => invs'[j] = invs[j]
      /\ \A q \in Reqs : q # r => pc'[q] = pc[q]
      /\ pc'[r] = "ok" /\ pc[r] # "ok"
  BY <1>2, NoneAssumption
<1>4. \A q \in Reqs : seen[q] # <<r, "final">>
  BY <1>3 DEF IInv, HashesOK
<1>5. \A j \in Reqs : invs'[j].hash = invs[j].hash => invs'[j] = invs[j]
  <2>1. invs[i].hash # <<r, "final">>
    BY <1>3 DEF IInv, HashesOK
  <2> QED
    BY <1>3, <2>1
<1> USE DEF IInv, Kind, Of
<1>6. HashesOK'
  <2>1. ASSUME NEW q \in Reqs, pc'[q] # "ok", NEW s \in Reqs
        PROVE  seen'[s] # <<q, "final">> /\ (invs'[s] # None => invs'[s].hash # <<q, "final">>)
    <3>1. q # r /\ pc[q] # "ok"
      BY <2>1, <1>3
    <3>2. <<r, "final">> # <<q, "final">>
      BY <3>1
    <3>3. seen[s] # <<q, "final">> /\ (invs[s] # None => invs[s].hash # <<q, "final">>)
      BY <3>1 DEF HashesOK
    <3> QED
      BY <1>3, <3>2, <3>3
  <2>2. ASSUME NEW q \in Reqs, pc'[q] = "expire", invs'[Of(q)].hash = seen[q]
        PROVE  ~invs'[Of(q)].fresh
    <3>1. pc[q] = "expire"
      BY <2>2, <1>3
    <3>2. Of(q) \in Reqs
      BY <3>1, ReadIsThere
    <3>3. invs'[Of(q)] = invs[Of(q)]
      BY <2>2, <3>2, <1>3, <1>4
    <3> QED
      BY <2>2, <3>1, <3>2, <3>3 DEF HashesOK
  <2> QED
    BY <2>1, <2>2 DEF HashesOK
<1>7. AcceptedHasAccount'
  BY <1>3 DEF AcceptedHasAccount
<1>8. ClosedUnlessResent'
  <2>1. \A q \in Reqs : Kind(q) \in {"revoke", "accept"} => Of(q) \in Reqs
    BY CallTypes DEF Addressed
  <2>2. Kind(r) \notin {"revoke", "accept"}
    BY DEF LocalOK, LabelOK
  <2>3. \A j \in Reqs : invs'[j].status = invs[j].status
    BY <1>3
  <2>4. \A q \in Reqs : \A j \in Reqs : invs'[j].hash = seen[q] => invs[j].hash = seen[q]
    BY <1>3, <1>4
  <2> QED
    BY <1>3, <2>1, <2>2, <2>3, <2>4 DEF ClosedUnlessResent
<1> QED
  BY <1>1, <1>6, <1>7, <1>8

\* The second token of an invite, the one that is mailed.
LEMMA FinalizeTokenKeeps ==
  ASSUME IInv, NEW r \in Reqs, FinalizeToken(r), UNCHANGED call
  PROVE  IInv'
<1> DEFINE doc == IF invs[r].hash = <<r, "draft">>
                  THEN [invs[r] EXCEPT !.hash = <<r, "final">>] ELSE invs[r]
<1>1. invs[r] \in Invitation /\ invs[r] # None /\ invs \in [Reqs -> Invitation \union {None}]
  BY DEF FinalizeToken, IInv, InvitationsOK, TypeOK
<1>2. /\ doc \in Invitation
      /\ doc = invs[r] \/ doc.hash = <<r, "final">>
      /\ doc.role = invs[r].role /\ doc.org = invs[r].org /\ doc.status = invs[r].status
  BY <1>1 DEF Invitation, Hashes
<1>3. invs' = [invs EXCEPT ![r] = doc] /\ issued' \subseteq Reqs
  BY <1>1 DEF FinalizeToken, UpdateInvitationByTokenHash, IInv, TypeOK
<1>4. /\ UNCHANGED <<call, seen, users, orgs>>
      /\ pc' = [pc EXCEPT ![r] = "ok"]
      /\ pc[r] \in {"finalize", "resend"}
  BY DEF FinalizeToken, Goto
<1> HIDE DEF doc
<1> QED
  BY <1>1, <1>2, <1>3, <1>4, RehashKeeps, Zenon

\* The new token and expiry of a resend.
LEMMA ResendKeeps ==
  ASSUME IInv, NEW r \in Reqs, Resend(r), UNCHANGED call
  PROVE  IInv'
<1> DEFINE i == Of(r)
           doc == IF invs[i].hash = seen[r]
                  THEN [invs[i] EXCEPT !.hash = <<r, "final">>, !.fresh = TRUE] ELSE invs[i]
<1>1. i \in Reqs /\ invs[i] \in Invitation /\ invs[i] # None
  BY ReadIsThere DEF Resend
<1>2. /\ doc \in Invitation
      /\ doc = invs[i] \/ doc.hash = <<r, "final">>
      /\ doc.role = invs[i].role /\ doc.org = invs[i].org /\ doc.status = invs[i].status
  BY <1>1 DEF Invitation, Hashes
<1>3. invs' = [invs EXCEPT ![i] = doc] /\ issued' \subseteq Reqs
  BY <1>1 DEF Resend, UpdateInvitationByTokenHash, IInv, TypeOK
<1>4. /\ UNCHANGED <<call, seen, users, orgs>>
      /\ pc' = [pc EXCEPT ![r] = "ok"]
      /\ pc[r] \in {"finalize", "resend"}
  BY DEF Resend, Goto
<1> HIDE DEF doc
<1> QED
  BY <1>1, <1>2, <1>3, <1>4, RehashKeeps, Zenon

\* 48 hours go by for one invitation.
LEMMA TimePassesKeeps ==
  ASSUME IInv, NEW i \in Reqs, TimePasses(i)
  PROVE  IInv'
<1> DEFINE doc == [invs[i] EXCEPT !.fresh = FALSE]
<1>1. /\ invs \in [Reqs -> Invitation \union {None}] /\ invs[i] \in Invitation
      /\ invs[i] # None /\ UNCHANGED <<call, pc, seen, users, orgs, issued>>
  BY DEF TimePasses, IInv, TypeOK
<1>2. /\ doc \in Invitation /\ doc.role = invs[i].role /\ doc.org = invs[i].org
      /\ doc.status = invs[i].status /\ doc.hash = invs[i].hash /\ ~doc.fresh
  BY <1>1 DEF Invitation
<1>3. invs' = [invs EXCEPT ![i] = doc] /\ doc # None
  BY <1>1, <1>2, NoneAssumption DEF TimePasses
<1> HIDE DEF doc
<1>4. /\ invs'[i] = doc
      /\ \A j \in Reqs : j # i => invs'[j] = invs[j]
  BY <1>1, <1>3
<1>5. ASSUME NEW j \in Reqs
      PROVE  /\ invs'[j] # None <=> invs[j] # None
             /\ invs'[j].role = invs[j].role /\ invs'[j].org = invs[j].org
             /\ invs'[j].status = invs[j].status /\ invs'[j].hash = invs[j].hash
             /\ ~invs[j].fresh => ~invs'[j].fresh
  <2>1. CASE j = i
    BY <2>1, <1>1, <1>2, <1>3, <1>4
  <2>2. CASE j # i
    BY <2>2, <1>4
  <2> QED
    BY <2>1, <2>2
<1> USE DEF IInv, Kind, Of
<1>6. \A q \in Reqs : Kind(q) \in Addressed => Of(q) \in Reqs
  BY CallTypes
<1>7. TypeOK'
  BY <1>1, <1>2, <1>3 DEF TypeOK
<1>8. LocalOK' /\ TransactionsOK' /\ OneAccountPerEmail' /\ OrgHasAdmin'
  BY <1>1 DEF LocalOK, LabelOK, TransactionsOK, Taken, EmailHeld, NameTaken, NameHeld,
             OneAccountPerEmail, OrgHasAdmin
<1>9. \A q \in Reqs : pc[q] \in {"resend", "revoke", "expire", "accept"}
                        => Kind(q) \in Addressed
  BY DEF LocalOK, LabelOK, Addressed
<1>10. InvitationsOK'
  BY <1>1, <1>5, <1>6, <1>9 DEF InvitationsOK, Addressed
<1>11. AccountsOK' /\ AcceptedHasAccount' /\ ClosedUnlessResent'
  BY <1>1, <1>5, <1>6, <1>9 DEF AccountsOK, AcceptedHasAccount, ClosedUnlessResent, Addressed
<1>12. HashesOK'
  BY <1>1, <1>5, <1>6, <1>9 DEF HashesOK
<1> QED
  BY <1>7, <1>8, <1>10, <1>11, <1>12

\* The insert of an invitation that nobody can refer to yet.
LEMMA InsertInvitationKeeps ==
  ASSUME IInv, NEW r \in Reqs, InsertInvitation(r), UNCHANGED call
  PROVE  IInv'
<1> DEFINE doc == [email |-> call[r].email, role |-> call[r].role, org |-> call[r].org,
                   status |-> "PENDING", hash |-> <<r, "draft">>, fresh |-> TRUE]
<1> USE DEF IInv, Kind, Of
<1>1. Kind(r) = "invite" /\ invs[r] = None /\ pc[r] = "insert"
  BY DEF InsertInvitation, LocalOK, LabelOK, InvitationsOK
<1>2. /\ pc \in [Reqs -> Labels] /\ invs \in [Reqs -> Invitation \union {None}]
      /\ pc' = [pc EXCEPT ![r] = "finalize"] /\ invs' = [invs EXCEPT ![r] = doc]
      /\ UNCHANGED <<call, seen, users, orgs, issued>>
  BY DEF InsertInvitation, Goto, TypeOK
<1>3. doc \in Invitation /\ doc # None
  <2>1. call[r].email \in Emails /\ call[r] \in Calls
    BY <1>1, CallTypes DEF Addressed
  <2>2. doc \in Invitation
    BY <2>1 DEF Invitation, Calls, Hashes, InvitationStatus
  <2> QED
    BY <2>2, NoneAssumption
<1>4. doc.hash = <<r, "draft">> /\ doc.status = "PENDING"
  OBVIOUS
<1> HIDE DEF doc
<1>5. /\ invs'[r] = doc /\ \A j \in Reqs : j # r => invs'[j] = invs[j]
      /\ pc'[r] = "finalize" /\ \A q \in Reqs : q # r => pc'[q] = pc[q]
  BY <1>2
<1>6. \A q \in Reqs : Kind(q) \in Addressed => Of(q) \in Reqs
  BY CallTypes
<1>7. \A q \in Reqs : pc[q] \in {"resend", "revoke", "expire", "accept"}
                        => Kind(q) \in Addressed /\ Of(q) # r
  BY <1>1 DEF LocalOK, LabelOK, Addressed, InvitationsOK
<1>8. TypeOK'
  BY <1>2, <1>3 DEF TypeOK, Labels
<1>9. LocalOK'
  BY <1>1, <1>2 DEF LocalOK, LabelOK
<1>10. InvitationsOK'
  BY <1>1, <1>2, <1>3, <1>5, <1>6, <1>7 DEF InvitationsOK, Addressed
<1>11. AccountsOK'
  BY <1>2, <1>5, <1>6, <1>7 DEF AccountsOK
<1>12. TransactionsOK' /\ OneAccountPerEmail' /\ OrgHasAdmin'
  BY <1>1, <1>2 DEF TransactionsOK, Taken, EmailHeld, NameTaken, NameHeld, OneAccountPerEmail,
                    OrgHasAdmin
<1>13. HashesOK'
  <2>1. \A q \in Reqs : doc.hash # <<q, "final">>
    BY <1>4
  <2>2. \A q \in Reqs : pc'[q] # "ok" => pc[q] # "ok"
    BY <1>1, <1>5
  <2>3. \A q \in Reqs : pc'[q] = "expire" => pc[q] = "expire" /\ invs'[Of(q)] = invs[Of(q)]
    BY <1>1, <1>5, <1>6, <1>7
  <2>4. \A q \in Reqs : pc'[q] # "ok" =>
          \A s \in Reqs : invs'[s] # None => invs'[s].hash # <<q, "final">>
    BY <1>5, <2>1, <2>2 DEF HashesOK
  <2> QED
    BY <1>2, <2>2, <2>3, <2>4 DEF HashesOK
<1>14. AcceptedHasAccount'
  BY <1>2, <1>4, <1>5 DEF AcceptedHasAccount
<1>15. ClosedUnlessResent'
  <2>1. \A q \in Reqs : pc[q] = "ok" /\ Kind(q) \in {"accept", "revoke"}
                          => Of(q) \in Reqs /\ Of(q) # r
    BY <1>1, <1>6 DEF InvitationsOK, Addressed
  <2> QED
    BY <1>2, <1>5, <2>1 DEF ClosedUnlessResent
<1> QED
  BY <1>8, <1>9, <1>10, <1>11, <1>12, <1>13, <1>14, <1>15

\* The read of an invitation: the hash it saw, and where the handler goes.
LEMMA ReadInvitationKeeps ==
  ASSUME IInv, NEW r \in Reqs, ReadInvitation(r), UNCHANGED call
  PROVE  IInv'
<1> DEFINE i == Of(r)
<1> USE DEF IInv, Kind
<1>1. pc[r] = "read" /\ Kind(r) \in {"resend", "revoke", "info", "accept"} /\ i \in Reqs
  <2>1. pc[r] = "read" /\ Kind(r) \in {"resend", "revoke", "info", "accept"}
    BY DEF ReadInvitation, LocalOK, LabelOK
  <2> QED
    BY <2>1, CallTypes DEF Addressed
<1>2. PICK l \in {"error", "revoke", "resend", "expire", "ok", "email"} :
         /\ pc' = [pc EXCEPT ![r] = l]
         /\ l # "error" => invs[i] # None
         /\ l \in {"revoke", "resend"} => Kind(r) = l
         /\ l = "expire" => Kind(r) \in {"info", "accept"} /\ ~invs[i].fresh
         /\ l = "ok" => Kind(r) = "info"
         /\ l = "email" => Kind(r) = "accept"
  BY <1>1 DEF ReadInvitation, AfterRead, Goto, Of
<1>3. /\ pc \in [Reqs -> Labels] /\ seen \in [Reqs -> Hashes \union {None}]
      /\ invs \in [Reqs -> Invitation \union {None}]
      /\ UNCHANGED <<call, invs, users, orgs, issued>>
      /\ seen' = [seen EXCEPT ![r] = IF invs[i] = None THEN None ELSE invs[i].hash]
  BY DEF ReadInvitation, TypeOK
<1>4. /\ \A q \in Reqs : q # r => pc'[q] = pc[q] /\ seen'[q] = seen[q]
      /\ pc'[r] = l /\ invs[i] # None => seen'[r] = invs[i].hash
      /\ invs[i] = None => seen'[r] = None
  BY <1>2, <1>3
<1> HIDE DEF i
<1>5. TypeOK'
  <2>1. invs[i] # None => invs[i].hash \in Hashes
    BY <1>1, <1>3 DEF Invitation
  <2> QED
    BY <1>2, <1>3, <2>1 DEF TypeOK, Labels
<1>6. LocalOK'
  BY <1>1, <1>2, <1>3, <1>4 DEF LocalOK, LabelOK, Of, Signing
<1>7. InvitationsOK'
  BY <1>1, <1>2, <1>3, <1>4 DEF InvitationsOK, Of, i
<1>8. AccountsOK'
  BY <1>2, <1>3, <1>4 DEF AccountsOK, Of
<1>9. TransactionsOK'
  BY <1>1, <1>2, <1>3, <1>4 DEF TransactionsOK, Taken, EmailHeld, NameTaken, NameHeld
<1>10. HashesOK'
  <2>1. \A q \in Reqs : pc'[q] # "ok" => pc[q] # "ok"
    BY <1>1, <1>4
  <2>2. \A q \in Reqs : None # <<q, "final">>
    BY NoneAssumption DEF Hashes
  <2>3. \A q \in Reqs : pc'[q] # "ok" =>
          \A s \in Reqs : seen'[s] # <<q, "final">>
    BY <1>1, <1>3, <1>4, <2>1, <2>2 DEF HashesOK
  <2>4. \A q \in Reqs : pc'[q] = "expire" /\ invs[Of(q)].hash = seen'[q] => ~invs[Of(q)].fresh
    BY <1>1, <1>2, <1>4 DEF HashesOK, i
  <2> QED
    BY <1>3, <2>1, <2>3, <2>4 DEF HashesOK, Of
<1>11. AcceptedHasAccount'
  BY <1>3 DEF AcceptedHasAccount, Of
<1>12. ClosedUnlessResent'
  BY <1>1, <1>2, <1>3, <1>4 DEF ClosedUnlessResent, Of
<1>13. OneAccountPerEmail' /\ OrgHasAdmin'
  BY <1>3 DEF OneAccountPerEmail, OrgHasAdmin
<1> QED
  BY <1>5, <1>6, <1>7, <1>8, <1>9, <1>10, <1>11, <1>12, <1>13

-----------------------------------------------------------------------------
(* Steps that write accounts and organizations. *)

\* The account a handler asks for is typed, and it is the administrator of the
\* new organization or a member under the invitation.
LEMMA WantedTypes ==
  ASSUME IInv, NEW r \in Reqs, pc[r] \in {"create", "commit"}
  PROVE  /\ Wanted(r) \in User /\ Wanted(r) # None
         /\ Kind(r) = "accept" => Wanted(r).role = invs[Of(r)].role
                                  /\ Wanted(r).org = invs[Of(r)].org
         /\ Kind(r) = "company" => Wanted(r).role = "ADMIN" /\ Wanted(r).org = r
                                   /\ Wanted(r).email = call[r].email
<1>1. Kind(r) \in Signing /\ (Kind(r) = "joinLink" => Kind(Of(r)) = "link")
  BY DEF IInv, LocalOK, LabelOK, Signing
<1>2. call[r] \in Calls /\ (Kind(r) \in Addressed => Of(r) \in Reqs)
      /\ (Kind(r) \notin Addressed => call[r].email \in Emails)
  BY CallTypes DEF IInv
<1>3. CASE Kind(r) = "accept"
  <2>1. Of(r) \in Reqs /\ invs[Of(r)] \in Invitation
    <3>1. Of(r) \in Reqs
      BY <1>2, <1>3 DEF Addressed
    <3>2. pc[r] = "create"
      BY <1>3 DEF IInv, LocalOK, LabelOK
    <3>3. invs[Of(r)] # None
      BY <1>3, <3>2 DEF IInv, InvitationsOK
    <3> QED
      BY <3>1, <3>3 DEF IInv, TypeOK
  <2>2. Wanted(r) = [email |-> invs[Of(r)].email, role |-> invs[Of(r)].role,
                     org |-> invs[Of(r)].org, deleted |-> FALSE]
    BY <1>3, Zenon DEF Wanted
  <2>3. Wanted(r) \in User
    BY <2>1, <2>2 DEF User, Invitation
  <2>4. Wanted(r) # None
    BY <2>3, NoneAssumption
  <2>5. Wanted(r).role = invs[Of(r)].role /\ Wanted(r).org = invs[Of(r)].org
    BY <2>2
  <2> QED
    BY <1>3, <2>3, <2>4, <2>5
<1>4. CASE Kind(r) = "joinLink"
  <2>1. Of(r) \in Reqs /\ Kind(Of(r)) = "link"
    BY <1>1, <1>2, <1>4 DEF Addressed
  <2>2. call[Of(r)] \in Calls /\ call[Of(r)].email \in Emails
    BY <2>1, CallTypes DEF IInv, Addressed
  <2>3. Wanted(r) = [email |-> call[Of(r)].email, role |-> call[Of(r)].role,
                     org |-> call[Of(r)].org, deleted |-> FALSE]
    BY <1>4, Zenon DEF Wanted
  <2>4. Wanted(r) \in User
    BY <2>2, <2>3 DEF User, Calls
  <2> QED
    BY <1>4, <2>4, NoneAssumption
<1>5. CASE Kind(r) \in {"signup", "register", "team", "company"}
  <2>1. call[r].email \in Emails
    BY <1>2, <1>5 DEF Addressed
  <2>2. PICK ro \in Roles, o \in OrgIds :
           /\ Wanted(r) = [email |-> call[r].email, role |-> ro, org |-> o, deleted |-> FALSE]
           /\ Kind(r) = "company" => ro = "ADMIN" /\ o = r
    <3>1. CASE Kind(r) = "signup"
      <4>1. Wanted(r) = [email |-> call[r].email, role |-> "VIEWER", org |-> call[r].org,
                         deleted |-> FALSE]
        BY <3>1, Zenon DEF Wanted
      <4> QED
        BY <1>2, <3>1, <4>1 DEF Calls, Roles
    <3>2. CASE Kind(r) = "company"
      <4>1. Wanted(r) = [email |-> call[r].email, role |-> "ADMIN", org |-> r,
                         deleted |-> FALSE]
        BY <3>2, Zenon DEF Wanted
      <4> QED
        BY <3>2, <4>1 DEF Roles, OrgIds
    <3>3. CASE Kind(r) \in {"register", "team"}
      <4>1. Wanted(r) = [email |-> call[r].email, role |-> call[r].role, org |-> call[r].org,
                         deleted |-> FALSE]
        BY <3>3, Zenon DEF Wanted
      <4> QED
        BY <1>2, <3>3, <4>1 DEF Calls
    <3> QED
      BY <1>5, <3>1, <3>2, <3>3
  <2>3. Wanted(r) \in User
    BY <2>1, <2>2 DEF User
  <2>4. Wanted(r) # None
    BY <2>3, NoneAssumption
  <2>5. Wanted(r).role = ro /\ Wanted(r).org = o /\ Wanted(r).email = call[r].email
    BY <2>2
  <2> QED
    BY <1>5, <2>2, <2>3, <2>4, <2>5
<1> QED
  BY <1>1, <1>3, <1>4, <1>5 DEF Signing

\* The unique index keeps emails apart, and the wait for open transactions
\* keeps their keys free.
LEMMA CreateUserKeeps ==
  ASSUME IInv, NEW r \in Reqs, CreateUser(r), UNCHANGED call
  PROVE  IInv'
<1> DEFINE w == Wanted(r)
<1>1. CASE Refuse(r)
  BY <1>1, RefuseKeeps DEF CreateUser
<1>2. CASE ~Refuse(r)
  <2> USE DEF IInv, Kind, Of
  <2>1. /\ w \in User /\ w # None
        /\ Kind(r) = "accept" => w.role = invs[Of(r)].role /\ w.org = invs[Of(r)].org
    BY WantedTypes DEF CreateUser
  <2>2. PICK l \in {"accept", "ok"} :
           /\ pc' = [pc EXCEPT ![r] = l]
           /\ l = "accept" <=> Kind(r) = "accept"
    BY <1>2 DEF CreateUser, Goto
  <2>3. /\ pc[r] = "create" /\ Kind(r) # "company"
        /\ ~EmailHeld(r, w.email) /\ ~Taken(w.email)
        /\ users' = [users EXCEPT ![r] = w]
        /\ UNCHANGED <<call, seen, invs, orgs, issued>>
    BY <1>2 DEF CreateUser
  <2>4. Kind(r) \in Signing /\ Kind(r) # "updateMe" /\ Kind(r) # "revoke"
    BY <2>3 DEF LocalOK, LabelOK, Signing
  <2>5. /\ pc \in [Reqs -> Labels] /\ users \in [Reqs -> User \union {None}]
    BY DEF TypeOK
  <2> HIDE DEF w
  <2>6. /\ users'[r] = w /\ \A u \in Reqs : u # r => users'[u] = users[u]
        /\ pc'[r] = l /\ \A q \in Reqs : q # r => pc'[q] = pc[q]
    BY <2>2, <2>3, <2>5
  <2>7. TypeOK'
    BY <2>1, <2>2, <2>3 DEF TypeOK, Labels
  <2>8. LocalOK'
    BY <2>2, <2>3, <2>6 DEF LocalOK, LabelOK
  <2>9. InvitationsOK'
    BY <2>2, <2>3, <2>4, <2>6 DEF InvitationsOK
  <2>10. AccountsOK'
    BY <2>1, <2>2, <2>3, <2>6 DEF AccountsOK
  <2>11. TransactionsOK'
    <3>1. (\A q \in Reqs : pc[q] = "commit" =>
             ~Taken(call[q].email) /\ ~EmailHeld(q, call[q].email))'
      <4>1. \A q \in Reqs : pc[q] = "commit" => call[q].email # w.email
        BY <2>3 DEF EmailHeld, LocalOK, LabelOK
      <4> QED
        BY <2>2, <2>3, <2>6, <4>1 DEF TransactionsOK, Taken, EmailHeld
    <3>2. (\A q \in Reqs : Kind(q) = "company" /\ pc[q] \in {"create", "commit"} =>
             ~NameTaken(call[q].name) /\ ~NameHeld(q, call[q].name))'
      BY <2>2, <2>3, <2>6 DEF TransactionsOK, NameTaken, NameHeld
    <3>3. (\A q \in Reqs : orgs[q] # None => Kind(q) = "company" /\ pc[q] = "ok")'
      BY <2>3, <2>6 DEF TransactionsOK
    <3> QED
      BY <3>1, <3>2, <3>3 DEF TransactionsOK
  <2>12. HashesOK'
    <3>1. \A q \in Reqs : /\ pc'[q] # "ok" => pc[q] # "ok"
                          /\ pc'[q] = "expire" => pc[q] = "expire"
      BY <2>2, <2>3, <2>6
    <3> QED
      BY <2>3, <3>1 DEF HashesOK
  <2>13. AcceptedHasAccount'
    BY <2>1, <2>3, <2>6 DEF AcceptedHasAccount
  <2>14. ClosedUnlessResent'
    BY <2>2, <2>3, <2>4, <2>6 DEF ClosedUnlessResent
  <2>15. OneAccountPerEmail'
    BY <2>3, <2>6 DEF OneAccountPerEmail, Taken
  <2>16. OrgHasAdmin'
    <3>1. orgs[r] = None
      BY <2>3 DEF TransactionsOK
    <3> QED
      BY <2>3, <2>6, <3>1 DEF OrgHasAdmin
  <2> QED
    BY <2>7, <2>8, <2>9, <2>10, <2>11, <2>12, <2>13, <2>14, <2>15, <2>16
<1> QED
  BY <1>1, <1>2

\* A rewrite of one existing account that keeps its role and organization: the
\* soft delete and the email change.
LEMMA AccountFrame ==
  ASSUME IInv, NEW r \in Reqs, NEW u \in Reqs, NEW doc \in User, users[u] # None,
         doc.role = users[u].role, doc.org = users[u].org,
         \A v \in Reqs : v # u /\ users[v] # None => users[v].email # doc.email,
         doc.email = users[u].email \/ ~EmailHeld(r, doc.email),
         users' = [users EXCEPT ![u] = doc],
         pc[r] \in {"delete", "save"}, pc' = [pc EXCEPT ![r] = "ok"],
         UNCHANGED <<call, seen, invs, orgs, issued>>
  PROVE  IInv'
<1> USE DEF IInv, Kind, Of
<1>1. /\ pc \in [Reqs -> Labels] /\ users \in [Reqs -> User \union {None}]
      /\ doc # None
  BY NoneAssumption DEF TypeOK
<1>2. /\ users'[u] = doc /\ \A v \in Reqs : v # u => users'[v] = users[v]
      /\ pc'[r] = "ok" /\ \A q \in Reqs : q # r => pc'[q] = pc[q]
  BY <1>1
<1>3. \A v \in Reqs : /\ users'[v] # None <=> users[v] # None
                      /\ users'[v].role = users[v].role /\ users'[v].org = users[v].org
  BY <1>1, <1>2
<1>4. Kind(r) \in {"delete", "updateMe"}
  BY DEF LocalOK, LabelOK
<1>5. TypeOK'
  BY <1>1 DEF TypeOK, Labels
<1>6. LocalOK'
  BY <1>1 DEF LocalOK, LabelOK
<1>7. InvitationsOK'
  BY <1>2, <1>4 DEF InvitationsOK
<1>8. AccountsOK'
  <2>1. \A q \in Reqs : pc[q] \in {"myEmail", "rename", "renameOnly", "save"} => Of(q) \in Reqs
    BY CallTypes DEF LocalOK, LabelOK, Addressed
  <2> QED
    BY <1>2, <1>3, <2>1 DEF AccountsOK
<1>9. TransactionsOK'
  <2>1. (\A q \in Reqs : pc[q] = "commit" =>
           ~Taken(call[q].email) /\ ~EmailHeld(q, call[q].email))'
    <3>1. \A q \in Reqs : pc[q] = "commit" => Kind(q) = "company"
      BY DEF LocalOK, LabelOK
    <3>2. \A q \in Reqs : pc[q] = "commit" => call[q].email # doc.email
      BY <3>1 DEF EmailHeld, TransactionsOK, Taken
    <3> QED
      BY <1>2, <1>3, <3>2 DEF TransactionsOK, Taken, EmailHeld
  <2>2. (\A q \in Reqs : Kind(q) = "company" /\ pc[q] \in {"create", "commit"} =>
           ~NameTaken(call[q].name) /\ ~NameHeld(q, call[q].name))'
    BY <1>2, <1>4 DEF TransactionsOK, NameTaken, NameHeld
  <2>3. (\A q \in Reqs : orgs[q] # None => Kind(q) = "company" /\ pc[q] = "ok")'
    BY <1>2 DEF TransactionsOK
  <2> QED
    BY <2>1, <2>2, <2>3 DEF TransactionsOK
<1>10. HashesOK'
  <2>1. \A q \in Reqs : /\ pc'[q] # "ok" => pc[q] # "ok"
                        /\ pc'[q] = "expire" => pc[q] = "expire"
    BY <1>2
  <2> QED
    BY <2>1 DEF HashesOK
<1>11. AcceptedHasAccount'
  BY <1>3 DEF AcceptedHasAccount
<1>12. ClosedUnlessResent'
  BY <1>2, <1>4 DEF ClosedUnlessResent
<1>13. OneAccountPerEmail'
  BY <1>2, <1>3 DEF OneAccountPerEmail
<1>14. OrgHasAdmin'
  BY <1>3 DEF OrgHasAdmin
<1> QED
  BY <1>5, <1>6, <1>7, <1>8, <1>9, <1>10, <1>11, <1>12, <1>13, <1>14

\* The soft delete of a user.
LEMMA DeleteUserKeeps ==
  ASSUME IInv, NEW r \in Reqs, DeleteUser(r), UNCHANGED call
  PROVE  IInv'
<1>1. CASE Refuse(r)
  BY <1>1, RefuseKeeps DEF DeleteUser
<1>2. CASE ~Refuse(r)
  <2> DEFINE u == Of(r)
             doc == [users[u] EXCEPT !.deleted = TRUE]
  <2>1. u \in Reqs /\ pc[r] = "delete"
    BY CallTypes DEF DeleteUser, IInv, LocalOK, LabelOK, Addressed
  <2>2. /\ users[u] # None /\ users[u] \in User
        /\ users' = [users EXCEPT ![u] = doc] /\ pc' = [pc EXCEPT ![r] = "ok"]
        /\ UNCHANGED <<seen, invs, orgs, issued>>
    BY <1>2, <2>1 DEF DeleteUser, Goto, IInv, TypeOK
  <2>3. /\ doc \in User /\ doc.role = users[u].role /\ doc.org = users[u].org
        /\ doc.email = users[u].email
    BY <2>2 DEF User
  <2> HIDE DEF doc
  <2>4. \A v \in Reqs : v # u /\ users[v] # None => users[v].email # doc.email
    BY <2>1, <2>2, <2>3 DEF IInv, OneAccountPerEmail
  <2> QED
    BY <2>1, <2>2, <2>3, <2>4, AccountFrame
<1> QED
  BY <1>1, <1>2

\* The save of a profile with a new email.
LEMMA SaveMeKeeps ==
  ASSUME IInv, NEW r \in Reqs, SaveMe(r), UNCHANGED call
  PROVE  IInv'
<1>1. CASE Refuse(r)
  BY <1>1, RefuseKeeps DEF SaveMe
<1>2. CASE ~Refuse(r)
  <2> DEFINE u == Of(r)
             doc == [users[u] EXCEPT !.email = call[r].email]
  <2>1. u \in Reqs /\ pc[r] = "save" /\ users[u] # None /\ users[u] \in User
    <3>1. u \in Reqs /\ pc[r] = "save"
      BY CallTypes DEF SaveMe, IInv, LocalOK, LabelOK, Addressed
    <3> QED
      BY <3>1 DEF IInv, AccountsOK, TypeOK
  <2>2. call[r].email \in Emails
    BY <2>1, CallTypes DEF IInv, LocalOK, LabelOK, Calls
  <2>3. /\ users' = [users EXCEPT ![u] = doc] /\ pc' = [pc EXCEPT ![r] = "ok"]
        /\ UNCHANGED <<seen, invs, orgs, issued>>
        /\ ~EmailHeld(r, call[r].email)
        /\ \A v \in Reqs \ {u} : ~(users[v] # None /\ users[v].email = call[r].email)
    BY <1>2, <2>1 DEF SaveMe, Goto, IInv, TypeOK
  <2>4. /\ doc \in User /\ doc.role = users[u].role /\ doc.org = users[u].org
        /\ doc.email = call[r].email
    BY <2>1, <2>2 DEF User
  <2> HIDE DEF doc
  <2>5. \A v \in Reqs : v # u /\ users[v] # None => users[v].email # doc.email
    BY <2>3, <2>4
  <2>6. ~EmailHeld(r, doc.email)
    BY <2>3, <2>4
  <2> QED
    BY <2>1, <2>3, <2>4, <2>5, <2>6, AccountFrame
<1> QED
  BY <1>1, <1>2

\* The commit makes both documents visible at once; their keys were held.
LEMMA CommitKeeps ==
  ASSUME IInv, NEW r \in Reqs, Commit(r), UNCHANGED call
  PROVE  IInv'
<1> DEFINE w == Wanted(r)
           n == call[r].name
<1> USE DEF IInv, Kind, Of
<1>1. /\ pc[r] = "commit" /\ Kind(r) = "company"
      /\ pc' = [pc EXCEPT ![r] = "ok"]
      /\ orgs' = [orgs EXCEPT ![r] = n] /\ users' = [users EXCEPT ![r] = w]
      /\ UNCHANGED <<call, seen, invs, issued>>
  BY DEF Commit, Goto, LocalOK, LabelOK
<1>2. /\ w \in User /\ w # None /\ w.role = "ADMIN" /\ w.org = r
      /\ w.email = call[r].email
  BY <1>1, WantedTypes
<1>3. n \in Names /\ n # None
  BY <1>1, CallTypes, OnboardingAssumption
<1>4. /\ pc \in [Reqs -> Labels] /\ users \in [Reqs -> User \union {None}]
      /\ orgs \in [OrgIds -> Names \union {None}] /\ r \in OrgIds
  BY DEF TypeOK, OrgIds
<1>5. /\ ~Taken(w.email) /\ ~EmailHeld(r, w.email) /\ ~NameTaken(n) /\ ~NameHeld(r, n)
  BY <1>1, <1>2 DEF TransactionsOK
<1> HIDE DEF w, n
<1>6. /\ users'[r] = w /\ \A u \in Reqs : u # r => users'[u] = users[u]
      /\ orgs'[r] = n /\ \A o \in OrgIds : o # r => orgs'[o] = orgs[o]
      /\ pc'[r] = "ok" /\ \A q \in Reqs : q # r => pc'[q] = pc[q]
  BY <1>1, <1>4
<1>7. TypeOK'
  BY <1>1, <1>2, <1>3, <1>4 DEF TypeOK, Labels
<1>8. LocalOK'
  BY <1>1, <1>6 DEF LocalOK, LabelOK
<1>9. InvitationsOK'
  BY <1>1, <1>6 DEF InvitationsOK
<1>10. AccountsOK'
  <2>1. \A q \in Reqs : pc[q] \in {"myEmail", "rename", "renameOnly", "save"} => Of(q) \in Reqs
    BY CallTypes DEF LocalOK, LabelOK, Addressed
  <2> QED
    BY <1>1, <1>2, <1>6, <2>1 DEF AccountsOK
<1>11. TransactionsOK'
  <2>1. \A q \in Reqs : pc[q] = "commit" => Kind(q) = "company"
    BY DEF LocalOK, LabelOK
  <2>2. (\A q \in Reqs : pc[q] = "commit" =>
           ~Taken(call[q].email) /\ ~EmailHeld(q, call[q].email))'
    <3>1. \A q \in Reqs : q # r /\ pc[q] = "commit" => call[q].email # w.email
      BY <1>5, <2>1 DEF EmailHeld
    <3> QED
      BY <1>1, <1>6, <3>1 DEF TransactionsOK, Taken, EmailHeld
  <2>3. (\A q \in Reqs : Kind(q) = "company" /\ pc[q] \in {"create", "commit"} =>
           ~NameTaken(call[q].name) /\ ~NameHeld(q, call[q].name))'
    <3>1. \A q \in Reqs : q # r /\ Kind(q) = "company" /\ pc[q] \in {"create", "commit"}
                            => call[q].name # n
      BY <1>5 DEF NameHeld
    <3> QED
      BY <1>1, <1>6, <3>1 DEF TransactionsOK, NameTaken, NameHeld
  <2>4. (\A q \in Reqs : orgs[q] # None => Kind(q) = "company" /\ pc[q] = "ok")'
    BY <1>1, <1>6 DEF TransactionsOK, OrgIds
  <2> QED
    BY <2>2, <2>3, <2>4 DEF TransactionsOK
<1>12. HashesOK'
  <2>1. \A q \in Reqs : /\ pc'[q] # "ok" => pc[q] # "ok"
                        /\ pc'[q] = "expire" => pc[q] = "expire"
    BY <1>1, <1>6
  <2> QED
    BY <1>1, <2>1 DEF HashesOK
<1>13. AcceptedHasAccount'
  BY <1>1, <1>6 DEF AcceptedHasAccount
<1>14. ClosedUnlessResent'
  BY <1>1, <1>6 DEF ClosedUnlessResent
<1>15. OneAccountPerEmail'
  BY <1>5, <1>6 DEF OneAccountPerEmail, Taken
<1>16. OrgHasAdmin'
  <2>1. \A q \in Reqs : orgs'[q] # None => /\ users'[q] # None
                                           /\ users'[q].role = "ADMIN" /\ users'[q].org = q
    BY <1>2, <1>6 DEF OrgHasAdmin, OrgIds
  <2>2. \A o, p \in OrgIds : o # p /\ orgs'[o] # None => orgs'[o] # orgs'[p]
    BY <1>3, <1>5, <1>6 DEF OrgHasAdmin, NameTaken
  <2> QED
    BY <2>1, <2>2 DEF OrgHasAdmin
<1> QED
  BY <1>7, <1>8, <1>9, <1>10, <1>11, <1>12, <1>13, <1>14, <1>15, <1>16

\* A rename takes a name no other organization has and no transaction holds.
LEMMA RenameOrgKeeps ==
  ASSUME IInv, NEW r \in Reqs, RenameOrg(r), UNCHANGED call
  PROVE  IInv'
<1> DEFINE o == users[Of(r)].org
           n == call[r].name
<1>1. CASE Refuse(r)
  BY <1>1, RefuseKeeps DEF RenameOrg
<1>2. CASE ~Refuse(r)
  <2>1. Of(r) \in Reqs /\ Kind(r) = "updateMe" /\ n # None /\ n \in Names
    <3>1. Kind(r) = "updateMe" /\ n # None
      BY DEF RenameOrg, IInv, LocalOK, LabelOK
    <3> QED
      BY <3>1, CallTypes DEF IInv, Addressed, Calls
  <2>2. o \in OrgIds /\ users[Of(r)] # None
    BY <2>1 DEF RenameOrg, IInv, AccountsOK, TypeOK, User
  <2>3. PICK l \in {"save", "ok"} :
           /\ pc' = [pc EXCEPT ![r] = l] /\ (l = "save" => pc[r] = "rename")
    BY <1>2 DEF RenameOrg, Goto
  <2>4. /\ pc[r] \in {"rename", "renameOnly"} /\ ~NameHeld(r, n)
        /\ \A p \in OrgIds \ {o} : orgs[p] # n
        /\ orgs' = IF orgs[o] = None THEN orgs ELSE [orgs EXCEPT ![o] = n]
        /\ UNCHANGED <<call, seen, invs, users, issued>>
    BY <1>2 DEF RenameOrg
  <2>5. pc \in [Reqs -> Labels] /\ orgs \in [OrgIds -> Names \union {None}]
    BY DEF IInv, TypeOK
  <2> HIDE DEF o, n
  <2>6. /\ orgs'[o] \in {orgs[o], n} /\ (orgs'[o] # None <=> orgs[o] # None)
        /\ orgs[o] = None => orgs' = orgs
        /\ \A p \in OrgIds : p # o => orgs'[p] = orgs[p]
        /\ pc'[r] = l /\ \A q \in Reqs : q # r => pc'[q] = pc[q]
    BY <2>1, <2>2, <2>3, <2>4, <2>5
  <2> USE DEF IInv, Kind
  <2>7. TypeOK'
    BY <2>1, <2>3, <2>4, <2>5 DEF TypeOK, Labels
  <2>8. LocalOK'
    BY <2>3, <2>4, <2>6 DEF LocalOK, LabelOK, Of
  <2>9. InvitationsOK' /\ AccountsOK'
    BY <2>1, <2>2, <2>3, <2>4, <2>6 DEF InvitationsOK, AccountsOK, Of
  <2>10. TransactionsOK'
    <3>1. (\A q \in Reqs : pc[q] = "commit" =>
             ~Taken(call[q].email) /\ ~EmailHeld(q, call[q].email))'
      BY <2>3, <2>4, <2>6 DEF TransactionsOK, Taken, EmailHeld
    <3>2. (\A q \in Reqs : Kind(q) = "company" /\ pc[q] \in {"create", "commit"} =>
             ~NameTaken(call[q].name) /\ ~NameHeld(q, call[q].name))'
      <4>1. \A q \in Reqs : Kind(q) = "company" /\ pc[q] \in {"create", "commit"}
                              => call[q].name # n
        BY <2>1, <2>4 DEF NameHeld
      <4> QED
        BY <2>1, <2>2, <2>3, <2>4, <2>6, <4>1 DEF TransactionsOK, NameTaken, NameHeld
    <3>3. (\A q \in Reqs : orgs[q] # None => Kind(q) = "company" /\ pc[q] = "ok")'
      BY <2>1, <2>4, <2>6 DEF TransactionsOK, OrgIds
    <3> QED
      BY <3>1, <3>2, <3>3 DEF TransactionsOK
  <2>11. HashesOK'
    <3>1. \A q \in Reqs : /\ pc'[q] # "ok" => pc[q] # "ok"
                          /\ pc'[q] = "expire" => pc[q] = "expire"
      BY <2>3, <2>4, <2>6
    <3> QED
      BY <2>4, <3>1 DEF HashesOK, Of
  <2>12. AcceptedHasAccount' /\ ClosedUnlessResent' /\ OneAccountPerEmail'
    BY <2>1, <2>4, <2>6 DEF AcceptedHasAccount, ClosedUnlessResent, OneAccountPerEmail, Of
  <2>13. OrgHasAdmin'
    <3>1. \A q \in Reqs : orgs'[q] # None => /\ users[q] # None
                                             /\ users[q].role = "ADMIN" /\ users[q].org = q
      BY <2>6 DEF OrgHasAdmin, OrgIds
    <3>2. \A p, q \in OrgIds : p # q /\ orgs'[p] # None => orgs'[p] # orgs'[q]
      BY <2>1, <2>2, <2>4, <2>6 DEF OrgHasAdmin
    <3> QED
      BY <2>4, <3>1, <3>2 DEF OrgHasAdmin
  <2> QED
    BY <2>7, <2>8, <2>9, <2>10, <2>11, <2>12, <2>13
<1> QED
  BY <1>1, <1>2

-----------------------------------------------------------------------------

\* The invariant holds before any request has taken a step.
LEMMA IInvInit == Init => IInv
<1> SUFFICES ASSUME Init PROVE IInv
  OBVIOUS
<1> USE DEF IInv, Init, Kind, Of
<1>1. /\ call \in Scripts /\ call \in [Reqs -> Calls]
      /\ invs = [r \in Reqs |-> None] /\ users = [r \in Reqs |-> None]
      /\ seen = [r \in Reqs |-> None] /\ issued = {}
      /\ orgs \in [OrgIds -> Names \union {None}]
      /\ \A r \in Reqs : orgs[r] = None
      /\ \A o, p \in OrgIds : orgs[o] # None /\ orgs[p] # None => o = p
  BY OnboardingAssumption DEF OrgIds
<1>2. ASSUME NEW r \in Reqs
      PROVE  /\ First(Kind(r)) \in {"read", "delete", "me", "email"}
             /\ First(Kind(r)) = "read" => Kind(r) \in {"resend", "revoke", "info", "accept"}
             /\ First(Kind(r)) = "delete" => Kind(r) = "delete"
             /\ First(Kind(r)) = "me" => Kind(r) = "updateMe"
             /\ First(Kind(r)) = "email"
                  => Kind(r) \in (Signing \union {"invite", "link"}) \ {"accept"}
  <2>1. Kind(r) \in Kinds
    BY <1>1 DEF Calls
  <2>2. CASE Kind(r) \in {"resend", "revoke", "info", "accept"}
    <3>1. First(Kind(r)) = "read"
      BY <2>2, Zenon DEF First
    <3> QED
      BY <2>2, <3>1
  <2>3. CASE Kind(r) = "delete"
    <3>1. First(Kind(r)) = "delete"
      BY <2>3, Zenon DEF First
    <3> QED
      BY <2>3, <3>1
  <2>4. CASE Kind(r) = "updateMe"
    <3>1. First(Kind(r)) = "me"
      BY <2>4, Zenon DEF First
    <3> QED
      BY <2>4, <3>1
  <2>5. CASE Kind(r) \notin {"resend", "revoke", "info", "accept", "delete", "updateMe"}
    <3>1. First(Kind(r)) = "email"
      BY <2>5, Zenon DEF First
    <3> QED
      BY <2>1, <2>5, <3>1 DEF Kinds, Signing
  <2> QED
    BY <2>2, <2>3, <2>4, <2>5
<1>3. /\ pc \in [Reqs -> Labels]
      /\ \A r \in Reqs : pc[r] = First(Kind(r))
  BY <1>2 DEF Labels
<1>4. \A r \in Reqs : pc[r] \in {"read", "delete", "me", "email"}
  BY <1>2, <1>3
<1> HIDE DEF Init
<1>5. TypeOK
  BY <1>1, <1>3 DEF TypeOK
<1>6. LocalOK
  BY <1>2, <1>3 DEF LocalOK, LabelOK
<1>7. InvitationsOK /\ AccountsOK
  BY <1>1, <1>2, <1>3, <1>4 DEF InvitationsOK, AccountsOK
<1>8. TransactionsOK
  BY <1>1, <1>4 DEF TransactionsOK
<1>9. HashesOK
  <2>1. \A q \in Reqs : None # <<q, "final">>
    BY NoneAssumption DEF Hashes
  <2> QED
    BY <1>1, <1>4, <2>1 DEF HashesOK
<1>10. AcceptedHasAccount /\ ClosedUnlessResent /\ OneAccountPerEmail /\ OrgHasAdmin
  BY <1>1, <1>4 DEF AcceptedHasAccount, ClosedUnlessResent, OneAccountPerEmail, OrgHasAdmin
<1> QED
  BY <1>5, <1>6, <1>7, <1>8, <1>9, <1>10

\* Every step of every handler preserves it.
LEMMA IInvNext == IInv /\ [Next]_vars => IInv'
<1> SUFFICES ASSUME IInv, [Next]_vars PROVE IInv'
  OBVIOUS
<1>1. CASE UNCHANGED vars
  BY <1>1 DEF vars, IInv, TypeOK, LocalOK, LabelOK, InvitationsOK, AccountsOK, TransactionsOK,
              HashesOK, AcceptedHasAccount, ClosedUnlessResent, OneAccountPerEmail, OrgHasAdmin,
              Taken, EmailHeld, NameTaken, NameHeld, Kind, Of
<1>2. ASSUME NEW r \in Reqs, Step(r) PROVE IInv'
  <2>1. CASE Fail(r)
    BY <1>2, <2>1, RefuseKeeps DEF Fail, Step
  <2> QED
    BY <1>2, <2>1, FindUserByEmailKeeps, CreateUserKeeps, DeleteUserKeeps, FindPendingKeeps,
       InsertInvitationKeeps, FinalizeTokenKeeps, ReadInvitationKeeps, ResendKeeps, RevokeKeeps,
       ExpireKeeps, MarkAcceptedKeeps, FindOrgByNameKeeps, CreateOrgKeeps, CreateAdminKeeps,
       CommitKeeps, FindMeKeeps, FindEmailForMeKeeps, RenameOrgKeeps, SaveMeKeeps, Zenon
       DEF Step
<1>3. ASSUME NEW r \in Reqs, TimePasses(r) PROVE IInv'
  BY <1>3, TimePassesKeeps
<1> QED
  BY <1>1, <1>2, <1>3 DEF Next

\* The inductive invariant holds in every reachable state, for any requests,
\* emails and names.
THEOREM Invariance == Spec => []IInv
  BY IInvInit, IInvNext, PTL DEF Spec

\* Accounts, invitations, organizations and handlers keep their types.
THEOREM TypeCorrect == Spec => []TypeOK
<1>1. IInv => TypeOK
  BY DEF IInv
<1> QED
  BY <1>1, Invariance, PTL

\* An ACCEPTED invitation was used: acceptInvitationWithPassword marks it only
\* after the account exists.
THEOREM AcceptSound == Spec => []AcceptedHasAccount
<1>1. IInv => AcceptedHasAccount
  BY DEF IInv
<1> QED
  BY <1>1, Invariance, PTL

\* A successful revoke, and a successful accept that no resend overtook, leave
\* an invitation that cannot be used again.
THEOREM CloseSound == Spec => []ClosedUnlessResent
<1>1. IInv => ClosedUnlessResent
  BY DEF IInv
<1> QED
  BY <1>1, Invariance, PTL

\* No two accounts share an email, whichever of the creating handlers race.
THEOREM EmailsUnique == Spec => []OneAccountPerEmail
<1>1. IInv => OneAccountPerEmail
  BY DEF IInv
<1> QED
  BY <1>1, Invariance, PTL

\* registerCompany leaves an organization and its administrator, or neither.
THEOREM CompanySound == Spec => []OrgHasAdmin
<1>1. IInv => OrgHasAdmin
  BY DEF IInv
<1> QED
  BY <1>1, Invariance, PTL

\* An invitation becomes EXPIRED only while its current expiry is past: the
\* update by token hash misses an invitation that was resent meanwhile.
THEOREM ExpireSound == Spec => ExpiredOnlyWhenDue
<1> DEFINE P == \A i \in Reqs : (/\ invs[i] # None
                                 /\ invs[i].status # "EXPIRED"
                                 /\ invs'[i].status = "EXPIRED") => ~invs[i].fresh
<1>1. IInv /\ [Next]_vars => [P]_vars
  <2> SUFFICES ASSUME IInv, [Next]_vars, NEW i \in Reqs, invs[i] # None,
                      invs[i].status # "EXPIRED", invs'[i].status = "EXPIRED"
               PROVE  ~invs[i].fresh
    OBVIOUS
  <2>0. invs \in [Reqs -> Invitation \union {None}]
    BY DEF IInv, TypeOK
  <2>1. CASE invs' = invs
    BY <2>1
  <2>2. ASSUME NEW r \in Reqs, Expire(r) PROVE ~invs[i].fresh
    <3>1. Of(r) \in Reqs
      BY <2>2, ReadIsThere DEF Expire
    <3>2. Of(r) = i /\ invs[i].hash = seen[r]
      BY <2>0, <2>2, <3>1 DEF Expire, UpdateInvitationByTokenHash
    <3> QED
      BY <2>2, <3>2 DEF Expire, IInv, HashesOK
  <2>3. ASSUME NEW r \in Reqs, MarkAccepted(r) PROVE FALSE
    BY <2>0, <2>3, ReadIsThere DEF MarkAccepted, UpdateInvitationByTokenHash
  <2>4. ASSUME NEW r \in Reqs, Revoke(r) PROVE FALSE
    BY <2>0, <2>4, ReadIsThere DEF Revoke
  <2>5. ASSUME NEW r \in Reqs, Resend(r) PROVE FALSE
    BY <2>0, <2>5, ReadIsThere DEF Resend, UpdateInvitationByTokenHash
  <2>6. ASSUME NEW r \in Reqs, FinalizeToken(r) PROVE FALSE
    BY <2>0, <2>6 DEF FinalizeToken, UpdateInvitationByTokenHash
  <2>7. ASSUME NEW r \in Reqs, InsertInvitation(r) PROVE FALSE
    BY <2>0, <2>7 DEF InsertInvitation
  <2>8. ASSUME NEW r \in Reqs, TimePasses(r) PROVE FALSE
    BY <2>0, <2>8 DEF TimePasses
  <2>9. ASSUME NEW r \in Reqs, Step(r) PROVE ~invs[i].fresh
    <3>1. \/ Expire(r) \/ MarkAccepted(r) \/ Revoke(r) \/ Resend(r) \/ FinalizeToken(r)
          \/ InsertInvitation(r) \/ invs' = invs
      BY <2>9 DEF Step, FindUserByEmail, CreateUser, DeleteUser, FindPending, ReadInvitation,
                  FindOrgByName, CreateOrg, CreateAdmin, Commit, FindMe, FindEmailForMe,
                  RenameOrg, SaveMe, Fail, Refuse, Proceed
    <3> QED
      BY <3>1, <2>1, <2>2, <2>3, <2>4, <2>5, <2>6, <2>7
  <2> QED
    BY <2>1, <2>8, <2>9 DEF Next, vars
<1> QED
  BY <1>1, Invariance, PTL DEF Spec, ExpiredOnlyWhenDue

=============================================================================
