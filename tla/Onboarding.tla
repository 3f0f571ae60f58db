----------------------------- MODULE Onboarding -----------------------------
(***************************************************************************)
(* How accounts and organizations come to exist: the stored invitations of *)
(* modules/invitations, the signed-link invitations and the team accounts  *)
(* of modules/users, and signup and company registration of modules/auth.  *)
(*                                                                         *)
(* Every operation is an async handler; it loses control at each await, so *)
(* each database call is one action and what a handler knows between two   *)
(* of them is its label pc[r] and the token hash seen[r] it read.  A step  *)
(* with no database call (permission checks, bcrypt, jwt) is folded into   *)
(* the call next to it.                                                    *)
(*                                                                         *)
(* A request creates at most one document of each kind, so the document is *)
(* named after the request: invs[r], users[r] and orgs[r] are what request *)
(* r inserted.  Mail is a side effect nobody waits for; that a token has   *)
(* been handed out is the set issued.                                      *)
(***************************************************************************)

CONSTANTS
    Reqs,    \* request identifiers
    Emails,  \* email addresses
    Names,   \* organization names
    Home,    \* an organization that exists from the start
    None,    \* the absence of a value
    Scripts  \* the inputs the requests may carry

Roles == {"SUPER_ADMIN", "ADMIN", "MANAGER", "DRIVER", "VIEWER", "CUSTOMER"}

OrgIds == Reqs \union {Home}

Kinds == {"invite", "resend", "revoke", "info", "accept", "link", "joinLink",
          "signup", "register", "team", "company", "delete", "updateMe"}

(* One request body with the caller's token: by and org are the caller's   *)
(* role and organization (for a signup, the organization of the body), of  *)
(* is the invitation, link or user the request is about.                   *)
Calls == [kind  : Kinds,
          email : Emails \union {None},
          role  : Roles,
          by    : Roles,
          of    : Reqs \union {None},
          org   : OrgIds,
          name  : Names \union {None}]

(* The kinds that are about a document named by the request.               *)
Addressed == {"resend", "revoke", "info", "accept", "joinLink", "delete", "updateMe"}

ASSUME OnboardingAssumption ==
    /\ Home \notin Reqs
    /\ None \notin Reqs \union {Home}
    /\ None \notin Emails \union Names
    /\ Scripts \subseteq [Reqs -> Calls]
    /\ \A f \in Scripts : \A r \in Reqs :
          /\ f[r].kind \in Addressed => f[r].of \in Reqs
          /\ f[r].kind \notin Addressed => f[r].email \in Emails
          /\ f[r].kind = "company" => f[r].name \in Names

VARIABLES
    call,    \* the input of each request
    pc,      \* where each handler is
    seen,    \* the token hash a handler read, None before
    invs,    \* the invitations collection
    users,   \* the users collection, soft-deleted documents included
    orgs,    \* the name of each organization, None when there is none
    issued   \* invitations and links whose token has been handed out

vars == <<call, pc, seen, invs, users, orgs, issued>>

InvitationStatus == {"PENDING", "ACCEPTED", "EXPIRED", "REVOKED"}

(* A token hash is unique (a random nonce, and a unique index): the draft  *)
(* and the final token of an invite, the token of a resend.                *)
Hashes == Reqs \X {"draft", "final"}

Invitation == [email : Emails, role : Roles, org : OrgIds,
               status : InvitationStatus, hash : Hashes, fresh : BOOLEAN]

User == [email : Emails, role : Roles, org : OrgIds, deleted : BOOLEAN]

ASSUME NoneAssumption == None \notin Invitation \union User \union Hashes

Labels == {"email", "pending", "insert", "finalize", "read", "resend", "revoke",
           "expire", "create", "accept", "name", "org", "commit", "delete", "me",
           "myEmail", "rename", "renameOnly", "save", "ok", "error"}

Kind(r) == call[r].kind
Of(r)   == call[r].of

First(k) == CASE k \in {"resend", "revoke", "info", "accept"} -> "read"
              [] k = "delete"   -> "delete"
              [] k = "updateMe" -> "me"
              [] OTHER          -> "email"

Init ==
    /\ call \in Scripts
    /\ pc = [r \in Reqs |-> First(call[r].kind)]
    /\ seen = [r \in Reqs |-> None]
    /\ invs = [r \in Reqs |-> None]
    /\ users = [r \in Reqs |-> None]
    /\ orgs \in {f \in [OrgIds -> Names \union {None}] :
                    \A o \in OrgIds : f[o] = None <=> o # Home}
    /\ issued = {}

-----------------------------------------------------------------------------
(* Ends of a handler and the shared reads. *)

Goto(r, label) == pc' = [pc EXCEPT ![r] = label]

Refuse(r) == Goto(r, "error") /\ UNCHANGED <<seen, invs, users, orgs, issued>>

Proceed(r, label) == Goto(r, label) /\ UNCHANGED <<seen, invs, users, orgs, issued>>

(* A query on users does not see soft-deleted documents... *)
Live(e) == \E u \in Reqs : users[u] # None /\ users[u].email = e /\ ~users[u].deleted

(* Mutant: a unique index over the live documents only. *)
TakenLive(e) == Live(e)

(* ...but the unique index on email holds them. *)
Taken(e) == \E u \in Reqs : users[u] # None /\ users[u].email = e

NameTaken(n) == \E o \in OrgIds : orgs[o] = n

(* Keys inserted by a company registration that has not committed yet: a   *)
(* plain write of such a key waits for the transaction to end, a write of  *)
(* another transaction is refused.                                         *)
EmailHeld(r, e) == \E q \in Reqs \ {r} :
    Kind(q) = "company" /\ pc[q] = "commit" /\ call[q].email = e

NameHeld(r, n) == \E q \in Reqs \ {r} :
    Kind(q) = "company" /\ pc[q] \in {"create", "commit"} /\ call[q].name = n

(* allowedByRole: the roles a caller may invite. *)
Invitable(by) == CASE by = "SUPER_ADMIN" -> Roles \ {"SUPER_ADMIN"}
                   [] by = "ADMIN" -> Roles \ {"SUPER_ADMIN", "ADMIN"}
                   [] OTHER -> {}

Permitted(r) ==
    /\ Kind(r) \in {"invite", "link"} => call[r].role \in Invitable(call[r].by)
    /\ Kind(r) = "register" => call[r].role # "SUPER_ADMIN"

(* A token is presented only after it was handed out, to the endpoint of   *)
(* its type; one that is past its own expiry ends the handler as Fail does.*)
TokenHeld(r) ==
    /\ Kind(r) \in {"info", "accept"} => Of(r) \in issued /\ Kind(Of(r)) = "invite"
    /\ Kind(r) = "joinLink" => Of(r) \in issued /\ Kind(Of(r)) = "link"

(* The account a request asks for. *)
Wanted(r) ==
    CASE Kind(r) = "accept"   -> [email |-> invs[Of(r)].email, role |-> invs[Of(r)].role,
                                  org |-> invs[Of(r)].org, deleted |-> FALSE]
      [] Kind(r) = "joinLink" -> [email |-> call[Of(r)].email, role |-> call[Of(r)].role,
                                  org |-> call[Of(r)].org, deleted |-> FALSE]
      [] Kind(r) = "signup"   -> [email |-> call[r].email, role |-> "VIEWER",
                                  org |-> call[r].org, deleted |-> FALSE]
      [] Kind(r) = "company"  -> [email |-> call[r].email, role |-> "ADMIN",
                                  org |-> r, deleted |-> FALSE]
      [] OTHER                -> [email |-> call[r].email, role |-> call[r].role,
                                  org |-> call[r].org, deleted |-> FALSE]

-----------------------------------------------------------------------------
(* Account creation: signup, registerUser, createTeamMember, the two ways  *)
(* to accept an invitation, and the first check of every other request     *)
(* that names a new email.                                                 *)

AfterEmail(k) == CASE k = "invite"  -> "pending"
                   [] k = "link"    -> "ok"
                   [] k = "company" -> "name"
                   [] OTHER         -> "create"

(* findUserByEmail before anything is written.  A link is signed and sent  *)
(* right after it.                                                         *)
FindUserByEmail(r) ==
    /\ pc[r] = "email"
    /\ TokenHeld(r)
    /\ IF ~Permitted(r) \/ Live(Wanted(r).email)
       THEN Refuse(r)
       ELSE /\ Goto(r, AfterEmail(Kind(r)))
            /\ issued' = IF Kind(r) = "link" THEN issued \union {r} ELSE issued
            /\ UNCHANGED <<seen, invs, users, orgs>>

(* Mutant: an accept that takes a duplicate key for its own earlier try.   *)
CreateUserIdempotent(r) ==
    /\ pc[r] = "create" /\ Kind(r) # "company"
    /\ ~EmailHeld(r, Wanted(r).email)
    /\ IF Taken(Wanted(r).email)
       THEN Proceed(r, IF Kind(r) = "accept" THEN "accept" ELSE "error")
       ELSE /\ users' = [users EXCEPT ![r] = Wanted(r)]
            /\ Goto(r, IF Kind(r) = "accept" THEN "accept" ELSE "ok")
            /\ UNCHANGED <<seen, invs, orgs, issued>>

(* UserModel.create outside a transaction: the unique index decides. *)
CreateUser(r) ==
    /\ pc[r] = "create" /\ Kind(r) # "company"
    /\ ~EmailHeld(r, Wanted(r).email)
    /\ IF Taken(Wanted(r).email)
       THEN Refuse(r)
       ELSE /\ users' = [users EXCEPT ![r] = Wanted(r)]
            /\ Goto(r, IF Kind(r) = "accept" THEN "accept" ELSE "ok")
            /\ UNCHANGED <<seen, invs, orgs, issued>>

(* Soft delete, by an administrator or by the user. *)
DeleteUser(r) ==
    /\ pc[r] = "delete"
    /\ IF users[Of(r)] = None \/ users[Of(r)].deleted
       THEN Refuse(r)
       ELSE /\ users' = [users EXCEPT ![Of(r)].deleted = TRUE]
            /\ Goto(r, "ok")
            /\ UNCHANGED <<seen, invs, orgs, issued>>

-----------------------------------------------------------------------------
(* Stored invitations. *)

(* findOneAndUpdate by token hash: it changes the invitation only while it *)
(* still carries the hash that was read.                                   *)
UpdateInvitationByTokenHash(i, h, doc) ==
    IF invs[i].hash = h THEN [invs EXCEPT ![i] = doc] ELSE invs

FindPending(r) ==
    /\ pc[r] = "pending"
    /\ IF \E i \in Reqs : /\ invs[i] # None
                          /\ invs[i].email = call[r].email
                          /\ invs[i].org = call[r].org
                          /\ invs[i].status = "PENDING"
       THEN Refuse(r)
       ELSE Proceed(r, "insert")

InsertInvitation(r) ==
    /\ pc[r] = "insert"
    /\ invs' = [invs EXCEPT ![r] =
                  [email |-> call[r].email, role |-> call[r].role, org |-> call[r].org,
                   status |-> "PENDING", hash |-> <<r, "draft">>, fresh |-> TRUE]]
    /\ Goto(r, "finalize")
    /\ UNCHANGED <<seen, users, orgs, issued>>

(* The token is signed again once the invitation has an id; the new token  *)
(* is handed out whether or not the update found its document.             *)
FinalizeToken(r) ==
    /\ pc[r] = "finalize"
    /\ invs' = UpdateInvitationByTokenHash(r, <<r, "draft">>,
                  [invs[r] EXCEPT !.hash = <<r, "final">>])
    /\ issued' = issued \union {r}
    /\ Goto(r, "ok")
    /\ UNCHANGED <<seen, users, orgs>>

(* What follows the read of invitation inv, error standing for the 400,    *)
(* 403 and 404 answers.                                                    *)
AfterRead(r, inv) ==
    IF \/ inv = None
       \/ Kind(r) \in {"resend", "revoke"} /\ inv.org # call[r].org
       \/ Kind(r) # "revoke" /\ inv.status # "PENDING"
    THEN "error"
    ELSE IF Kind(r) \in {"resend", "revoke"} THEN Kind(r)
    ELSE IF ~inv.fresh THEN "expire"
    ELSE IF Kind(r) = "info" THEN "ok" ELSE "email"

ReadInvitation(r) ==
    /\ pc[r] = "read"
    /\ TokenHeld(r)
    /\ Goto(r, AfterRead(r, invs[Of(r)]))
    /\ seen' = [seen EXCEPT ![r] = IF invs[Of(r)] = None THEN None ELSE invs[Of(r)].hash]
    /\ UNCHANGED <<invs, users, orgs, issued>>

(* Mutant: a resend that mails the same token and reopens the invitation.  *)
ResendReopens(r) ==
    /\ pc[r] = "resend"
    /\ invs' = UpdateInvitationByTokenHash(Of(r), seen[r],
                  [invs[Of(r)] EXCEPT !.status = "PENDING", !.fresh = TRUE])
    /\ issued' = issued \union {Of(r)}
    /\ Goto(r, "ok")
    /\ UNCHANGED <<seen, users, orgs>>

(* A new token and a new expiry; the status is not written. *)
Resend(r) ==
    /\ pc[r] = "resend"
    /\ invs' = UpdateInvitationByTokenHash(Of(r), seen[r],
                  [invs[Of(r)] EXCEPT !.hash = <<r, "final">>, !.fresh = TRUE])
    /\ issued' = issued \union {Of(r)}
    /\ Goto(r, "ok")
    /\ UNCHANGED <<seen, users, orgs>>

(* revokeInvitation updates by id, whatever the status is by now. *)
Revoke(r) ==
    /\ pc[r] = "revoke"
    /\ invs' = [invs EXCEPT ![Of(r)].status = "REVOKED"]
    /\ Goto(r, "ok")
    /\ UNCHANGED <<seen, users, orgs, issued>>

(* Mutant: the invitation is marked by its id. *)
ExpireById(r) ==
    /\ pc[r] = "expire"
    /\ invs' = [invs EXCEPT ![Of(r)].status = "EXPIRED"]
    /\ Goto(r, "error")
    /\ UNCHANGED <<seen, users, orgs, issued>>

Expire(r) ==
    /\ pc[r] = "expire"
    /\ invs' = UpdateInvitationByTokenHash(Of(r), seen[r],
                  [invs[Of(r)] EXCEPT !.status = "EXPIRED"])
    /\ Goto(r, "error")
    /\ UNCHANGED <<seen, users, orgs, issued>>

MarkAccepted(r) ==
    /\ pc[r] = "accept"
    /\ invs' = UpdateInvitationByTokenHash(Of(r), seen[r],
                  [invs[Of(r)] EXCEPT !.status = "ACCEPTED"])
    /\ Goto(r, "ok")
    /\ UNCHANGED <<seen, users, orgs, issued>>

(* INVITE_EXPIRY_SECONDS go by. *)
TimePasses(i) ==
    /\ invs[i] # None /\ invs[i].fresh
    /\ invs' = [invs EXCEPT ![i].fresh = FALSE]
    /\ UNCHANGED <<call, pc, seen, users, orgs, issued>>

-----------------------------------------------------------------------------
(* Company registration: the two inserts belong to one transaction, and    *)
(* nothing of it is visible before it commits.                             *)

FindOrgByName(r) ==
    /\ pc[r] = "name"
    /\ IF NameTaken(call[r].name) THEN Refuse(r) ELSE Proceed(r, "org")

(* Mutant: the organization is created without the session. *)
CreateOrgNoSession(r) ==
    /\ pc[r] = "org"
    /\ IF NameTaken(call[r].name)
       THEN Refuse(r)
       ELSE /\ orgs' = [orgs EXCEPT ![r] = call[r].name]
            /\ Goto(r, "create")
            /\ UNCHANGED <<seen, invs, users, issued>>

CreateOrg(r) ==
    /\ pc[r] = "org"
    /\ IF NameTaken(call[r].name) \/ NameHeld(r, call[r].name)
       THEN Refuse(r)
       ELSE Proceed(r, "create")

CreateAdmin(r) ==
    /\ pc[r] = "create" /\ Kind(r) = "company"
    /\ IF Taken(call[r].email) \/ EmailHeld(r, call[r].email)
       THEN Refuse(r)
       ELSE Proceed(r, "commit")

Commit(r) ==
    /\ pc[r] = "commit"
    /\ orgs' = [orgs EXCEPT ![r] = call[r].name]
    /\ users' = [users EXCEPT ![r] = Wanted(r)]
    /\ Goto(r, "ok")
    /\ UNCHANGED <<seen, invs, issued>>

-----------------------------------------------------------------------------
(* updateCurrentUser: a new email, a new company name, or both. *)

(* The rename comes after the email check and before the save. *)
AfterMe(r) == IF call[r].name = None THEN "ok" ELSE "renameOnly"

FindMe(r) ==
    /\ pc[r] = "me"
    /\ IF users[Of(r)] = None \/ users[Of(r)].deleted
       THEN Refuse(r)
       ELSE Proceed(r, IF call[r].email \in {None, users[Of(r)].email}
                       THEN AfterMe(r) ELSE "myEmail")

FindEmailForMe(r) ==
    /\ pc[r] = "myEmail"
    /\ IF Live(call[r].email)
       THEN Refuse(r)
       ELSE Proceed(r, IF call[r].name = None THEN "save" ELSE "rename")

(* The organization is renamed at once, and stays renamed if the save that *)
(* follows is refused.                                                     *)
RenameOrg(r) ==
    /\ pc[r] \in {"rename", "renameOnly"}
    /\ ~NameHeld(r, call[r].name)
    /\ LET o == users[Of(r)].org IN
       IF \/ users[Of(r)].role \notin {"ADMIN", "SUPER_ADMIN"}
          \/ \E p \in OrgIds \ {o} : orgs[p] = call[r].name
       THEN Refuse(r)
       ELSE /\ orgs' = IF orgs[o] = None THEN orgs ELSE [orgs EXCEPT ![o] = call[r].name]
            /\ Goto(r, IF pc[r] = "rename" THEN "save" ELSE "ok")
            /\ UNCHANGED <<seen, invs, users, issued>>

SaveMe(r) ==
    /\ pc[r] = "save"
    /\ ~EmailHeld(r, call[r].email)
    /\ IF \E u \in Reqs \ {Of(r)} : users[u] # None /\ users[u].email = call[r].email
       THEN Refuse(r)
       ELSE /\ users' = [users EXCEPT ![Of(r)].email = call[r].email]
            /\ Goto(r, "ok")
            /\ UNCHANGED <<seen, invs, orgs, issued>>

-----------------------------------------------------------------------------
(* A database call fails, its answer is lost or the process dies: the      *)
(* handler ends where it is, and an open transaction is aborted.           *)
Fail(r) ==
    /\ pc[r] \notin {"ok", "error"}
    /\ Refuse(r)

Step(r) ==
    /\ \/ FindUserByEmail(r) \/ CreateUser(r) \/ DeleteUser(r)
       \/ FindPending(r) \/ InsertInvitation(r) \/ FinalizeToken(r)
       \/ ReadInvitation(r) \/ Resend(r) \/ Revoke(r) \/ Expire(r) \/ MarkAccepted(r)
       \/ FindOrgByName(r) \/ CreateOrg(r) \/ CreateAdmin(r) \/ Commit(r)
       \/ FindMe(r) \/ FindEmailForMe(r) \/ RenameOrg(r) \/ SaveMe(r)
       \/ Fail(r)
    /\ UNCHANGED call

Next == \E r \in Reqs : Step(r) \/ TimePasses(r)

Spec == Init /\ [][Next]_vars

-----------------------------------------------------------------------------
(* Properties. *)

TypeOK ==
    /\ call \in Scripts
    /\ pc \in [Reqs -> Labels]
    /\ seen \in [Reqs -> Hashes \union {None}]
    /\ invs \in [Reqs -> Invitation \union {None}]
    /\ users \in [Reqs -> User \union {None}]
    /\ orgs \in [OrgIds -> Names \union {None}]
    /\ issued \subseteq Reqs

(* An invitation that says ACCEPTED was used: the account created from it  *)
(* exists, with the role and in the organization it was given for, however *)
(* accepts, resends, expiries and crashes interleave                       *)
(* (acceptInvitationWithPassword creates the user first and marks second). *)
AcceptedHasAccount ==
    \A i \in Reqs : (invs[i] # None /\ invs[i].status = "ACCEPTED") =>
        \E u \in Reqs : /\ Kind(u) = "accept" /\ Of(u) = i
                        /\ users[u] # None
                        /\ users[u].role = invs[i].role /\ users[u].org = invs[i].org

(* An accept or a revoke that was answered with success leaves an          *)
(* invitation nobody can use again; for the accept, unless a resend gave   *)
(* the invitation a new token hash after the accept had read it, in which  *)
(* case updateInvitationByTokenHash matched nothing.                       *)
ClosedUnlessResent ==
    \A r \in Reqs : pc[r] = "ok" =>
        /\ Kind(r) = "revoke" => invs[Of(r)].status # "PENDING"
        /\ Kind(r) = "accept" /\ invs[Of(r)].hash = seen[r]
              => invs[Of(r)].status # "PENDING"

(* No two accounts share an email, deleted ones included, though every     *)
(* creating handler checks first and inserts later, and company            *)
(* registrations insert in a transaction.                                  *)
OneAccountPerEmail ==
    \A u, v \in Reqs : (u # v /\ users[u] # None /\ users[v] # None)
                          => users[u].email # users[v].email

(* A self-registered organization always has the administrator it was      *)
(* registered with: registerCompany's transaction leaves both documents or *)
(* none, and no two organizations share a name.                            *)
OrgHasAdmin ==
    /\ \A r \in Reqs : orgs[r] # None => /\ users[r] # None
                                        /\ users[r].role = "ADMIN" /\ users[r].org = r
    /\ \A o, p \in OrgIds : (o # p /\ orgs[o] # None) => orgs[o] # orgs[p]

(* An invitation becomes EXPIRED only while its current expiry is past: a  *)
(* handler that found the old one past cannot expire an invitation that    *)
(* has been resent meanwhile.                                              *)
ExpiredOnlyWhenDue ==
    [][\A i \in Reqs : (/\ invs[i] # None
                        /\ invs[i].status # "EXPIRED"
                        /\ invs'[i].status = "EXPIRED") => ~invs[i].fresh]_vars

=============================================================================
