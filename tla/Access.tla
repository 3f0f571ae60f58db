------------------------------- MODULE Access -------------------------------
(***************************************************************************)
(* What lets a caller in, and what takes it away again: access tokens with *)
(* their blocklist and session records, passwords, the second factor and   *)
(* its backup codes, phone codes, API keys and the rate limiter.           *)
(*                                                                         *)
(* A request is an async handler that loses control at each await; an      *)
(* action is one database or Redis call with the synchronous code around   *)
(* it.  What a request creates (a token, a TOTP secret, a batch of backup  *)
(* codes, a phone code, an API key) is named after the request.            *)
(*                                                                         *)
(* Only token lifetimes are measured, in ticks of the clock now; phone     *)
(* codes, reset tokens and rate-limit windows are short beside them and    *)
(* end at any moment.                                                      *)
(***************************************************************************)
EXTENDS Integers, FiniteSets

CONSTANTS
    Reqs,       \* request identifiers
    Users,      \* accounts that exist
    Passwords,  \* plaintext passwords; the first hash of an account is of one of them
    Phones,     \* phone numbers
    TokenTTL,   \* TOKEN_TTL_SECONDS, which is also the refresh grace period
    Limit,      \* the limit of the rate limiter
    MaxNow,     \* bound: the clock stops here
    None,       \* the absence of a value
    Scripts     \* the inputs the requests may carry

Kinds == {"login", "refresh", "me", "logout", "revoke", "deleteMe", "changePw",
          "forgot", "reset", "setup2", "verify2", "disable2", "regen2", "consume",
          "sendOtp", "verifyOtp", "createKey", "revokeKey", "revokeById", "useKey",
          "limited", "none"}

(* The routes behind requireAuth; of is the bearer token they present.     *)
Guarded == {"me", "logout", "revoke", "deleteMe", "changePw", "setup2", "verify2",
            "disable2", "regen2", "sendOtp", "verifyOtp", "createKey", "revokeKey", "revokeById"}

(* One request: of is the token, link or key it presents, on the session,  *)
(* secret, code or key it is about, pw and new the passwords of its body.  *)
Calls == [kind : Kinds, user : Users, of : Reqs \union {None}, on : Reqs \union {None},
          pw : Passwords, new : Passwords, phone : Phones, slot : Nat]

ASSUME AccessAssumption ==
    /\ TokenTTL \in Nat \ {0} /\ Limit \in Nat \ {0} /\ MaxNow \in Nat
    /\ Scripts \subseteq [Reqs -> Calls]
    /\ None \notin Reqs \union Phones /\ None \notin Int
    /\ \A f \in Scripts : \A r \in Reqs :
          \* The account is the one the token was signed for, and a handler
          \* finds its bearer token, reset link or key in a request of its own kind.
          /\ f[r].kind \in Guarded \union {"refresh", "reset", "useKey"} =>
                f[r].of \in Reqs \ {r} /\ f[f[r].of].user = f[r].user
          /\ f[r].kind \in Guarded \union {"refresh"} =>
                f[f[r].of].kind \in {"login", "refresh"}
          /\ f[r].kind = "reset" => f[f[r].of].kind = "forgot"
          /\ f[r].kind = "useKey" => f[f[r].of].kind = "createKey"
          /\ f[r].kind = "verify2" => f[f[r].on].kind = "setup2"
          /\ f[r].kind \in {"revoke", "verify2", "consume", "verifyOtp", "revokeKey", "revokeById"} =>
                f[r].on \in Reqs

VARIABLES
    call,     \* the input of each request
    pc,       \* where each handler is
    seen,     \* the clock or the count it read
    list,     \* the backup codes it read
    now,      \* the clock
    iat,      \* when the token of a request was signed, None before
    blocked,  \* blocklist key of a token: the time it lasts to, 0 when never set
    sessions, \* tokens with a session record
    recorded, \* tokens that ever had one
    pw,       \* the password that User.passwordHash is a hash of
    deleted,  \* User.deletedAt is set
    totp,     \* totpSecret, totpEnabled and totpBackupCodes of a user
    used,     \* backup codes that were accepted
    otp,      \* the phone code stored for a user and phone
    phone,    \* the verified phone of a user
    keys,     \* API keys: None, or isActive
    hits,     \* the counter of the rate-limit key, None when there is no key
    timed,    \* the key has an expiry
    local,    \* the in-memory counter used when Redis fails
    torn      \* an increment ended before it set the expiry

authVars  == <<iat, blocked, sessions, recorded, pw, deleted>>
twoVars   == <<totp, used>>
otherVars == <<otp, phone, keys>>
rateVars  == <<hits, timed, local, torn>>
vars == <<call, pc, seen, list, now, authVars, twoVars, otherVars, rateVars>>

Kind(r) == call[r].kind
U(r)    == call[r].user
Tok(r)  == call[r].of

BackupCodeCount == 2    \* BACKUP_CODE_COUNT is 10
Codes == Reqs \X (1..BackupCodeCount)
Batch(r) == {r} \X (1..BackupCodeCount)

NoTotp == [secret |-> None, enabled |-> FALSE, codes |-> {}]

(* The first await of a handler behind its guard. *)
First(k) ==
    CASE k = "logout" -> "block"
      [] k \in {"me", "none"} -> "ok"
      [] k = "revoke" -> "session"
      [] k = "deleteMe" -> "delete"
      [] k = "sendOtp" -> "ttl"
      [] k = "verifyOtp" -> "code"
      [] k = "createKey" -> "create"
      [] k = "revokeKey" -> "list"
      [] k = "revokeById" -> "unset"
      [] k = "useKey" -> "match"
      [] k = "limited" -> "incr"
      [] k = "refresh" -> "check"
      [] k \in {"forgot", "reset"} -> k
      [] OTHER -> "find"

Init ==
    /\ call \in Scripts
    /\ pc = [r \in Reqs |-> IF call[r].kind \in Guarded THEN "auth" ELSE First(call[r].kind)]
    /\ seen = [r \in Reqs |-> 0]
    /\ list = [r \in Reqs |-> {}]
    /\ now = 0
    /\ iat = [r \in Reqs |-> None]
    /\ blocked = [r \in Reqs |-> 0]
    /\ sessions = {} /\ recorded = {}
    /\ pw \in [Users -> Passwords]
    /\ deleted = [u \in Users |-> FALSE]
    /\ totp = [u \in Users |-> NoTotp] /\ used = {}
    /\ otp = [k \in Users \X Phones |-> None]
    /\ phone = [u \in Users |-> None]
    /\ keys = [r \in Reqs |-> None]
    /\ hits = None /\ timed = FALSE /\ local = 0 /\ torn = FALSE

Goto(r, l) == pc' = [pc EXCEPT ![r] = l] /\ UNCHANGED call

Hold(r, v) == seen' = [seen EXCEPT ![r] = v]

-----------------------------------------------------------------------------
(* Tokens. *)

Exp(t) == iat[t] + TokenTTL

(* A token is presented once the request that signed it has answered.      *)
Presented(t) == iat[t] # None /\ pc[t] = "ok"

IsTokenBlocked(t) == blocked[t] > now

(* requireAuth: signature and expiry, then the blocklist. *)
RequireAuth(r) ==
    /\ pc[r] = "auth"
    /\ Presented(Tok(r))
    /\ IF now >= Exp(Tok(r)) \/ IsTokenBlocked(Tok(r))
       THEN Goto(r, "error")
       ELSE Goto(r, First(Kind(r)))
    /\ UNCHANGED <<seen, list, now, authVars, twoVars, otherVars, rateVars>>

(* bcrypt.compare of a password with the stored hash. *)
WrongPassword(r) == pw[U(r)] # call[r].pw

(* What makes each handler that starts from the account answer with an     *)
(* error: the second factor must be off to be set up, set up and off to be *)
(* verified (against the secret that is stored), on for the rest.          *)
LoginRefused(r)          == WrongPassword(r)
ChangePasswordRefused(r) == WrongPassword(r)
Setup2faRefused(r)       == totp[U(r)].enabled
Verify2faRefused(r)      == totp[U(r)].enabled \/ totp[U(r)].secret # call[r].on
Disable2faRefused(r)     == ~totp[U(r)].enabled \/ WrongPassword(r)
RegenerateRefused(r)     == ~totp[U(r)].enabled

(* The backup code a request presents. *)
Code(r) == <<call[r].on, call[r].slot>>

ConsumeRefused(r) == Code(r) \notin totp[U(r)].codes

Refused(r) ==
    \/ deleted[U(r)]
    \/ Kind(r) = "login" /\ LoginRefused(r)
    \/ Kind(r) = "changePw" /\ ChangePasswordRefused(r)
    \/ Kind(r) = "setup2" /\ Setup2faRefused(r)
    \/ Kind(r) = "verify2" /\ Verify2faRefused(r)
    \/ Kind(r) = "disable2" /\ Disable2faRefused(r)
    \/ Kind(r) = "regen2" /\ RegenerateRefused(r)
    \/ Kind(r) = "consume" /\ ConsumeRefused(r)

AfterFind(k) ==
    CASE k = "login" -> "mint"
      [] k \in {"changePw", "reset"} -> "save"
      [] OTHER -> "update"

(* findOne / findById, which do not see deleted accounts, and the checks.  *)
FindUser(r) ==
    /\ pc[r] = "find"
    /\ Kind(r) = "verify2" => pc[call[r].on] = "ok"
    /\ IF Refused(r)
       THEN Goto(r, "error") /\ UNCHANGED list
       ELSE /\ Goto(r, AfterFind(Kind(r)))
            /\ list' = IF Kind(r) = "consume" THEN [list EXCEPT ![r] = totp[U(r)].codes] ELSE list
    /\ UNCHANGED <<seen, now, authVars, twoVars, otherVars, rateVars>>

(* forgotPassword answers the same whether or not there is an account; the *)
(* link is in the mail when there is one.                                  *)
ForgotPassword(r) ==
    /\ pc[r] = "forgot"
    /\ Goto(r, IF deleted[U(r)] THEN "nolink" ELSE "ok")
    /\ UNCHANGED <<seen, list, now, authVars, twoVars, otherVars, rateVars>>

(* resetPassword with the link of a forgotPassword; an expired one ends    *)
(* the handler.                                                            *)
ResetPassword(r) ==
    /\ pc[r] = "reset"
    /\ pc[Tok(r)] = "ok"
    /\ \E l \in {IF deleted[U(r)] THEN "error" ELSE "save", "error"} : Goto(r, l)
    /\ UNCHANGED <<seen, list, now, authVars, twoVars, otherVars, rateVars>>

(* refreshToken up to the look-up of the user: an expired token will do, a *)
(* blocked one or one past the grace period will not.                      *)
CheckRefresh(r) ==
    /\ pc[r] = "check"
    /\ Presented(Tok(r))
    /\ IF IsTokenBlocked(Tok(r)) \/ now - iat[Tok(r)] > TokenTTL
       THEN Goto(r, "error") /\ UNCHANGED seen
       ELSE Goto(r, "owner") /\ Hold(r, now)
    /\ UNCHANGED <<list, now, authVars, twoVars, otherVars, rateVars>>

FindOwner(r) ==
    /\ pc[r] = "owner"
    /\ Goto(r, IF deleted[U(r)] THEN "error" ELSE "block")
    /\ UNCHANGED <<seen, list, now, authVars, twoVars, otherVars, rateVars>>

(* What blockToken is told: logout, changePassword and deleteCurrentUser   *)
(* give what is left of the token, a refresh adds the grace period to what *)
(* was left when it read the clock...                                      *)
RemainingTtl(r) == Exp(Tok(r)) - now
RefreshTtl(r) == TokenTTL + (IF Exp(Tok(r)) > seen[r] THEN Exp(Tok(r)) - seen[r] ELSE 0)

(* Mutant: a session's token is blocked for less than it may still live.   *)
RevokeTtlShort(r) == TokenTTL - 1

(* ...and a session revocation gives the whole life of a token. *)
RevokeTtl(r) == TokenTTL

BlockTtl(r) ==
    CASE Kind(r) = "refresh" -> RefreshTtl(r)
      [] Kind(r) = "revoke"  -> RevokeTtl(r)
      [] OTHER               -> RemainingTtl(r)

Revoked(r) == IF Kind(r) = "revoke" THEN call[r].on ELSE Tok(r)

(* SET with EX, replacing an earlier entry; nothing when no time is left. *)
BlockFor(t, ttl) == IF ttl > 0 THEN [blocked EXCEPT ![t] = now + ttl] ELSE blocked

(* blockToken.  changePassword and deleteCurrentUser succeed even when it  *)
(* fails; after it a refresh signs its token and a revocation deletes the  *)
(* record.                                                                 *)
BlockToken(r) ==
    /\ pc[r] = "block"
    /\ \/ blocked' = BlockFor(Revoked(r), BlockTtl(r))
       \/ Kind(r) \in {"changePw", "deleteMe"} /\ UNCHANGED blocked
    /\ Goto(r, CASE Kind(r) = "refresh" -> "mint"
                 [] Kind(r) = "revoke" -> "drop"
                 [] OTHER -> "ok")
    /\ UNCHANGED <<seen, list, now, iat, sessions, recorded, pw, deleted,
                   twoVars, otherVars, rateVars>>

(* createSession: a record for the token of a login; a failure is logged.  *)
CreateSession(r) ==
    \/ sessions' = sessions \union {r} /\ recorded' = recorded \union {r}
    \/ UNCHANGED <<sessions, recorded>>

(* generateToken, at the end of a login and of a refresh, which creates no *)
(* session record.                                                         *)
GenerateToken(r) ==
    /\ pc[r] = "mint"
    /\ iat' = [iat EXCEPT ![r] = now]
    /\ IF Kind(r) = "login" THEN CreateSession(r) ELSE UNCHANGED <<sessions, recorded>>
    /\ Goto(r, "ok")
    /\ UNCHANGED <<seen, list, now, blocked, pw, deleted, twoVars, otherVars, rateVars>>

(* listSessions *)
ListSessions(u) == {t \in sessions : U(t) = u}

(* Mutant: the record is deleted first and the token blocked second. *)
FindSessionDrops(r) ==
    /\ pc[r] = "session"
    /\ IF call[r].on \notin ListSessions(U(r))
       THEN Goto(r, "error") /\ UNCHANGED sessions
       ELSE Goto(r, "block") /\ sessions' = sessions \ {call[r].on}
    /\ UNCHANGED <<seen, list, now, iat, blocked, recorded, pw, deleted,
                   twoVars, otherVars, rateVars>>

(* revokeSession looks the record up (404) and compares the owner (403)... *)
FindSession(r) ==
    /\ pc[r] = "session"
    /\ Goto(r, IF call[r].on \in ListSessions(U(r)) THEN "block" ELSE "error")
    /\ UNCHANGED <<seen, list, now, authVars, twoVars, otherVars, rateVars>>

(* ...blocks the token, and then deletes the record. *)
DropSession(r) ==
    /\ pc[r] = "drop"
    /\ sessions' = sessions \ {call[r].on}
    /\ Goto(r, "ok")
    /\ UNCHANGED <<seen, list, now, iat, blocked, recorded, pw, deleted,
                   twoVars, otherVars, rateVars>>

(* The new hash is saved; a password change then blocks its own token, a   *)
(* reset only the reset token, which nothing looks at.                     *)
SavePassword(r) ==
    /\ pc[r] = "save"
    /\ pw' = [pw EXCEPT ![U(r)] = call[r].new]
    /\ Goto(r, IF Kind(r) = "changePw" THEN "block" ELSE "ok")
    /\ UNCHANGED <<seen, list, now, iat, blocked, sessions, recorded, deleted,
                   twoVars, otherVars, rateVars>>

DeleteCurrentUser(r) ==
    /\ pc[r] = "delete"
    /\ IF deleted[U(r)]
       THEN Goto(r, "error") /\ UNCHANGED deleted
       ELSE Goto(r, "block") /\ deleted' = [deleted EXCEPT ![U(r)] = TRUE]
    /\ UNCHANGED <<seen, list, now, iat, blocked, sessions, recorded, pw,
                   twoVars, otherVars, rateVars>>

-----------------------------------------------------------------------------
(* The second factor: each handler decided on what it read and now writes  *)
(* its fields whole.                                                       *)

Setup2fa(r)   == [totp[U(r)] EXCEPT !.secret = r]
Verify2fa(r)  == [totp[U(r)] EXCEPT !.enabled = TRUE, !.codes = Batch(r)]
Disable2fa(r) == NoTotp
RegenerateBackupCodes(r) == [totp[U(r)] EXCEPT !.codes = Batch(r)]

(* Mutant: the code after the used one is removed. *)
ConsumeBackupCodeNext(r) ==
    [totp[U(r)] EXCEPT !.codes = list[r] \ {<<call[r].on, call[r].slot + 1>>}]

(* The list as it was read, without the used code. *)
ConsumeBackupCode(r) == [totp[U(r)] EXCEPT !.codes = list[r] \ {Code(r)}]

Written(r) ==
    CASE Kind(r) = "setup2"   -> Setup2fa(r)
      [] Kind(r) = "verify2"  -> Verify2fa(r)
      [] Kind(r) = "disable2" -> Disable2fa(r)
      [] Kind(r) = "regen2"   -> RegenerateBackupCodes(r)
      [] OTHER                -> ConsumeBackupCode(r)

(* findByIdAndUpdate skips an account deleted meanwhile, and nobody looks. *)
UpdateTwoFactor(r) ==
    /\ pc[r] = "update"
    /\ totp' = IF deleted[U(r)] THEN totp ELSE [totp EXCEPT ![U(r)] = Written(r)]
    /\ used' = IF Kind(r) = "consume" THEN used \union {Code(r)} ELSE used
    /\ Goto(r, "ok")
    /\ UNCHANGED <<seen, list, now, authVars, otherVars, rateVars>>

-----------------------------------------------------------------------------
(* Phone codes: the Redis key of a user and phone holds the hash of the    *)
(* last code; fresh while less than a minute old.                          *)

Key(r) == <<U(r), call[r].phone>>

CheckOtpTtl(r) ==
    /\ pc[r] = "ttl"
    /\ Goto(r, IF otp[Key(r)] # None /\ otp[Key(r)].fresh THEN "error" ELSE "setex")
    /\ UNCHANGED <<seen, list, now, authVars, twoVars, otherVars, rateVars>>

(* The code is stored before it is sent, and stays when sending fails. *)
StoreOtp(r) ==
    /\ pc[r] = "setex"
    /\ otp' = [otp EXCEPT ![Key(r)] = [code |-> r, fresh |-> TRUE]]
    /\ \E l \in {"ok", "error"} : Goto(r, l)
    /\ UNCHANGED <<seen, list, now, authVars, twoVars, phone, keys, rateVars>>

ReadOtp(r) ==
    /\ pc[r] = "code"
    /\ Goto(r, IF otp[Key(r)] # None /\ otp[Key(r)].code = call[r].on THEN "verified" ELSE "error")
    /\ UNCHANGED <<seen, list, now, authVars, twoVars, otherVars, rateVars>>

MarkPhone(r) ==
    /\ pc[r] = "verified"
    /\ IF deleted[U(r)]
       THEN Goto(r, "error") /\ UNCHANGED phone
       ELSE Goto(r, "del") /\ phone' = [phone EXCEPT ![U(r)] = call[r].phone]
    /\ UNCHANGED <<seen, list, now, authVars, twoVars, otp, keys, rateVars>>

(* Whatever code the key holds by now. *)
DeleteOtp(r) ==
    /\ pc[r] = "del"
    /\ otp' = [otp EXCEPT ![Key(r)] = None]
    /\ Goto(r, "ok")
    /\ UNCHANGED <<seen, list, now, authVars, twoVars, phone, keys, rateVars>>

OtpAges(k) ==
    /\ otp[k] # None
    /\ otp' = [otp EXCEPT ![k] = IF @.fresh THEN [@ EXCEPT !.fresh = FALSE] ELSE None]
    /\ UNCHANGED <<call, pc, seen, list, now, authVars, twoVars, phone, keys, rateVars>>

-----------------------------------------------------------------------------
(* API keys; the caller's organization is its user's. *)

GenerateApiKey(r) ==
    /\ pc[r] = "create"
    /\ keys' = [keys EXCEPT ![r] = TRUE]
    /\ Goto(r, "ok")
    /\ UNCHANGED <<seen, list, now, authVars, twoVars, otp, phone, rateVars>>

ListApiKeys(u) == {k \in Reqs : keys[k] = TRUE /\ U(k) = u}

FindApiKey(r) ==
    /\ pc[r] = "list"
    /\ Goto(r, IF call[r].on \in ListApiKeys(U(r)) THEN "unset" ELSE "error")
    /\ UNCHANGED <<seen, list, now, authVars, twoVars, otherVars, rateVars>>

(* updateOne by id; the older route comes here without the look-up. *)
RevokeApiKey(r) ==
    /\ pc[r] = "unset"
    /\ IF keys[call[r].on] = None
       THEN Goto(r, "error") /\ UNCHANGED keys
       ELSE Goto(r, "ok") /\ keys' = [keys EXCEPT ![call[r].on] = FALSE]
    /\ UNCHANGED <<seen, list, now, authVars, twoVars, otp, phone, rateVars>>

(* The raw key is compared with the keys that are active when they are read. *)
ValidateApiKey(k) == keys[k] = TRUE

RequireApiKey(r) ==
    /\ pc[r] = "match"
    /\ pc[Tok(r)] = "ok"
    /\ Goto(r, IF ValidateApiKey(Tok(r)) THEN "ok" ELSE "error")
    /\ UNCHANGED <<seen, list, now, authVars, twoVars, otherVars, rateVars>>

-----------------------------------------------------------------------------
(* The rate limiter (loginLimiter: a request that succeeds is taken off    *)
(* the count again when its response is finished).                         *)

Value == IF hits = None THEN 0 ELSE hits

Decide(r, total) == Goto(r, IF total > Limit THEN "error" ELSE "serve")

(* Mutant: the expiry is set when the key was new. *)
IncrementIfNew(r) ==
    /\ pc[r] = "incr"
    /\ hits' = Value + 1 /\ Hold(r, Value + 1)
    /\ Goto(r, IF hits = None THEN "expire" ELSE "pttl")
    /\ UNCHANGED <<list, now, authVars, twoVars, otherVars, timed, local, torn>>

(* INCR, and EXPIRE when it returned 1. *)
Increment(r) ==
    /\ pc[r] = "incr"
    /\ hits' = Value + 1 /\ Hold(r, Value + 1)
    /\ Goto(r, IF Value + 1 = 1 THEN "expire" ELSE "pttl")
    /\ UNCHANGED <<list, now, authVars, twoVars, otherVars, timed, local, torn>>

SetExpiry(r) ==
    /\ pc[r] = "expire"
    /\ timed' = (hits # None)
    /\ Goto(r, "pttl")
    /\ UNCHANGED <<seen, list, now, authVars, twoVars, otherVars, hits, local, torn>>

ReadExpiry(r) ==
    /\ pc[r] = "pttl"
    /\ Decide(r, seen[r])
    /\ UNCHANGED <<seen, list, now, authVars, twoVars, otherVars, rateVars>>

(* A Redis error at any of the three calls: this request is counted in     *)
(* memory (again, when INCR had gone through).                             *)
IncrementFallback(r) ==
    /\ pc[r] \in {"incr", "expire", "pttl"}
    /\ local' = local + 1
    /\ Decide(r, local + 1)
    /\ torn' = (torn \/ pc[r] = "expire")
    /\ UNCHANGED <<seen, list, now, authVars, twoVars, otherVars, hits, timed>>

Serve(r) ==
    /\ pc[r] = "serve"
    /\ \E l \in {"decr", "error"} : Goto(r, l)
    /\ UNCHANGED <<seen, list, now, authVars, twoVars, otherVars, rateVars>>

(* DECR creates the key, at -1 and without expiry, when its window has     *)
(* ended meanwhile; on an error the in-memory count is lowered.            *)
Decrement(r) ==
    /\ pc[r] = "decr"
    /\ \/ hits' = Value - 1 /\ UNCHANGED local
       \/ local' = (IF local > 0 THEN local - 1 ELSE 0) /\ UNCHANGED hits
    /\ Goto(r, "ok")
    /\ UNCHANGED <<seen, list, now, authVars, twoVars, otherVars, timed, torn>>

WindowEnds ==
    /\ \/ timed /\ hits' = None /\ timed' = FALSE /\ UNCHANGED local
       \/ local > 0 /\ local' = 0 /\ UNCHANGED <<hits, timed>>
    /\ UNCHANGED <<call, pc, seen, list, now, authVars, twoVars, otherVars, torn>>

-----------------------------------------------------------------------------
(* An awaited call fails or the process dies: the handler ends where it    *)
(* is.  Before its first write that is the same as never getting there.    *)
Fail(r) ==
    /\ pc[r] \in {"block", "mint", "drop", "del", "expire"}
    /\ Goto(r, "error")
    /\ torn' = (torn \/ pc[r] = "expire")
    /\ UNCHANGED <<seen, list, now, authVars, twoVars, otherVars, hits, timed, local>>

(* The clock, which matters from the first token on. *)
Tick ==
    /\ now < MaxNow /\ \E t \in Reqs : iat[t] # None
    /\ now' = now + 1
    /\ UNCHANGED <<call, pc, seen, list, authVars, twoVars, otherVars, rateVars>>

Step(r) ==
    \/ RequireAuth(r) \/ FindUser(r) \/ ForgotPassword(r) \/ ResetPassword(r)
     \/ CheckRefresh(r) \/ FindOwner(r)
    \/ BlockToken(r) \/ GenerateToken(r) \/ FindSession(r) \/ DropSession(r)
    \/ SavePassword(r) \/ DeleteCurrentUser(r) \/ UpdateTwoFactor(r)
    \/ CheckOtpTtl(r) \/ StoreOtp(r) \/ ReadOtp(r) \/ MarkPhone(r) \/ DeleteOtp(r)
    \/ GenerateApiKey(r) \/ FindApiKey(r) \/ RevokeApiKey(r) \/ RequireApiKey(r)
    \/ Increment(r) \/ SetExpiry(r) \/ ReadExpiry(r) \/ IncrementFallback(r) \/ Serve(r) \/ Decrement(r)
    \/ Fail(r)

Next ==
    \/ \E r \in Reqs : Step(r)
    \/ \E k \in Users \X Phones : OtpAges(k)
    \/ WindowEnds
    \/ Tick

Spec == Init /\ [][Next]_vars

-----------------------------------------------------------------------------
(* Properties. *)

Labels == {"auth", "find", "check", "owner", "block", "mint", "session", "drop", "save",
           "delete", "update", "ttl", "setex", "code", "verified", "del", "create", "list",
           "unset", "match", "forgot", "nolink", "reset", "incr", "expire", "pttl", "serve", "decr", "ok", "error"}

TypeOK ==
    /\ call \in Scripts
    /\ pc \in [Reqs -> Labels]
    /\ seen \in [Reqs -> Int]
    /\ list \in [Reqs -> SUBSET Codes]
    /\ now \in Nat
    /\ \A r \in Reqs : iat[r] = None \/ iat[r] \in 0..now
    /\ blocked \in [Reqs -> Nat]
    /\ sessions \subseteq recorded /\ recorded \subseteq Reqs
    /\ pw \in [Users -> Passwords]
    /\ deleted \in [Users -> BOOLEAN]
    /\ \A u \in Users : /\ totp[u].secret \in Reqs \union {None}
                        /\ totp[u].enabled \in BOOLEAN
                        /\ totp[u].codes \subseteq Codes
    /\ phone \in [Users -> Phones \union {None}]
    /\ hits = None \/ hits \in Int
    /\ timed => hits # None

(* Once any of logout, refresh, session revocation, password change or     *)
(* account deletion has put a token on the blocklist, no request that      *)
(* presents it passes requireAuth, and none that comes before the token's  *)
(* expiry refreshes it, whichever entry replaced whichever.                *)
RevokedIsRefused ==
    [][\A r \in Reqs :
         (pc[r] \in {"auth", "check"} /\ pc'[r] \notin {pc[r], "error"})
            => blocked[Tok(r)] = 0 \/ (Kind(r) = "refresh" /\ now >= Exp(Tok(r)))]_vars

(* A session that has disappeared from the list is one whose token no      *)
(* longer works: revokeSession blocks before it deletes, so a crash or a   *)
(* Redis error between the two cannot hide a live token.                   *)
SessionGoneIsBlocked == \A t \in recorded \ sessions : blocked[t] # 0

(* The stored backup codes are one batch as it was handed out, less codes  *)
(* that were accepted: however uses, regenerations and disabling overlap,  *)
(* no unused code of the batch in force is lost.                           *)
NoCodeLost ==
    \A u \in Users : totp[u].codes # {} =>
        \E b \in Reqs : totp[u].codes \subseteq Batch(b) /\ Batch(b) \ totp[u].codes \subseteq used

(* A rate-limit counter that counts something has an expiry, so nobody is  *)
(* locked out for good: also after a late decrement has re-created the key *)
(* below zero without one.  The exception is an increment that Redis or    *)
(* the process cut off between INCR and EXPIRE.                            *)
CounterExpires ==
    (hits # None /\ hits >= 1 /\ ~timed) => torn \/ \E r \in Reqs : pc[r] = "expire"

=============================================================================
