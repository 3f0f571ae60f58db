---------------------------- MODULE AccessProofs ----------------------------
(***************************************************************************)
(* For any requests, accounts, inputs and lifetimes: a token on the        *)
(* blocklist is refused, a session that left the list has one there, no    *)
(* unused backup code is lost, and a counter that counts has an expiry.    *)
(***************************************************************************)
EXTENDS Access, TLAPS

FindKinds   == {"login", "changePw", "setup2", "verify2", "disable2", "regen2", "consume"}
UpdateKinds == {"setup2", "verify2", "disable2", "regen2", "consume"}

(* The labels that only some kinds of request come to. *)
Fits(k, l) ==
    /\ l = "auth" => k \in Guarded
    /\ l \in {"check", "owner"} => k = "refresh"
    /\ l \in {"session", "drop"} => k = "revoke"
    /\ l = "delete" => k = "deleteMe"
    /\ l = "mint" => k \in {"login", "refresh"}
    /\ l = "block" => k \in {"logout", "changePw", "deleteMe", "revoke", "refresh"}
    /\ l = "find" => k \in FindKinds
    /\ l = "update" => k \in UpdateKinds

(* The labels that any kind may come to, and that no guard is before. *)
Quiet == Labels \ {"auth", "check", "owner", "session", "drop", "delete", "mint", "block",
                   "find", "update"}

Typed ==
    /\ call \in Scripts
    /\ pc \in [Reqs -> Labels]
    /\ seen \in [Reqs -> Int]
    /\ now \in Nat
    /\ iat \in [Reqs -> Nat \union {None}]
    /\ blocked \in [Reqs -> Nat]
    /\ sessions \subseteq recorded /\ recorded \subseteq Reqs
    /\ hits \in Int \union {None}

(* The handler has seen its token signed. *)
Holds(k, l) ==
    \/ k \in Guarded /\ l \notin {"auth", "error"}
    \/ k = "refresh" /\ l \notin {"check", "error"}

(* A token exists from the answer of its request on, and it is presented,  *)
(* recorded and blocked only then; an entry of the blocklist lasts at      *)
(* least to the token's expiry; a session is dropped after its block.      *)
TokensOK ==
    \A r \in Reqs :
        /\ Fits(Kind(r), pc[r])
        /\ iat[r] # None => pc[r] = "ok" /\ iat[r] <= now
        /\ Holds(Kind(r), pc[r]) => iat[Tok(r)] # None
        /\ pc[r] = "block" /\ Kind(r) = "revoke" => call[r].on \in recorded
        /\ pc[r] = "drop" => blocked[call[r].on] # 0
        /\ blocked[r] # 0 => iat[r] # None /\ blocked[r] >= iat[r] + TokenTTL
        /\ r \in recorded => iat[r] # None

TokenInv == Typed /\ TokensOK /\ SessionGoneIsBlocked

-----------------------------------------------------------------------------
(* What the scripts say of a request. *)
LEMMA CallsOK ==
    ASSUME call \in Scripts, NEW r \in Reqs
    PROVE  /\ Kind(r) \in Kinds /\ U(r) \in Users
           /\ Kind(r) \in Guarded \union {"refresh"} => Tok(r) \in Reqs
           /\ Kind(r) = "revoke" => call[r].on \in Reqs
<1>1. call \in [Reqs -> Calls]
  BY AccessAssumption
<1>2. Kind(r) \in Kinds /\ U(r) \in Users
  BY <1>1 DEF Calls, Kind, U
<1>3. /\ Kind(r) \in Guarded \union {"refresh"} => Tok(r) \in Reqs
      /\ Kind(r) = "revoke" => call[r].on \in Reqs
  BY AccessAssumption DEF Kind, Tok
<1> QED BY <1>2, <1>3

(* Where a handler goes from its guard, or begins without one. *)
LEMMA FirstOK ==
    ASSUME NEW k \in Kinds
    PROVE  First(k) \in Labels /\ Fits(k, First(k)) /\ First(k) # "drop" /\ First(k) # "owner"
           /\ (First(k) = "block" => k = "logout")
<1>1. CASE k = "logout" \/ k = "me" \/ k = "none" \/ k = "revoke" \/ k = "deleteMe"
  BY <1>1, Zenon DEF First, Labels, Fits
<1>2. CASE k = "sendOtp" \/ k = "verifyOtp" \/ k = "createKey" \/ k = "revokeKey"
           \/ k = "revokeById" \/ k = "useKey" \/ k = "limited"
  BY <1>2, Zenon DEF First, Labels, Fits
<1>3. CASE k = "refresh" \/ k = "forgot" \/ k = "reset"
  BY <1>3, Zenon DEF First, Labels, Fits
<1>4. CASE k \in FindKinds
  <2>1. First(k) = "find"
    BY <1>4, Zenon DEF First, FindKinds
  <2> QED BY <1>4, <2>1 DEF Labels, Fits
<1> QED BY <1>1, <1>2, <1>3, <1>4 DEF Kinds, FindKinds

(* Where a handler goes after it has found the account. *)
LEMMA AfterFindOK ==
    ASSUME NEW k \in FindKinds
    PROVE  AfterFind(k) \in {"mint", "save", "update"} /\ Fits(k, AfterFind(k))
<1>1. CASE k = "login" \/ k = "changePw"
  BY <1>1, Zenon DEF AfterFind, Fits
<1>2. CASE k \in UpdateKinds
  <2>1. AfterFind(k) = "update"
    BY <1>2, Zenon DEF AfterFind, UpdateKinds
  <2> QED BY <1>2, <2>1 DEF Fits
<1> QED BY <1>1, <1>2 DEF FindKinds, UpdateKinds

-----------------------------------------------------------------------------
(* Tokens and sessions. *)

(* Nothing is signed, recorded or blocked in the beginning. *)
LEMMA TokenInit == Init => TokenInv
<1> SUFFICES ASSUME Init PROVE TokenInv
  OBVIOUS
<1>1. \A r \in Reqs : /\ Kind(r) \in Kinds
                      /\ pc[r] = IF Kind(r) \in Guarded THEN "auth" ELSE First(Kind(r))
  BY CallsOK DEF Init, Kind
<1>2. \A r \in Reqs : pc[r] \in Labels /\ Fits(Kind(r), pc[r]) /\ pc[r] # "drop"
  <2> SUFFICES ASSUME NEW r \in Reqs
               PROVE  pc[r] \in Labels /\ Fits(Kind(r), pc[r]) /\ pc[r] # "drop"
    OBVIOUS
  <2>1. CASE Kind(r) \in Guarded
    BY <2>1, <1>1 DEF Fits, Labels
  <2>2. CASE Kind(r) \notin Guarded
    BY <2>2, <1>1, FirstOK
  <2> QED BY <2>1, <2>2
<1>3. \A r \in Reqs : ~Holds(Kind(r), pc[r]) \/ Kind(r) = "refresh"
  BY <1>1 DEF Holds
<1>4. \A r \in Reqs : Kind(r) = "refresh" => pc[r] = "check"
  <2>1. First("refresh") = "check"
    BY Zenon DEF First
  <2> QED BY <1>1, <2>1 DEF Guarded
<1>5. \A r \in Reqs : ~Holds(Kind(r), pc[r]) /\ ~(pc[r] = "block" /\ Kind(r) = "revoke")
  BY <1>1, <1>3, <1>4 DEF Holds, Guarded
<1>6. Typed
  <2>1. pc = [r \in Reqs |-> pc[r]]
    BY DEF Init
  <2> QED BY <1>2, <2>1 DEF Init, Typed
<1>7. TokensOK
  BY <1>2, <1>5 DEF Init, TokensOK
<1>8. SessionGoneIsBlocked
  BY DEF Init, SessionGoneIsBlocked
<1> QED BY <1>6, <1>7, <1>8 DEF TokenInv

(* A handler moves to l, and no token is touched. *)
LEMMA MoveOK ==
    ASSUME TokenInv, NEW r \in Reqs, NEW l \in Labels, Goto(r, l),
           UNCHANGED <<now, iat, blocked, sessions, recorded>>,
           seen' \in [Reqs -> Int], hits' \in Int \union {None},
           pc[r] # "ok", Fits(Kind(r), l),
           Holds(Kind(r), l) => iat[Tok(r)] # None,
           l = "block" /\ Kind(r) = "revoke" => call[r].on \in recorded,
           l # "drop"
    PROVE  TokenInv'
<1>0. call' = call /\ pc' = [pc EXCEPT ![r] = l]
  BY DEF Goto
<1>1. Typed'
  BY <1>0 DEF TokenInv, Typed
<1>2. \A x \in Reqs : pc'[x] = IF x = r THEN l ELSE pc[x]
  BY <1>0 DEF TokenInv, Typed
<1>3. iat[r] = None
  BY DEF TokenInv, TokensOK
<1>4. TokensOK'
  <2> SUFFICES ASSUME NEW x \in Reqs
               PROVE  /\ Fits(Kind(x), pc'[x])
                      /\ iat[x] # None => pc'[x] = "ok" /\ iat[x] <= now
                      /\ Holds(Kind(x), pc'[x]) => iat[Tok(x)] # None
                      /\ pc'[x] = "block" /\ Kind(x) = "revoke" => call[x].on \in recorded
                      /\ pc'[x] = "drop" => blocked[call[x].on] # 0
                      /\ blocked[x] # 0 => iat[x] # None /\ blocked[x] >= iat[x] + TokenTTL
                      /\ x \in recorded => iat[x] # None
    BY <1>0 DEF TokensOK, Kind, Tok
  <2>1. CASE x = r
    BY <2>1, <1>2, <1>3 DEF TokenInv, TokensOK
  <2>2. CASE x # r
    BY <2>2, <1>2 DEF TokenInv, TokensOK
  <2> QED BY <2>1, <2>2
<1>5. SessionGoneIsBlocked'
  BY DEF TokenInv, SessionGoneIsBlocked
<1> QED BY <1>1, <1>4, <1>5 DEF TokenInv

(* Behind the guard, a move to a label that asks for nothing. *)
LEMMA QuietOK ==
    ASSUME TokenInv, NEW r \in Reqs, NEW l \in Quiet, Goto(r, l),
           UNCHANGED <<now, iat, blocked, sessions, recorded>>,
           seen' \in [Reqs -> Int], hits' \in Int \union {None},
           pc[r] \notin {"ok", "error", "auth", "check"}
    PROVE  TokenInv'
<1>1. l \in Labels /\ l # "drop" /\ l # "block" /\ Fits(Kind(r), l)
  BY DEF Quiet, Fits
<1>2. Holds(Kind(r), pc[r]) => iat[Tok(r)] # None
  BY DEF TokenInv, TokensOK
<1>3. Holds(Kind(r), l) => Holds(Kind(r), pc[r])
  BY DEF Holds
<1> QED BY <1>1, <1>2, <1>3, MoveOK

(* The steps of phone codes, keys, mails, the limiter and of failures. *)
LEMMA QuietSteps ==
    ASSUME TokenInv, NEW r \in Reqs,
           \/ ForgotPassword(r) \/ ResetPassword(r) \/ CheckOtpTtl(r) \/ StoreOtp(r)
           \/ ReadOtp(r) \/ MarkPhone(r) \/ DeleteOtp(r) \/ GenerateApiKey(r) \/ FindApiKey(r)
           \/ RevokeApiKey(r) \/ RequireApiKey(r) \/ Increment(r) \/ SetExpiry(r) \/ ReadExpiry(r)
           \/ IncrementFallback(r) \/ Serve(r) \/ Decrement(r) \/ Fail(r) \/ UpdateTwoFactor(r)
    PROVE  TokenInv'
<1>t. seen \in [Reqs -> Int] /\ hits \in Int \union {None}
  BY DEF TokenInv, Typed
<1> USE DEF authVars, rateVars, Quiet, Labels
<1>1. CASE ForgotPassword(r) \/ ResetPassword(r)
  <2>1. PICK l \in Quiet : Goto(r, l)
    BY <1>1 DEF ForgotPassword, ResetPassword
  <2> QED BY <1>1, <1>t, <2>1, QuietOK DEF ForgotPassword, ResetPassword
<1>2. CASE CheckOtpTtl(r) \/ StoreOtp(r) \/ ReadOtp(r) \/ MarkPhone(r) \/ DeleteOtp(r)
  <2>1. PICK l \in Quiet : Goto(r, l)
    BY <1>2 DEF CheckOtpTtl, StoreOtp, ReadOtp, MarkPhone, DeleteOtp
  <2> QED BY <1>2, <1>t, <2>1, QuietOK DEF CheckOtpTtl, StoreOtp, ReadOtp, MarkPhone, DeleteOtp
<1>3. CASE GenerateApiKey(r) \/ FindApiKey(r) \/ RevokeApiKey(r) \/ RequireApiKey(r)
  <2>1. PICK l \in Quiet : Goto(r, l)
    BY <1>3 DEF GenerateApiKey, FindApiKey, RevokeApiKey, RequireApiKey
  <2> QED BY <1>3, <1>t, <2>1, QuietOK DEF GenerateApiKey, FindApiKey, RevokeApiKey, RequireApiKey
<1>4. CASE Increment(r) \/ SetExpiry(r) \/ ReadExpiry(r)
  <2>1. PICK l \in Quiet : Goto(r, l)
    BY <1>4 DEF Increment, SetExpiry, ReadExpiry, Decide
  <2>2. Value + 1 \in Int
    BY <1>t DEF Value
  <2>3. seen' \in [Reqs -> Int] /\ hits' \in Int \union {None}
    BY <1>4, <1>t, <2>2 DEF Increment, SetExpiry, ReadExpiry, Hold
  <2> QED BY <1>4, <2>1, <2>3, QuietOK DEF Increment, SetExpiry, ReadExpiry
<1>5. CASE IncrementFallback(r) \/ Serve(r) \/ Decrement(r)
  <2>1. PICK l \in Quiet : Goto(r, l)
    BY <1>5 DEF IncrementFallback, Serve, Decrement, Decide
  <2>2. Value - 1 \in Int
    BY <1>t DEF Value
  <2>3. seen' \in [Reqs -> Int] /\ hits' \in Int \union {None}
    BY <1>5, <1>t, <2>2 DEF IncrementFallback, Serve, Decrement
  <2> QED BY <1>5, <2>1, <2>3, QuietOK DEF IncrementFallback, Serve, Decrement
<1>6. CASE Fail(r) \/ UpdateTwoFactor(r)
  <2>1. PICK l \in Quiet : Goto(r, l)
    BY <1>6 DEF Fail, UpdateTwoFactor
  <2> QED BY <1>6, <1>t, <2>1, QuietOK DEF Fail, UpdateTwoFactor
<1> QED BY <1>1, <1>2, <1>3, <1>4, <1>5, <1>6

(* The guards, and the steps from there to a write. *)
LEMMA GuardSteps ==
    ASSUME TokenInv, NEW r \in Reqs,
           \/ RequireAuth(r) \/ FindUser(r) \/ CheckRefresh(r) \/ FindOwner(r)
           \/ FindSession(r) \/ SavePassword(r) \/ DeleteCurrentUser(r)
    PROVE  TokenInv'
<1>t. /\ seen \in [Reqs -> Int] /\ hits \in Int \union {None} /\ now \in Int
      /\ Kind(r) \in Kinds /\ Fits(Kind(r), pc[r]) /\ (Holds(Kind(r), pc[r]) => iat[Tok(r)] # None)
  BY CallsOK DEF TokenInv, Typed, TokensOK
<1>u. UNCHANGED <<now, iat, blocked, sessions, recorded, hits>>
  BY DEF RequireAuth, FindUser, CheckRefresh, FindOwner, FindSession, SavePassword,
         DeleteCurrentUser, authVars, rateVars
<1>1. CASE RequireAuth(r)
  <2>1. iat[Tok(r)] # None /\ Kind(r) \in Guarded /\ Kind(r) # "refresh"
    BY <1>1, <1>t DEF RequireAuth, Presented, Fits, Guarded
  <2>2. PICK l \in {"error", First(Kind(r))} : Goto(r, l)
    BY <1>1 DEF RequireAuth
  <2>3. l \in Labels /\ Fits(Kind(r), l) /\ l # "drop" /\ (l = "block" => Kind(r) = "logout")
    BY <2>2, <1>t, FirstOK DEF Labels, Fits
  <2> QED BY <1>1, <1>t, <1>u, <2>1, <2>2, <2>3, MoveOK DEF RequireAuth
<1>2. CASE FindUser(r)
  <2>1. PICK l \in {"error", AfterFind(Kind(r))} : Goto(r, l)
    BY <1>2 DEF FindUser
  <2>2. Kind(r) \in FindKinds
    BY <1>2, <1>t DEF FindUser, Fits
  <2>3. l \in {"error", "mint", "save", "update"} /\ Fits(Kind(r), l)
    BY <2>1, <2>2, AfterFindOK DEF Fits
  <2>4. Holds(Kind(r), l) => Holds(Kind(r), pc[r])
    BY <1>2, <2>2 DEF FindUser, Holds, FindKinds
  <2> QED BY <1>2, <1>t, <1>u, <2>1, <2>3, <2>4, MoveOK DEF FindUser, Labels
<1>3. CASE CheckRefresh(r)
  <2>1. PICK l \in {"error", "owner"} : Goto(r, l)
    BY <1>3 DEF CheckRefresh
  <2>2. iat[Tok(r)] # None /\ Fits(Kind(r), l) /\ seen' \in [Reqs -> Int]
    BY <1>3, <1>t, <2>1 DEF CheckRefresh, Presented, Fits, Hold
  <2> QED BY <1>3, <1>t, <1>u, <2>1, <2>2, MoveOK DEF CheckRefresh, Labels
<1>4. CASE FindOwner(r)
  <2>1. PICK l \in {"error", "block"} : Goto(r, l)
    BY <1>4 DEF FindOwner
  <2>2. Kind(r) = "refresh" /\ Fits(Kind(r), l) /\ iat[Tok(r)] # None
    BY <1>4, <1>t, <2>1 DEF FindOwner, Fits, Holds
  <2> QED BY <1>4, <1>t, <1>u, <2>1, <2>2, MoveOK DEF FindOwner, Labels
<1>5. CASE FindSession(r)
  <2>1. PICK l \in {"error", "block"} : Goto(r, l) /\ (l = "block" => call[r].on \in sessions)
    BY <1>5 DEF FindSession, ListSessions
  <2>2. Kind(r) = "revoke" /\ Fits(Kind(r), l) /\ iat[Tok(r)] # None
    BY <1>5, <1>t, <2>1 DEF FindSession, Fits, Holds, Guarded
  <2>3. l = "block" => call[r].on \in recorded
    BY <2>1 DEF TokenInv, Typed
  <2> QED BY <1>5, <1>t, <1>u, <2>1, <2>2, <2>3, MoveOK DEF FindSession, Labels
<1>6. CASE SavePassword(r)
  <2>1. PICK l \in {"block", "ok"} : Goto(r, l) /\ (l = "block" => Kind(r) = "changePw")
    BY <1>6 DEF SavePassword
  <2>2. Fits(Kind(r), l) /\ (Holds(Kind(r), l) => Holds(Kind(r), pc[r]))
    BY <1>6, <2>1 DEF SavePassword, Fits, Holds
  <2> QED BY <1>6, <1>t, <1>u, <2>1, <2>2, MoveOK DEF SavePassword, Labels
<1>7. CASE DeleteCurrentUser(r)
  <2>1. PICK l \in {"block", "error"} : Goto(r, l)
    BY <1>7 DEF DeleteCurrentUser
  <2>2. Kind(r) = "deleteMe" /\ Fits(Kind(r), l) /\ (Holds(Kind(r), l) => Holds(Kind(r), pc[r]))
    BY <1>7, <1>t, <2>1 DEF DeleteCurrentUser, Fits, Holds
  <2> QED BY <1>7, <1>t, <1>u, <2>1, <2>2, MoveOK DEF DeleteCurrentUser, Labels
<1> QED BY <1>1, <1>2, <1>3, <1>4, <1>5, <1>6, <1>7

(* An entry lasts to the expiry of its token, whoever wrote it. *)
LEMMA BlockForOK ==
    ASSUME TokenInv, NEW r \in Reqs, pc[r] = "block"
    PROVE  LET t == Revoked(r)
               b == BlockFor(t, BlockTtl(r))
           IN  /\ t \in Reqs /\ iat[t] # None
               /\ b \in [Reqs -> Nat]
               /\ \A x \in Reqs : \/ b[x] = blocked[x]
                                  \/ x = t /\ b[x] # 0 /\ b[x] >= iat[x] + TokenTTL
               /\ Kind(r) = "revoke" => b[call[r].on] # 0
<1> DEFINE t == Revoked(r)
           d == BlockTtl(r)
           b == BlockFor(t, d)
<1>t. /\ now \in Nat /\ iat \in [Reqs -> Nat \union {None}] /\ blocked \in [Reqs -> Nat]
      /\ seen[r] \in Int /\ TokenTTL \in Nat \ {0} /\ None \notin Int
  BY AccessAssumption DEF TokenInv, Typed
<1>k. Kind(r) \in {"logout", "changePw", "deleteMe", "revoke", "refresh"}
  BY DEF TokenInv, TokensOK, Fits
<1>1. t \in Reqs /\ iat[t] # None
  <2>1. CASE Kind(r) = "revoke"
    <3>1. call[r].on \in recorded /\ recorded \subseteq Reqs
      BY <2>1 DEF TokenInv, TokensOK, Typed
    <3> QED BY <2>1, <3>1 DEF Revoked, TokenInv, TokensOK
  <2>2. CASE Kind(r) # "revoke"
    <3>1. Tok(r) \in Reqs
      BY <1>k, CallsOK DEF TokenInv, Typed, Guarded
    <3>2. iat[Tok(r)] # None
      BY <1>k DEF TokenInv, TokensOK, Holds, Guarded
    <3> QED BY <2>2, <3>1, <3>2 DEF Revoked
  <2> QED BY <2>1, <2>2
<1>2. iat[t] \in Nat /\ iat[t] <= now
  BY <1>1, <1>t DEF TokenInv, TokensOK
<1>3. d \in Int /\ now + d >= iat[t] + TokenTTL /\ (Kind(r) = "revoke" => d > 0)
  <2>1. CASE Kind(r) = "refresh"
    <3>1. d = RefreshTtl(r) /\ t = Tok(r)
      BY <2>1, Zenon DEF BlockTtl, Revoked
    <3> QED BY <3>1, <2>1, <1>t, <1>2 DEF RefreshTtl, Exp
  <2>2. CASE Kind(r) = "revoke"
    <3>1. d = TokenTTL
      BY <2>2, Zenon DEF BlockTtl, RevokeTtl
    <3> QED BY <3>1, <1>t, <1>2
  <2>3. CASE Kind(r) # "refresh" /\ Kind(r) # "revoke"
    <3>1. d = RemainingTtl(r) /\ t = Tok(r)
      BY <2>3, Zenon DEF BlockTtl, Revoked
    <3> QED BY <3>1, <2>3, <1>t, <1>2 DEF RemainingTtl, Exp
  <2> QED BY <2>1, <2>2, <2>3
<1>c. Kind(r) = "revoke" => call[r].on = t
  BY DEF Revoked
<1> HIDE DEF t, d
<1>4. CASE d > 0
  <2>1. b = [blocked EXCEPT ![t] = now + d] /\ now + d \in Nat /\ now + d # 0
    BY <1>4, <1>3, <1>t DEF BlockFor
  <2>2. b \in [Reqs -> Nat]
    BY <2>1, <1>t
  <2>3. \A x \in Reqs : b[x] = IF x = t THEN now + d ELSE blocked[x]
    BY <2>1, <1>t
  <2> HIDE DEF b
  <2>4. /\ \A x \in Reqs : \/ b[x] = blocked[x]
                           \/ x = t /\ b[x] # 0 /\ b[x] >= iat[x] + TokenTTL
        /\ Kind(r) = "revoke" => b[call[r].on] # 0
    BY <1>1, <1>3, <1>c, <2>1, <2>3
  <2> QED BY <1>1, <2>2, <2>4 DEF t, d, b
<1>5. CASE ~(d > 0)
  <2>1. b = blocked /\ Kind(r) # "revoke"
    BY <1>5, <1>3 DEF BlockFor
  <2> QED BY <1>1, <1>t, <2>1 DEF t, d, b
<1> QED BY <1>4, <1>5

(* blockToken. *)
LEMMA BlockTokenOK ==
    ASSUME TokenInv, NEW r \in Reqs, BlockToken(r)
    PROVE  TokenInv'
<1>u. /\ UNCHANGED <<seen, now, iat, sessions, recorded, hits, call>>
      /\ pc[r] = "block"
  BY DEF BlockToken, Goto, rateVars
<1>t. pc \in [Reqs -> Labels] /\ Fits(Kind(r), pc[r])
  BY DEF TokenInv, Typed, TokensOK
<1>n. iat[r] = None
  BY <1>u DEF TokenInv, TokensOK
<1>1. PICK l \in {"mint", "drop", "ok"} :
          /\ pc' = [pc EXCEPT ![r] = l]
          /\ (l = "mint" => Kind(r) = "refresh") /\ (l = "drop" => Kind(r) = "revoke")
  <2>1. CASE Kind(r) = "refresh"
    BY <2>1, Zenon DEF BlockToken, Goto
  <2>2. CASE Kind(r) = "revoke"
    BY <2>2, Zenon DEF BlockToken, Goto
  <2>3. CASE Kind(r) # "refresh" /\ Kind(r) # "revoke"
    <3>1. (CASE Kind(r) = "refresh" -> "mint" [] Kind(r) = "revoke" -> "drop" [] OTHER -> "ok") = "ok"
      BY <2>3, Zenon
    <3> QED BY <2>3, <3>1, Zenon DEF BlockToken, Goto
  <2> QED BY <2>1, <2>2, <2>3
<1>2. \/ UNCHANGED blocked /\ Kind(r) # "revoke"
      \/ blocked' = BlockFor(Revoked(r), BlockTtl(r))
  BY DEF BlockToken
<1>3. /\ blocked' \in [Reqs -> Nat]
      /\ \A x \in Reqs : \/ blocked'[x] = blocked[x]
                         \/ iat[x] # None /\ blocked'[x] # 0 /\ blocked'[x] >= iat[x] + TokenTTL
      /\ Kind(r) = "revoke" => blocked'[call[r].on] # 0
  <2>1. CASE UNCHANGED blocked /\ Kind(r) # "revoke"
    BY <2>1 DEF TokenInv, Typed
  <2>2. CASE blocked' = BlockFor(Revoked(r), BlockTtl(r))
    BY <2>2, <1>u, BlockForOK
  <2> QED BY <1>2, <2>1, <2>2
<1>4. \A x \in Reqs : blocked[x] # 0 => blocked'[x] # 0
  BY <1>3
<1>5. Typed'
  BY <1>u, <1>1, <1>3 DEF TokenInv, Typed, Labels
<1>6. \A x \in Reqs : pc'[x] = IF x = r THEN l ELSE pc[x]
  BY <1>1, <1>t
<1>7. TokensOK'
  <2> SUFFICES ASSUME NEW x \in Reqs
               PROVE  /\ Fits(Kind(x), pc'[x])
                      /\ iat[x] # None => pc'[x] = "ok" /\ iat[x] <= now
                      /\ Holds(Kind(x), pc'[x]) => iat[Tok(x)] # None
                      /\ pc'[x] = "block" /\ Kind(x) = "revoke" => call[x].on \in recorded
                      /\ pc'[x] = "drop" => blocked'[call[x].on] # 0
                      /\ blocked'[x] # 0 => iat[x] # None /\ blocked'[x] >= iat[x] + TokenTTL
                      /\ x \in recorded => iat[x] # None
    BY <1>u DEF TokensOK, Kind, Tok
  <2>0. blocked'[x] # 0 => iat[x] # None /\ blocked'[x] >= iat[x] + TokenTTL
    BY <1>3 DEF TokenInv, TokensOK
  <2>1. CASE x = r
    <3>1. Fits(Kind(r), l)
      BY <1>1, <1>t, <1>u DEF Fits
    <3>2. Holds(Kind(r), l) => Holds(Kind(r), pc[r])
      BY <1>u DEF Holds
    <3> QED BY <2>0, <2>1, <1>1, <1>3, <1>6, <1>n, <3>1, <3>2 DEF TokenInv, TokensOK
  <2>2. CASE x # r
    <3>1. pc[x] = "drop" => call[x].on \in Reqs
      BY CallsOK DEF TokenInv, Typed, TokensOK, Fits
    <3> QED BY <2>0, <2>2, <1>4, <1>6, <3>1 DEF TokenInv, TokensOK
  <2> QED BY <2>1, <2>2
<1>8. SessionGoneIsBlocked'
  BY <1>u, <1>4 DEF TokenInv, Typed, SessionGoneIsBlocked
<1> QED BY <1>5, <1>7, <1>8 DEF TokenInv

(* generateToken: the token of a request is signed once, and nobody has    *)
(* presented or blocked it before.                                         *)
LEMMA GenerateTokenOK ==
    ASSUME TokenInv, NEW r \in Reqs, GenerateToken(r)
    PROVE  TokenInv'
<1>u. /\ pc[r] = "mint" /\ UNCHANGED <<seen, now, blocked, hits, call>>
      /\ pc' = [pc EXCEPT ![r] = "ok"] /\ iat' = [iat EXCEPT ![r] = now]
  BY DEF GenerateToken, Goto, rateVars
<1>t. /\ now \in Nat /\ None \notin Int /\ pc \in [Reqs -> Labels]
      /\ iat \in [Reqs -> Nat \union {None}]
  BY AccessAssumption DEF TokenInv, Typed
<1>n. iat[r] = None /\ blocked[r] = 0
  BY <1>u DEF TokenInv, TokensOK
<1>1. \E new \in SUBSET {r} : sessions' = sessions \union new /\ recorded' = recorded \union new
  <2>1. CASE sessions' = sessions \union {r} /\ recorded' = recorded \union {r}
    BY <2>1
  <2>2. CASE UNCHANGED <<sessions, recorded>>
    <3>1. sessions' = sessions \union {} /\ recorded' = recorded \union {}
      BY <2>2
    <3> QED BY <3>1
  <2> QED BY <2>1, <2>2 DEF GenerateToken, CreateSession
<1>2. PICK new \in SUBSET {r} : sessions' = sessions \union new /\ recorded' = recorded \union new
  BY <1>1
<1>3. Typed'
  BY <1>u, <1>t, <1>2 DEF TokenInv, Typed, Labels
<1>4. /\ \A x \in Reqs : x # r => pc'[x] = pc[x] /\ iat'[x] = iat[x]
      /\ pc'[r] = "ok" /\ iat'[r] = now /\ iat'[r] # None
      /\ \A x \in Reqs : iat[x] # None => iat'[x] # None
  BY <1>u, <1>t
<1>5. TokensOK'
  <2> SUFFICES ASSUME NEW x \in Reqs
               PROVE  /\ Fits(Kind(x), pc'[x])
                      /\ iat'[x] # None => pc'[x] = "ok" /\ iat'[x] <= now
                      /\ Holds(Kind(x), pc'[x]) => iat'[Tok(x)] # None
                      /\ pc'[x] = "block" /\ Kind(x) = "revoke" => call[x].on \in recorded'
                      /\ pc'[x] = "drop" => blocked[call[x].on] # 0
                      /\ blocked[x] # 0 => iat'[x] # None /\ blocked[x] >= iat'[x] + TokenTTL
                      /\ x \in recorded' => iat'[x] # None
    BY <1>u DEF TokensOK, Kind, Tok
  <2>1. Holds(Kind(x), pc'[x]) => iat'[Tok(x)] # None
    <3>1. Holds(Kind(x), pc'[x]) => Holds(Kind(x), pc[x])
      BY <1>u, <1>4 DEF Holds
    <3>2. Holds(Kind(x), pc[x]) => iat[Tok(x)] # None /\ Tok(x) \in Reqs
      BY CallsOK DEF TokenInv, Typed, TokensOK, Holds
    <3> QED BY <3>1, <3>2, <1>4
  <2>2. CASE x = r
    <3>1. Fits(Kind(r), "ok")
      BY DEF Fits
    <3> QED BY <2>1, <2>2, <3>1, <1>4, <1>n, <1>t
  <2>3. CASE x # r
    <3>1. x \in recorded' => x \in recorded
      BY <1>2, <2>3
    <3> QED BY <2>1, <2>3, <3>1, <1>2, <1>4 DEF TokenInv, TokensOK
  <2> QED BY <2>2, <2>3
<1>6. SessionGoneIsBlocked'
  BY <1>u, <1>2 DEF TokenInv, SessionGoneIsBlocked
<1> QED BY <1>3, <1>5, <1>6 DEF TokenInv

(* A record is deleted after the block of its token. *)
LEMMA DropSessionOK ==
    ASSUME TokenInv, NEW r \in Reqs, DropSession(r)
    PROVE  TokenInv'
<1>u. /\ pc[r] = "drop" /\ sessions' = sessions \ {call[r].on}
      /\ UNCHANGED <<seen, now, iat, blocked, recorded, hits, call>>
      /\ pc' = [pc EXCEPT ![r] = "ok"]
  BY DEF DropSession, Goto, rateVars
<1>1. blocked[call[r].on] # 0
  BY <1>u DEF TokenInv, TokensOK
<1>2. Typed'
  BY <1>u DEF TokenInv, Typed, Labels
<1>3. \A x \in Reqs : pc'[x] = IF x = r THEN "ok" ELSE pc[x]
  BY <1>u DEF TokenInv, Typed
<1>4. TokensOK'
  <2> SUFFICES ASSUME NEW x \in Reqs
               PROVE  /\ Fits(Kind(x), pc'[x])
                      /\ iat[x] # None => pc'[x] = "ok" /\ iat[x] <= now
                      /\ Holds(Kind(x), pc'[x]) => iat[Tok(x)] # None
                      /\ pc'[x] = "block" /\ Kind(x) = "revoke" => call[x].on \in recorded
                      /\ pc'[x] = "drop" => blocked[call[x].on] # 0
                      /\ blocked[x] # 0 => iat[x] # None /\ blocked[x] >= iat[x] + TokenTTL
                      /\ x \in recorded => iat[x] # None
    BY <1>u DEF TokensOK, Kind, Tok
  <2>1. CASE x = r
    <3>1. Fits(Kind(r), "ok") /\ (Holds(Kind(r), "ok") => Holds(Kind(r), pc[r]))
      BY <1>u DEF Fits, Holds
    <3> QED BY <2>1, <3>1, <1>3 DEF TokenInv, TokensOK
  <2>2. CASE x # r
    BY <2>2, <1>3 DEF TokenInv, TokensOK
  <2> QED BY <2>1, <2>2
<1>5. SessionGoneIsBlocked'
  BY <1>u, <1>1 DEF TokenInv, SessionGoneIsBlocked
<1> QED BY <1>2, <1>4, <1>5 DEF TokenInv

(* The clock, the short expiries, and a step that changes nothing. *)
LEMMA TimeOK ==
    ASSUME TokenInv,
           \/ \E k \in Users \X Phones : OtpAges(k)
           \/ WindowEnds \/ Tick \/ UNCHANGED vars
    PROVE  TokenInv'
<1>u. UNCHANGED <<call, pc, seen, iat, blocked, sessions, recorded>>
  BY DEF OtpAges, WindowEnds, Tick, vars, authVars
<1>1. now' \in Nat /\ now' >= now /\ hits' \in Int \union {None}
  BY DEF OtpAges, WindowEnds, Tick, vars, rateVars, TokenInv, Typed
<1>2. Typed'
  BY <1>u, <1>1 DEF TokenInv, Typed
<1>3. \A r \in Reqs : iat[r] # None => iat[r] <= now'
  <2>1. \A r \in Reqs : iat[r] # None => iat[r] \in Nat /\ iat[r] <= now /\ now \in Nat
    BY DEF TokenInv, Typed, TokensOK
  <2> QED BY <2>1, <1>1
<1>4. TokensOK'
  BY <1>u, <1>3 DEF TokenInv, TokensOK, Kind, Tok
<1>5. SessionGoneIsBlocked'
  BY <1>u DEF TokenInv, SessionGoneIsBlocked
<1> QED BY <1>2, <1>4, <1>5 DEF TokenInv

(* Every step keeps the invariant of the tokens. *)
LEMMA TokenNext == TokenInv /\ [Next]_vars => TokenInv'
<1> SUFFICES ASSUME TokenInv, [Next]_vars PROVE TokenInv'
  OBVIOUS
<1>1. CASE \E r \in Reqs : Step(r)
  <2>1. PICK r \in Reqs : Step(r)
    BY <1>1
  <2> QED BY <2>1, QuietSteps, GuardSteps, BlockTokenOK, GenerateTokenOK, DropSessionOK DEF Step
<1>2. CASE \/ \E k \in Users \X Phones : OtpAges(k)
           \/ WindowEnds \/ Tick \/ UNCHANGED vars
  BY <1>2, TimeOK
<1> QED BY <1>1, <1>2 DEF Next

(* The invariant of the tokens holds in every reachable state. *)
THEOREM TokenInvariance == Spec => []TokenInv
  BY TokenInit, TokenNext, PTL DEF Spec

(* A session that left the list has its token on the blocklist. *)
THEOREM SessionSound == Spec => []SessionGoneIsBlocked
<1>1. TokenInv => SessionGoneIsBlocked
  BY DEF TokenInv
<1> QED BY <1>1, TokenInvariance, PTL

(* A step of a request moves that request, and only the two guards start   *)
(* from the labels of the guards.                                          *)
LEMMA StepMoves ==
    ASSUME NEW x \in Reqs, Step(x)
    PROVE  /\ \E l : Goto(x, l)
           /\ pc[x] = "auth" => RequireAuth(x)
           /\ pc[x] = "check" => CheckRefresh(x)
<1>1. CASE \/ RequireAuth(x) \/ FindUser(x) \/ ForgotPassword(x) \/ ResetPassword(x)
           \/ CheckRefresh(x) \/ FindOwner(x) \/ FindSession(x) \/ DropSession(x)
           \/ SavePassword(x) \/ DeleteCurrentUser(x) \/ UpdateTwoFactor(x)
  BY <1>1 DEF RequireAuth, FindUser, ForgotPassword, ResetPassword, CheckRefresh, FindOwner,
              FindSession, DropSession, SavePassword, DeleteCurrentUser, UpdateTwoFactor
<1>2. CASE GenerateToken(x) \/ Fail(x)
  BY <1>2 DEF GenerateToken, Fail
<1>3. CASE BlockToken(x)
  BY <1>3, Zenon DEF BlockToken
<1>4. CASE \/ CheckOtpTtl(x) \/ StoreOtp(x) \/ ReadOtp(x) \/ MarkPhone(x) \/ DeleteOtp(x)
           \/ GenerateApiKey(x) \/ FindApiKey(x) \/ RevokeApiKey(x) \/ RequireApiKey(x)
  BY <1>4 DEF CheckOtpTtl, StoreOtp, ReadOtp, MarkPhone, DeleteOtp, GenerateApiKey, FindApiKey,
              RevokeApiKey, RequireApiKey
<1>5. CASE \/ Increment(x) \/ SetExpiry(x) \/ ReadExpiry(x) \/ IncrementFallback(x)
           \/ Serve(x) \/ Decrement(x)
  BY <1>5 DEF Increment, SetExpiry, ReadExpiry, IncrementFallback, Serve, Decrement, Decide
<1> QED BY <1>1, <1>2, <1>3, <1>4, <1>5 DEF Step

(* What passes a guard presents a token that is not on the blocklist. *)
LEMMA GuardsRefuse ==
    TokenInv /\ [Next]_vars =>
        [\A r \in Reqs :
            (pc[r] \in {"auth", "check"} /\ pc'[r] \notin {pc[r], "error"})
               => blocked[Tok(r)] = 0 \/ (Kind(r) = "refresh" /\ now >= Exp(Tok(r)))]_vars
<1> SUFFICES ASSUME TokenInv, [Next]_vars, NEW r \in Reqs,
                    pc[r] \in {"auth", "check"}, pc'[r] # pc[r], pc'[r] # "error"
             PROVE  blocked[Tok(r)] = 0 \/ (Kind(r) = "refresh" /\ now >= Exp(Tok(r)))
  OBVIOUS
<1>t. /\ pc \in [Reqs -> Labels] /\ now \in Nat /\ iat \in [Reqs -> Nat \union {None}]
      /\ blocked \in [Reqs -> Nat] /\ TokenTTL \in Nat /\ Fits(Kind(r), pc[r])
  BY AccessAssumption DEF TokenInv, Typed, TokensOK
<1>1. \E x \in Reqs : Step(x)
  <2>1. ~(UNCHANGED pc)
    OBVIOUS
  <2> QED BY <2>1 DEF Next, OtpAges, WindowEnds, Tick, vars
<1>2. Step(r)
  <2>1. PICK x \in Reqs : Step(x)
    BY <1>1
  <2>2. PICK l : Goto(x, l)
    BY <2>1, StepMoves
  <2>3. x = r
    BY <2>2, <1>t DEF Goto
  <2> QED BY <2>1, <2>3
<1>3. Tok(r) \in Reqs
  BY <1>t, CallsOK DEF TokenInv, Typed, Fits
<1>4. blocked[Tok(r)] # 0 => /\ iat[Tok(r)] # None
                             /\ blocked[Tok(r)] >= iat[Tok(r)] + TokenTTL
  BY <1>3 DEF TokenInv, TokensOK
<1>5. CASE pc[r] = "auth"
  <2>1. RequireAuth(r)
    BY <1>2, <1>5, StepMoves
  <2>2. ~(now >= Exp(Tok(r)) \/ IsTokenBlocked(Tok(r))) /\ iat[Tok(r)] # None
    BY <2>1, <1>t DEF RequireAuth, Goto, Presented
  <2> QED BY <2>2, <1>t, <1>3, <1>4 DEF Exp, IsTokenBlocked
<1>6. CASE pc[r] = "check"
  <2>1. CheckRefresh(r)
    BY <1>2, <1>6, StepMoves
  <2>2. ~IsTokenBlocked(Tok(r)) /\ Kind(r) = "refresh" /\ iat[Tok(r)] # None
    BY <2>1, <1>6, <1>t DEF CheckRefresh, Goto, Presented, Fits
  <2> QED BY <2>2, <1>t, <1>3, <1>4 DEF Exp, IsTokenBlocked
<1> QED BY <1>5, <1>6

(* A token that was put on the blocklist by whichever handler passes       *)
(* requireAuth never again, and refreshToken not before its expiry.        *)
THEOREM RevocationSound == Spec => RevokedIsRefused
  BY TokenInvariance, GuardsRefuse, PTL DEF Spec, RevokedIsRefused

-----------------------------------------------------------------------------
(* Backup codes. *)

(* A set of codes that is a batch, less codes that were accepted. *)
Honest(S) == S # {} => \E b \in Reqs : S \subseteq Batch(b) /\ Batch(b) \ S \subseteq used

CodesInv ==
    /\ totp \in [Users -> [secret : Reqs \union {None}, enabled : BOOLEAN, codes : SUBSET Codes]]
    /\ list \in [Reqs -> SUBSET Codes]
    /\ \A r \in Reqs : Honest(list[r])
    /\ \A u \in Users : Honest(totp[u].codes)

(* There are no codes in the beginning. *)
LEMMA CodesInit == Init => CodesInv
  BY DEF Init, CodesInv, Honest, NoTotp

(* What a handler of the second factor writes is honest after it. *)
LEMMA WrittenOK ==
    ASSUME TokenInv, CodesInv, NEW r \in Reqs, pc[r] = "update",
           used' = IF Kind(r) = "consume" THEN used \union {Code(r)} ELSE used
    PROVE  /\ Written(r) \in [secret : Reqs \union {None}, enabled : BOOLEAN, codes : SUBSET Codes]
           /\ LET S == Written(r).codes
              IN  S # {} => \E b \in Reqs : S \subseteq Batch(b) /\ Batch(b) \ S \subseteq used'
<1> DEFINE T == [secret : Reqs \union {None}, enabled : BOOLEAN, codes : SUBSET Codes]
<1>u. U(r) \in Users /\ totp[U(r)] \in T /\ list[r] \in SUBSET Codes /\ Honest(totp[U(r)].codes)
      /\ Honest(list[r])
  BY CallsOK DEF TokenInv, Typed, CodesInv
<1>b. Batch(r) \in SUBSET Codes
  BY DEF Batch, Codes
<1>k. Kind(r) \in UpdateKinds
  BY DEF TokenInv, TokensOK, Fits
<1>m. used \subseteq used'
  OBVIOUS
<1>1. CASE Kind(r) = "setup2"
  <2>1. Written(r) = [totp[U(r)] EXCEPT !.secret = r]
    BY <1>1, Zenon DEF Written, Setup2fa
  <2>2. Written(r) \in T /\ Written(r).codes = totp[U(r)].codes
    BY <2>1, <1>u
  <2> QED BY <2>2, <1>u, <1>m DEF Honest
<1>2. CASE Kind(r) = "verify2" \/ Kind(r) = "regen2"
  <2>1. \/ Written(r) = [totp[U(r)] EXCEPT !.enabled = TRUE, !.codes = Batch(r)]
        \/ Written(r) = [totp[U(r)] EXCEPT !.codes = Batch(r)]
    BY <1>2, Zenon DEF Written, Verify2fa, RegenerateBackupCodes
  <2>2. Written(r) \in T /\ Written(r).codes = Batch(r)
    BY <2>1, <1>u, <1>b
  <2> QED BY <2>2
<1>3. CASE Kind(r) = "disable2"
  <2>1. Written(r) = NoTotp
    BY <1>3, Zenon DEF Written, Disable2fa
  <2> QED BY <2>1 DEF NoTotp
<1>4. CASE Kind(r) = "consume"
  <2>1. Written(r) = [totp[U(r)] EXCEPT !.codes = list[r] \ {Code(r)}]
    BY <1>4, Zenon DEF Written, ConsumeBackupCode
  <2>2. Written(r) \in T /\ Written(r).codes = list[r] \ {Code(r)}
    BY <2>1, <1>u
  <2>3. used' = used \union {Code(r)}
    BY <1>4
  <2> QED BY <2>2, <2>3, <1>u DEF Honest
<1> QED BY <1>k, <1>1, <1>2, <1>3, <1>4 DEF UpdateKinds

(* Only two steps touch codes or what was read of them. *)
LEMMA CodesFrame ==
    ASSUME NEW r \in Reqs, Step(r), ~FindUser(r), ~UpdateTwoFactor(r)
    PROVE  UNCHANGED <<list, totp, used>>
<1> USE DEF twoVars
<1>1. CASE \/ RequireAuth(r) \/ ForgotPassword(r) \/ ResetPassword(r)
           \/ CheckRefresh(r) \/ FindOwner(r) \/ FindSession(r) \/ DropSession(r)
           \/ SavePassword(r) \/ DeleteCurrentUser(r)
  BY <1>1 DEF RequireAuth, ForgotPassword, ResetPassword, CheckRefresh, FindOwner,
              FindSession, DropSession, SavePassword, DeleteCurrentUser
<1>2. CASE GenerateToken(r) \/ Fail(r) \/ BlockToken(r)
  BY <1>2 DEF GenerateToken, Fail, BlockToken
<1>3. CASE \/ CheckOtpTtl(r) \/ StoreOtp(r) \/ ReadOtp(r) \/ MarkPhone(r) \/ DeleteOtp(r)
           \/ GenerateApiKey(r) \/ FindApiKey(r) \/ RevokeApiKey(r) \/ RequireApiKey(r)
  BY <1>3 DEF CheckOtpTtl, StoreOtp, ReadOtp, MarkPhone, DeleteOtp, GenerateApiKey, FindApiKey,
              RevokeApiKey, RequireApiKey
<1>4. CASE \/ Increment(r) \/ SetExpiry(r) \/ ReadExpiry(r) \/ IncrementFallback(r)
           \/ Serve(r) \/ Decrement(r)
  BY <1>4 DEF Increment, SetExpiry, ReadExpiry, IncrementFallback, Serve, Decrement
<1> QED BY <1>1, <1>2, <1>3, <1>4 DEF Step

(* Every step keeps the codes honest. *)
LEMMA CodesNext == TokenInv /\ CodesInv /\ [Next]_vars => CodesInv'
<1> SUFFICES ASSUME TokenInv, CodesInv, [Next]_vars PROVE CodesInv'
  OBVIOUS
<1>1. CASE UNCHANGED <<list, totp, used>>
  BY <1>1 DEF CodesInv, Honest
<1>2. CASE \E r \in Reqs : FindUser(r)
  <2>1. PICK r \in Reqs : FindUser(r)
    BY <1>2
  <2>2. totp' = totp /\ used' = used
    BY <2>1 DEF FindUser, twoVars
  <2>3. list' = list \/ list' = [list EXCEPT ![r] = totp[U(r)].codes]
    BY <2>1 DEF FindUser
  <2>4. U(r) \in Users
    BY CallsOK DEF TokenInv, Typed
  <2> QED BY <2>2, <2>3, <2>4 DEF CodesInv, Honest
<1>3. CASE \E r \in Reqs : UpdateTwoFactor(r)
  <2>1. PICK r \in Reqs : UpdateTwoFactor(r)
    BY <1>3
  <2>2. /\ list' = list /\ pc[r] = "update"
        /\ used' = IF Kind(r) = "consume" THEN used \union {Code(r)} ELSE used
        /\ \/ totp' = totp
           \/ totp' = [totp EXCEPT ![U(r)] = Written(r)]
    BY <2>1 DEF UpdateTwoFactor
  <2>3. /\ Written(r) \in [secret : Reqs \union {None}, enabled : BOOLEAN, codes : SUBSET Codes]
        /\ Written(r).codes # {} =>
              \E b \in Reqs : Written(r).codes \subseteq Batch(b) /\ Batch(b) \ Written(r).codes \subseteq used'
    BY <2>2, WrittenOK
  <2>4. used \subseteq used'
    BY <2>2
  <2>5. \A x \in Reqs : Honest(list[x])'
    BY <2>2, <2>4 DEF CodesInv, Honest
  <2>6. \A u \in Users : totp'[u] = totp[u] \/ totp'[u] = Written(r)
    BY <2>2 DEF CodesInv
  <2>7. ASSUME NEW u \in Users PROVE Honest(totp[u].codes)'
    <3>1. CASE totp'[u] = totp[u]
      BY <3>1, <2>4 DEF CodesInv, Honest
    <3>2. CASE totp'[u] = Written(r)
      BY <3>2, <2>3 DEF Honest
    <3> QED BY <3>1, <3>2, <2>6
  <2>8. totp' \in [Users -> [secret : Reqs \union {None}, enabled : BOOLEAN, codes : SUBSET Codes]]
    BY <2>2, <2>3 DEF CodesInv
  <2> QED BY <2>2, <2>5, <2>7, <2>8 DEF CodesInv
<1>4. CASE \E r \in Reqs : Step(r) /\ ~FindUser(r) /\ ~UpdateTwoFactor(r)
  BY <1>1, <1>4, CodesFrame
<1>5. CASE \/ \E k \in Users \X Phones : OtpAges(k)
           \/ WindowEnds \/ Tick \/ UNCHANGED vars
  BY <1>1, <1>5 DEF OtpAges, WindowEnds, Tick, vars, twoVars
<1> QED BY <1>2, <1>3, <1>4, <1>5 DEF Next

(* The stored codes are a batch less accepted codes, however uses,         *)
(* regenerations and disabling overlap.                                    *)
THEOREM CodesSound == Spec => []NoCodeLost
<1>1. CodesInv => NoCodeLost
  BY DEF CodesInv, Honest, NoCodeLost
<1>2. Spec => []CodesInv
  BY TokenInvariance, CodesInit, CodesNext, PTL DEF Spec
<1> QED BY <1>1, <1>2, PTL

-----------------------------------------------------------------------------
(* The rate-limit counter. *)

RateInv == timed \in BOOLEAN /\ CounterExpires

(* A step that leaves the counter alone, by a request that is not about to *)
(* set the expiry.                                                         *)
LEMMA RateFrame ==
    ASSUME NEW r \in Reqs, Step(r),
           ~Increment(r), ~SetExpiry(r), ~IncrementFallback(r), ~Decrement(r), ~Fail(r)
    PROVE  UNCHANGED rateVars /\ pc[r] # "expire"
<1>1. CASE \/ RequireAuth(r) \/ ForgotPassword(r) \/ ResetPassword(r) \/ FindUser(r)
           \/ CheckRefresh(r) \/ FindOwner(r) \/ FindSession(r) \/ DropSession(r)
           \/ SavePassword(r) \/ DeleteCurrentUser(r) \/ UpdateTwoFactor(r)
  BY <1>1 DEF RequireAuth, ForgotPassword, ResetPassword, FindUser, CheckRefresh, FindOwner,
              FindSession, DropSession, SavePassword, DeleteCurrentUser, UpdateTwoFactor
<1>2. CASE GenerateToken(r) \/ BlockToken(r)
  BY <1>2 DEF GenerateToken, BlockToken
<1>3. CASE \/ CheckOtpTtl(r) \/ StoreOtp(r) \/ ReadOtp(r) \/ MarkPhone(r) \/ DeleteOtp(r)
           \/ GenerateApiKey(r) \/ FindApiKey(r) \/ RevokeApiKey(r) \/ RequireApiKey(r)
           \/ ReadExpiry(r) \/ Serve(r)
  BY <1>3 DEF CheckOtpTtl, StoreOtp, ReadOtp, MarkPhone, DeleteOtp, GenerateApiKey, FindApiKey,
              RevokeApiKey, RequireApiKey, ReadExpiry, Serve
<1> QED BY <1>1, <1>2, <1>3 DEF Step

(* While the key does not get to count without an expiry, and a request    *)
(* that was about to set one has done so or is known to have failed, the   *)
(* counter stays in order.                                                 *)
LEMMA RateKept ==
    ASSUME TokenInv, RateInv, NEW r \in Reqs, Step(r),
           timed' \in BOOLEAN,
           (hits' # None /\ hits' >= 1 /\ ~timed') => (hits # None /\ hits >= 1 /\ ~timed),
           torn => torn', pc[r] = "expire" => torn'
    PROVE  RateInv'
<1>1. PICK l : Goto(r, l)
  BY StepMoves
<1>2. \A x \in Reqs : x # r => pc'[x] = pc[x]
  BY <1>1 DEF Goto, TokenInv, Typed
<1> QED BY <1>2 DEF RateInv, CounterExpires

(* Every step keeps the counter in order. *)
LEMMA RateNext == TokenInv /\ RateInv /\ [Next]_vars => RateInv'
<1> SUFFICES ASSUME TokenInv, RateInv, [Next]_vars PROVE RateInv'
  OBVIOUS
<1>t. pc \in [Reqs -> Labels] /\ hits \in Int \union {None} /\ timed \in BOOLEAN /\ None \notin Int
  BY AccessAssumption DEF TokenInv, Typed, RateInv
<1>1. ASSUME NEW r \in Reqs, Step(r) PROVE RateInv'
  <2>1. CASE Increment(r)
    <3>1. /\ hits' = Value + 1 /\ UNCHANGED <<timed, torn>> /\ pc[r] = "incr"
          /\ pc' = [pc EXCEPT ![r] = IF Value + 1 = 1 THEN "expire" ELSE "pttl"]
      BY <2>1 DEF Increment, Goto
    <3>2. CASE Value + 1 = 1
      <4>1. pc'[r] = "expire"
        BY <3>1, <3>2, <1>t
      <4> QED BY <4>1, <3>1 DEF RateInv, CounterExpires
    <3>3. CASE Value + 1 # 1
      <4>1. (hits' # None /\ hits' >= 1) => (hits # None /\ hits >= 1)
        BY <3>1, <3>3, <1>t DEF Value
      <4> QED BY <4>1, <3>1, <1>1, <1>t, RateKept
    <3> QED BY <3>2, <3>3
  <2>2. CASE SetExpiry(r)
    <3>1. timed' = (hits # None) /\ hits' = hits
      BY <2>2 DEF SetExpiry
    <3> QED BY <3>1 DEF RateInv, CounterExpires
  <2>3. CASE IncrementFallback(r) \/ Fail(r)
    <3>1. UNCHANGED <<hits, timed>> /\ torn' = (torn \/ pc[r] = "expire")
      BY <2>3 DEF IncrementFallback, Fail
    <3> QED BY <3>1, <1>1, <1>t, RateKept
  <2>4. CASE Decrement(r)
    <3>1. /\ pc[r] = "decr" /\ UNCHANGED <<timed, torn>>
          /\ hits' = hits \/ hits' = Value - 1
      BY <2>4 DEF Decrement
    <3>2. (hits' # None /\ hits' >= 1) => (hits # None /\ hits >= 1)
      BY <3>1, <1>t DEF Value
    <3> QED BY <3>1, <3>2, <1>1, <1>t, RateKept
  <2>5. CASE ~Increment(r) /\ ~SetExpiry(r) /\ ~IncrementFallback(r) /\ ~Decrement(r) /\ ~Fail(r)
    <3>1. UNCHANGED <<hits, timed, torn>> /\ pc[r] # "expire"
      BY <2>5, <1>1, RateFrame DEF rateVars
    <3> QED BY <3>1, <1>1, <1>t, RateKept
  <2> QED BY <2>1, <2>2, <2>3, <2>4, <2>5
<1>2. CASE WindowEnds
  <2>1. /\ UNCHANGED <<pc, torn>>
        /\ \/ hits' = None /\ timed' = FALSE
           \/ UNCHANGED <<hits, timed>>
    BY <1>2 DEF WindowEnds
  <2> QED BY <2>1 DEF RateInv, CounterExpires
<1>3. CASE \/ \E k \in Users \X Phones : OtpAges(k)
           \/ Tick \/ UNCHANGED vars
  <2>1. UNCHANGED <<pc, hits, timed, torn>>
    BY <1>3 DEF OtpAges, Tick, vars, rateVars
  <2> QED BY <2>1 DEF RateInv, CounterExpires
<1> QED BY <1>1, <1>2, <1>3 DEF Next

(* A counter that counts something without an expiry has behind it an      *)
(* increment that is about to set one, or that was cut off before it.      *)
THEOREM CounterSound == Spec => []CounterExpires
<1>1. Init => RateInv
  BY DEF Init, RateInv, CounterExpires
<1>2. RateInv => CounterExpires
  BY DEF RateInv
<1>3. Spec => []RateInv
  BY <1>1, TokenInvariance, RateNext, PTL DEF Spec
<1> QED BY <1>2, <1>3, PTL

=============================================================================
