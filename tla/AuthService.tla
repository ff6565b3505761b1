----------------------------- MODULE AuthService -----------------------------
(***************************************************************************)
(* Accounts and sessions: internal/service/auth.go with the users, wallets *)
(* and refresh_tokens tables it writes, the JWT middleware in front of the *)
(* protected routes and the blacklist in Redis that both of them share.    *)
(*                                                                         *)
(* Registration is one transaction.  Everything else is a sequence of      *)
(* single statements without one, so that each action below is the code up *)
(* to the next statement that reads or writes what another request may     *)
(* change, and a failure between two of them leaves the first one done.    *)
(*                                                                         *)
(* A user is named by its e-mail address, which is UNIQUE and never        *)
(* changed; a refresh token, its hash and its row by the request that      *)
(* generated it.  An access token is its claims: the user and the second   *)
(* it expires, so that two issued to a user in one second are the same     *)
(* token.  Devices, user agents and addresses are left out.                *)
(***************************************************************************)
EXTENDS Integers

CONSTANTS
  Requests,     \* HTTP calls
  Emails,       \* addresses users may register
  Registered,   \* those that are registered when the system starts
  AccessTTL,    \* AccessTokenDuration: 15 minutes
  RefreshTTL,   \* RefreshTokenDuration: 30 days
  MaxTime,      \* bound: the clock
  Null

ASSUME AuthAssumption == /\ Registered \subseteq Emails
                         /\ AccessTTL \in Nat \ {0}
                         /\ RefreshTTL \in Nat \ {0}
                         /\ MaxTime \in Nat
                         /\ Null \notin Requests

Times        == 0 .. MaxTime
AccessTokens == [user: Emails, exp: 1 .. MaxTime + AccessTTL]
RefreshToken == [user: Emails, revoked: BOOLEAN, expires: 1 .. MaxTime + RefreshTTL]

ASSUME AuthNulls == Null \notin AccessTokens /\ Null \notin RefreshToken

Operations == {"register", "login", "refresh", "logout", "profile", "revoke"}

\* What a request carries: the address it registers or logs in, the refresh
\* token or the session id, and the bearer token.
Call(op, user, token, access) == [op |-> op, user |-> user, token |-> token, access |-> access]
CallType == [op: Operations, user: Emails \cup {Null}, token: Requests \cup {Null},
             access: AccessTokens \cup {Null}]
NoCall   == Call("profile", Null, Null, Null)

Kinds == {"ok", "unknown", "taken", "credentials", "invalid", "revoked", "expired",
          "unauthorized", "notFound"}
Answer(kind, access) == [kind |-> kind, access |-> access]
NoReply == Answer("none", Null)

VARIABLES
  now,        \* the clock of the processes, PostgreSQL and Redis
  redisUp,    \* Redis answers
  users,      \* addresses in users
  wallets,    \* users that have a row in wallets
  tokens,     \* refresh_tokens
  blacklist,  \* time until which Redis keeps blacklisted:<token>, 0 if never set
  call,       \* the call of each request
  pc,         \* where its handler is
  reply       \* what its client was answered

accounts == <<users, wallets>>
vars == <<now, redisUp, accounts, tokens, blacklist, call, pc, reply>>

Init ==
  /\ now = 0
  /\ redisUp = TRUE
  /\ users = Registered
  /\ wallets = Registered
  /\ tokens = [r \in Requests |-> Null]
  /\ blacklist = [a \in AccessTokens |-> 0]
  /\ call = [r \in Requests |-> NoCall]
  /\ pc = [r \in Requests |-> "idle"]
  /\ reply = [r \in Requests |-> NoReply]

-----------------------------------------------------------------------------
\* The request arrives with call c, and its handler goes on to a phase.
Receive(r, c, phase) == /\ pc[r] = "idle"
                        /\ call' = [call EXCEPT ![r] = c]
                        /\ pc' = [pc EXCEPT ![r] = phase]

\* The handler, in one of these phases, answers.
Finish(r, answer) == /\ pc' = [pc EXCEPT ![r] = "done"]
                     /\ reply' = [reply EXCEPT ![r] = answer]

\* A call that is received and answered in one step.
Serve(r, c, answer) == /\ pc[r] = "idle"
                       /\ call' = [call EXCEPT ![r] = c]
                       /\ Finish(r, answer)

\* Refresh tokens and access tokens that clients have been given.
Handed == {t \in Requests : reply[t].kind = "ok" /\ call[t].op \in {"login", "refresh"}}
Bearer == {reply[t].access : t \in Handed}

-----------------------------------------------------------------------------
(* Registration.                                                            *)

\* Mutant: the address is not UNIQUE.
EmailHoldersMutant(e) == {}

\* Requests whose uncommitted row occupies the address.
EmailHolders(e) == {s \in Requests : pc[s] = "commit" /\ call[s].user = e}

\* INSERT the user, which waits for a transaction that holds the address, and
\* INSERT its wallet.
RegisterInsert(r) ==
  \E e \in Emails \ users :
    /\ EmailHolders(e) = {}
    /\ Receive(r, Call("register", e, Null, Null), "commit")
    /\ UNCHANGED <<now, redisUp, accounts, tokens, blacklist, reply>>

\* 23505: ErrEmailAlreadyRegistered.
RegisterTaken(r) ==
  \E e \in users :
    /\ EmailHolders(e) = {}
    /\ Serve(r, Call("register", e, Null, Null), Answer("taken", Null))
    /\ UNCHANGED <<now, redisUp, accounts, tokens, blacklist>>

\* COMMIT makes both rows visible; the answer may be lost.
RegisterCommit(r) ==
  /\ pc[r] = "commit"
  /\ users' = users \cup {call[r].user}
  /\ wallets' = wallets \cup {call[r].user}
  /\ \E kind \in {"ok", "unknown"} : Finish(r, Answer(kind, Null))
  /\ UNCHANGED <<now, redisUp, tokens, blacklist, call>>

-----------------------------------------------------------------------------
(* Tokens.                                                                  *)

\* generateToken: the claims of an access token for u.
generateToken(u) == [user |-> u, exp |-> now + AccessTTL]

\* INSERT INTO refresh_tokens a token generated by r for u.
Store(r, u) == tokens' = [tokens EXCEPT ![r] = [user |-> u, revoked |-> FALSE,
                                                expires |-> now + RefreshTTL]]

\* The INSERT succeeds and the client is given both tokens; or it succeeds and
\* the answer is lost; or it fails.
GrantTokens(r, u) == \/ Store(r, u) /\ Finish(r, Answer("ok", generateToken(u)))
                     \/ Store(r, u) /\ Finish(r, Answer("unknown", Null))
                     \/ UNCHANGED tokens /\ Finish(r, Answer("unknown", Null))

Login(r) ==
  \E u \in users :
    /\ pc[r] = "idle"
    /\ call' = [call EXCEPT ![r] = Call("login", u, Null, Null)]
    /\ GrantTokens(r, u)
    /\ UNCHANGED <<now, redisUp, accounts, blacklist>>

\* An unknown address or a wrong password: ErrInvalidCredentials.
LoginRefused(r) ==
  \E e \in Emails :
    /\ Serve(r, Call("login", e, Null, Null), Answer("credentials", Null))
    /\ UNCHANGED <<now, redisUp, accounts, tokens, blacklist>>

-----------------------------------------------------------------------------
(* Refresh: SELECT the token, UPDATE it, INSERT its successor.              *)

Expired(t) == now > tokens[t].expires

\* Mutant: is_revoked is not looked at.
LookupPhaseMutant(t) == IF Expired(t) THEN "expired" ELSE "rotate"

\* What the handler does about the row it has read.
LookupPhase(t) == IF tokens[t].revoked THEN "reuse"
                  ELSE IF Expired(t)   THEN "expired"
                  ELSE "rotate"

RefreshLookup(r) ==
  \E t \in Handed :
    /\ LookupPhase(t) # "expired"
    /\ Receive(r, Call("refresh", Null, t, Null), LookupPhase(t))
    /\ UNCHANGED <<now, redisUp, accounts, tokens, blacklist, reply>>

\* A token no row has, or one that has expired.
RefreshRefused(r) ==
  /\ \/ Serve(r, Call("refresh", Null, Null, Null), Answer("invalid", Null))
     \/ \E t \in Handed :
          /\ LookupPhase(t) = "expired"
          /\ Serve(r, Call("refresh", Null, t, Null), Answer("expired", Null))
  /\ UNCHANGED <<now, redisUp, accounts, tokens, blacklist>>

Revoke(S) == tokens' = [t \in Requests |->
                          IF t \in S THEN [tokens[t] EXCEPT !.revoked = TRUE] ELSE tokens[t]]

SessionsOf(u) == {t \in Requests : tokens[t] # Null /\ tokens[t].user = u}

\* RevokeAllByUserID: the rows of the user that exist now.  Its error is ignored.
RefreshReuse(r) ==
  /\ pc[r] = "reuse"
  /\ Revoke(SessionsOf(tokens[call[r].token].user)) \/ UNCHANGED tokens
  /\ Finish(r, Answer("revoked", Null))
  /\ UNCHANGED <<now, redisUp, accounts, blacklist, call>>

\* RevokeByHash, whether or not somebody has revoked the token meanwhile.
RefreshRevoke(r) ==
  /\ pc[r] = "rotate"
  /\ Revoke({call[r].token})
  /\ pc' = [pc EXCEPT ![r] = "issue"]
  /\ UNCHANGED <<now, redisUp, accounts, blacklist, call, reply>>

RefreshIssue(r) ==
  /\ pc[r] = "issue"
  /\ GrantTokens(r, tokens[call[r].token].user)
  /\ UNCHANGED <<now, redisUp, accounts, blacklist, call>>

-----------------------------------------------------------------------------
(* Logout, with or without a bearer token and a refresh token.  Of its      *)
(* three routes two have no middleware in front, so any token will do; both *)
(* of its errors are ignored.                                               *)

\* Mutant: the entry lives a little shorter than the token.
BlacklistUntilShortMutant == now + AccessTTL - 1

\* Mutant: the entry is kept as long as a refresh token.
BlacklistUntilLongMutant == now + RefreshTTL

\* SET ... EX AccessTokenDuration, whatever is left of the token's life.
BlacklistUntil == now + AccessTTL

LogoutAccess(r) ==
  \E a \in Bearer \cup {Null}, t \in Handed \cup {Null} :
    /\ Receive(r, Call("logout", Null, t, a), "logout")
    /\ blacklist' = IF a # Null /\ redisUp THEN [blacklist EXCEPT ![a] = BlacklistUntil]
                    ELSE blacklist
    /\ UNCHANGED <<now, redisUp, accounts, tokens, reply>>

LogoutRefresh(r) ==
  /\ pc[r] = "logout"
  /\ \/ call[r].token # Null /\ Revoke({call[r].token})
     \/ UNCHANGED tokens
  /\ Finish(r, Answer("ok", Null))
  /\ UNCHANGED <<now, redisUp, accounts, blacklist, call>>

-----------------------------------------------------------------------------
(* Protected routes.                                                        *)

\* IsTokenBlacklisted: an error counts as not blacklisted.
Blacklisted(a) == redisUp /\ now < blacklist[a]

\* JWTMiddleware lets the token through.
Admits(a) == now < a.exp /\ ~Blacklisted(a)

Unauthorized(r) ==
  \E a \in Bearer, op \in {"profile", "revoke"} :
    /\ ~Admits(a)
    /\ Serve(r, Call(op, Null, Null, a), Answer("unauthorized", Null))
    /\ UNCHANGED <<now, redisUp, accounts, tokens, blacklist>>

\* Profile and GetDevices only read.
Profile(r) ==
  \E a \in Bearer :
    /\ Admits(a)
    /\ Serve(r, Call("profile", Null, Null, a), Answer("ok", Null))
    /\ UNCHANGED <<now, redisUp, accounts, tokens, blacklist>>

\* DELETE /auth/devices/:id passes the middleware; any id may be named.
RevokeDevice(r) ==
  \E a \in Bearer, t \in Requests :
    /\ Admits(a)
    /\ Receive(r, Call("revoke", Null, t, a), "revoke")
    /\ UNCHANGED <<now, redisUp, accounts, tokens, blacklist, reply>>

\* Mutant: the session is looked up by its id alone.
OwnSessionMutant(r) == tokens[call[r].token] # Null

\* WHERE id = $1 AND user_id = $2
OwnSession(r) == call[r].token \in SessionsOf(call[r].access.user)

RevokeSession(r) ==
  /\ pc[r] = "revoke"
  /\ IF OwnSession(r)
     THEN Revoke({call[r].token}) /\ Finish(r, Answer("ok", Null))
     ELSE UNCHANGED tokens /\ Finish(r, Answer("notFound", Null))
  /\ UNCHANGED <<now, redisUp, accounts, blacklist, call>>

-----------------------------------------------------------------------------
(* Failures and the environment.                                            *)

\* A statement fails, the client goes away or the process dies: a registration
\* is rolled back, everything else stays as far as it has come.
Abort(r) ==
  /\ pc[r] \in {"commit", "rotate", "reuse", "issue", "logout", "revoke"}
  /\ Finish(r, Answer("unknown", Null))
  /\ UNCHANGED <<now, redisUp, accounts, tokens, blacklist, call>>

Tick == /\ now < MaxTime
        /\ now' = now + 1
        /\ UNCHANGED <<redisUp, accounts, tokens, blacklist, call, pc, reply>>

\* Redis goes away or comes back, with its keys.
RedisToggle == /\ redisUp' = ~redisUp
               /\ UNCHANGED <<now, accounts, tokens, blacklist, call, pc, reply>>

Arrive(r) ==
  \/ RegisterInsert(r) \/ RegisterTaken(r)
  \/ Login(r) \/ LoginRefused(r)
  \/ RefreshLookup(r) \/ RefreshRefused(r)
  \/ LogoutAccess(r)
  \/ Unauthorized(r) \/ Profile(r) \/ RevokeDevice(r)

Step(r) ==
  \/ RegisterCommit(r)
  \/ RefreshReuse(r) \/ RefreshRevoke(r) \/ RefreshIssue(r)
  \/ LogoutRefresh(r) \/ RevokeSession(r)

Next == \/ \E r \in Requests : Arrive(r) \/ Step(r) \/ Abort(r)
        \/ Tick
        \/ RedisToggle

Spec == Init /\ [][Next]_vars

-----------------------------------------------------------------------------
(* Properties.                                                              *)

\* Every variable holds a value of its column; a blacklist entry never outlives
\* the time an access token issued at the logout would live.
TypeOK ==
  /\ now \in Times
  /\ redisUp \in BOOLEAN
  /\ users \subseteq Emails
  /\ wallets \subseteq Emails
  /\ tokens \in [Requests -> RefreshToken \cup {Null}]
  /\ \A a \in AccessTokens : blacklist[a] \in 0 .. now + AccessTTL
  /\ call \in [Requests -> CallType]
  /\ pc \in [Requests -> {"idle", "commit", "rotate", "reuse", "issue", "logout",
                          "revoke", "done"}]
  /\ reply \in [Requests -> [kind: Kinds \cup {"none"}, access: AccessTokens \cup {Null}]]

\* Registering is all or nothing and an address has one owner: every user has
\* its wallet, of all registrations of an address at most one is told it
\* succeeded, and whoever is told the address is taken finds it registered,
\* not merely being registered by somebody who may yet fail.
RegistrationIsTrue ==
  /\ users = wallets
  /\ \A r \in Requests : call[r].op = "register" =>
       /\ reply[r].kind \in {"ok", "taken"} => call[r].user \in users
       /\ reply[r].kind = "ok" =>
            /\ call[r].user \notin Registered
            /\ \A s \in Requests \ {r} :
                 ~(/\ call[s].op = "register" /\ reply[s].kind = "ok"
                   /\ call[s].user = call[r].user)

\* The rotations of t that have inserted its successor or may yet insert one.
Rotations(t) == {r \in Requests : /\ call[r].op = "refresh"
                                  /\ call[r].token = t
                                  /\ pc[r] \in {"rotate", "issue"} \/ tokens[r] # Null}

\* "Refresh Token Rotation": a token is replaced by the rotations that have read
\* it while it was valid, and by no other.  Once it is revoked, by a rotation, a
\* logout, the owner or a purge, or once it has a successor, no rotation of it
\* begins, also when the one that spent it failed or lost its answer: its
\* successors number at most the rotations that overlapped at that moment.
OldTokenRetired ==
  [][\A t \in Requests :
       /\ tokens[t] # Null
       /\ tokens[t].revoked \/ \E r \in Rotations(t) : tokens[r] # Null
       => Rotations(t)' \subseteq Rotations(t)]_vars

Live(t) == tokens[t] # Null /\ ~tokens[t].revoked /\ ~Expired(t)

\* The user has no session: no live token, and no rotation has got past the
\* lookup of a token it may yet replace.
Closed(u) ==
  \A t \in Requests :
    /\ Live(t) => tokens[t].user # u
    /\ pc[t] \in {"rotate", "issue"} => tokens[call[t].token].user # u

\* Only a password opens a session: once all of a user's sessions have been
\* rotated away, logged out, revoked, purged for reuse or have expired, no replay of
\* old tokens, in any order and however calls fail, brings one back.
OnlyLoginOpensASession ==
  [][\A u \in Emails : Closed(u) /\ ~Closed(u)' =>
       \E r \in Requests : /\ pc[r] = "idle" /\ pc'[r] # "idle"
                           /\ call'[r].op = "login" /\ call'[r].user = u]_vars

\* Whose sessions the call of r may end.
ActsFor(r) == IF call[r].op = "revoke" THEN call[r].access.user
              ELSE tokens[call[r].token].user

\* A session ends for good, and by nobody but a holder of its user's tokens: a
\* revoked token is never valid again, a row keeps its user and its expiry, and
\* no call made with another user's tokens revokes it.
SessionsEndByTheirOwner ==
  [][\A t \in Requests : tokens[t] # Null =>
       \/ tokens'[t] = tokens[t]
       \/ /\ tokens'[t] = [tokens[t] EXCEPT !.revoked = TRUE]
          /\ \E r \in Requests : /\ pc[r] \in {"rotate", "reuse", "logout", "revoke"}
                                 /\ pc'[r] # pc[r]
                                 /\ ActsFor(r) = tokens[t].user]_vars

\* "Token has been invalidated": an access token that was put on the blacklist
\* passes the middleware no more, at any later time, unless Redis cannot be
\* asked: the entry lasts as long as the token, however old the token was.
LogoutIsFinal ==
  [][\A r \in Requests :
       /\ pc[r] = "idle" /\ pc'[r] # "idle"
       /\ call'[r].op \in {"profile", "revoke"}
       /\ reply'[r].kind # "unauthorized"
       /\ redisUp
       => blacklist[call'[r].access] = 0]_vars

=============================================================================
