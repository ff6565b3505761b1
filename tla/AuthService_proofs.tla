------------------------- MODULE AuthService_proofs -------------------------
(***************************************************************************)
(* Sessions and accounts, for every set of requests and users and every    *)
(* lifetime of the tokens.  No statement of AuthService is atomic with the *)
(* next, so the argument is about what a handler still knows when it goes  *)
(* on: the row it has read may have been revoked meanwhile, but it never   *)
(* disappears, changes hands or becomes valid again.                       *)
(***************************************************************************)
EXTENDS AuthService, TLAPS

-----------------------------------------------------------------------------
(* The invariant.                                                           *)

\* What holds of request r and its handler.
RequestOK(r) ==
  /\ pc[r] # "done" => reply[r] = NoReply /\ tokens[r] = Null
  /\ pc[r] = "idle" => call[r].op = "profile"
  /\ pc[r] = "commit" => call[r].op = "register" /\ call[r].user \in Emails \ users
  /\ pc[r] \in {"rotate", "reuse", "issue"} =>
       call[r].op = "refresh" /\ call[r].token \in Requests /\ tokens[call[r].token] # Null
  /\ pc[r] = "issue" => tokens[call[r].token].revoked
  /\ pc[r] = "logout" =>
       /\ call[r].op = "logout"
       /\ call[r].token # Null => call[r].token \in Requests /\ tokens[call[r].token] # Null
  /\ pc[r] = "revoke" =>
       call[r].op = "revoke" /\ call[r].token \in Requests /\ call[r].access \in AccessTokens
  /\ r \in Handed => /\ tokens[r] # Null
                     /\ reply[r].access \in AccessTokens
                     /\ reply[r].access.exp <= now + AccessTTL

\* An address is being registered by one transaction at most.
EmailMutex == \A r, s \in Requests :
  pc[r] = "commit" /\ pc[s] = "commit" /\ call[r].user = call[s].user => r = s

\* A blacklist entry lasts at least as long as its token.
EntriesLast ==
  /\ blacklist \in [AccessTokens -> Int]
  /\ \A a \in AccessTokens : blacklist[a] = 0 \/ a.exp <= blacklist[a]

\* The token a successor replaces is a row of the table.
Successors == \A r \in Requests :
  call[r].op = "refresh" /\ tokens[r] # Null =>
    call[r].token \in Requests /\ tokens[call[r].token] # Null

\* The successor of a token exists only once the token is revoked.
Retired == \A r \in Requests :
  call[r].op = "refresh" /\ tokens[r] # Null => tokens[call[r].token].revoked

AuthInv == /\ TypeOK
           /\ \A r \in Requests : RequestOK(r)
           /\ EmailMutex
           /\ EntriesLast
           /\ Registered \subseteq users
           /\ RegistrationIsTrue
           /\ Successors
           /\ Retired

-----------------------------------------------------------------------------
(* What the statements do.                                                  *)

LEMMA CallIsTyped ==
  ASSUME NEW op \in Operations, NEW u \in Emails \cup {Null}, NEW t \in Requests \cup {Null},
         NEW a \in AccessTokens \cup {Null}
  PROVE  /\ Call(op, u, t, a) \in CallType
         /\ Call(op, u, t, a).op = op /\ Call(op, u, t, a).user = u
         /\ Call(op, u, t, a).token = t /\ Call(op, u, t, a).access = a
BY DEF Call, CallType

LEMMA AnswerIsTyped ==
  ASSUME NEW kind \in Kinds \cup {"none"}, NEW a \in AccessTokens \cup {Null}
  PROVE  /\ Answer(kind, a) \in [kind: Kinds \cup {"none"}, access: AccessTokens \cup {Null}]
         /\ Answer(kind, a).kind = kind /\ Answer(kind, a).access = a
BY DEF Answer

LEMMA TokenIsTyped ==
  ASSUME NEW u \in Emails, now \in Times
  PROVE  /\ generateToken(u) \in AccessTokens
         /\ generateToken(u).exp = now + AccessTTL
BY AuthAssumption DEF generateToken, AccessTokens, Times

\* Rows of refresh_tokens are never deleted and keep their user and expiry, and
\* a revoked one stays revoked.
RowsKept == \A t \in Requests : tokens[t] # Null =>
              /\ tokens'[t] # Null
              /\ tokens'[t].user = tokens[t].user
              /\ tokens'[t].expires = tokens[t].expires
              /\ tokens[t].revoked => tokens'[t].revoked

\* Only r inserts a row in a step of r.
RowsOf(r) == /\ tokens' \in [Requests -> RefreshToken \cup {Null}]
             /\ RowsKept
             /\ \A t \in Requests \ {r} : tokens[t] = Null => tokens'[t] = Null

LEMMA StoreEffect ==
  ASSUME TypeOK, NEW r \in Requests, NEW u \in Emails, tokens[r] = Null, Store(r, u)
  PROVE  /\ RowsOf(r) /\ tokens'[r] # Null
         /\ tokens'[r].user = u /\ ~tokens'[r].revoked
         /\ \A t \in Requests \ {r} : tokens'[t] = tokens[t]
<1> DEFINE row == [user |-> u, revoked |-> FALSE, expires |-> now + RefreshTTL]
<1>1. row \in RefreshToken
  BY AuthAssumption DEF RefreshToken, TypeOK, Times
<1>2. tokens'[r] = row /\ \A t \in Requests \ {r} : tokens'[t] = tokens[t]
  BY DEF Store, TypeOK
<1>3. tokens' = [tokens EXCEPT ![r] = row]
  BY DEF Store
<1>4. tokens' \in [Requests -> RefreshToken \cup {Null}]
  <2> HIDE DEF row
  <2> QED
    BY <1>1, <1>3 DEF TypeOK
<1>5. row # Null
  BY <1>1, AuthNulls
<1> QED
  BY <1>2, <1>4, <1>5 DEF RowsOf, RowsKept

LEMMA RevokeEffect ==
  ASSUME TypeOK, NEW r \in Requests, NEW S \in SUBSET Requests, \A t \in S : tokens[t] # Null,
         Revoke(S)
  PROVE  /\ RowsOf(r)
         /\ \A t \in Requests : tokens[t] = Null => tokens'[t] = Null
         /\ \A t \in S : tokens'[t] = [tokens[t] EXCEPT !.revoked = TRUE] /\ tokens'[t].revoked
         /\ \A t \in Requests \ S : tokens'[t] = tokens[t]
<1>1. tokens' = [t \in Requests |-> IF t \in S THEN [tokens[t] EXCEPT !.revoked = TRUE]
                                    ELSE tokens[t]]
  BY DEF Revoke
<1>2. \A t \in S : tokens[t] \in RefreshToken
  BY DEF TypeOK
<1>3. ASSUME NEW t \in S
      PROVE  LET row == [tokens[t] EXCEPT !.revoked = TRUE] IN
             /\ row \in RefreshToken /\ row.user = tokens[t].user
             /\ row.expires = tokens[t].expires /\ row.revoked
  BY <1>2 DEF RefreshToken
<1>4. \A t \in S : tokens'[t] = [tokens[t] EXCEPT !.revoked = TRUE]
  BY <1>1
<1>5. \A t \in Requests \ S : tokens'[t] = tokens[t]
  BY <1>1
<1>6. \A t \in S : /\ tokens'[t] \in RefreshToken /\ tokens'[t].user = tokens[t].user
                   /\ tokens'[t].expires = tokens[t].expires /\ tokens'[t].revoked
  BY <1>3, <1>4
<1>7. tokens' \in [Requests -> RefreshToken \cup {Null}]
  <2>1. \A t \in Requests : tokens'[t] \in RefreshToken \cup {Null}
    BY <1>5, <1>6 DEF TypeOK
  <2> QED
    BY <1>1, <2>1
<1>8. RowsKept
  BY <1>5, <1>6, AuthNulls DEF RowsKept
<1> QED
  BY <1>4, <1>5, <1>6, <1>7, <1>8 DEF RowsOf

LEMMA NothingRevoked ==
  ASSUME TypeOK, NEW r \in Requests, UNCHANGED tokens
  PROVE  RowsOf(r)
BY DEF TypeOK, RowsOf, RowsKept

-----------------------------------------------------------------------------
(* A step of r moves r alone, and leaves r and the tables in order.         *)

Phases  == {"idle", "commit", "rotate", "reuse", "issue", "logout", "revoke", "done"}
Replies == [kind: Kinds \cup {"none"}, access: AccessTokens \cup {Null}]

Others(r) == \A s \in Requests \ {r} : /\ pc'[s] = pc[s]
                                       /\ call'[s] = call[s]
                                       /\ reply'[s] = reply[s]

Kept(r) == /\ TypeOK' /\ RowsOf(r) /\ Others(r) /\ RequestOK(r)'
           /\ pc[r] # "done" /\ pc'[r] # pc[r] /\ pc'[r] # "idle"
           /\ now' = now /\ redisUp' = redisUp /\ users \subseteq users'

LEMMA FinishEffect ==
  ASSUME TypeOK, NEW r \in Requests, NEW a \in Replies, Finish(r, a)
  PROVE  /\ pc' \in [Requests -> Phases] /\ reply' \in [Requests -> Replies]
         /\ pc'[r] = "done" /\ reply'[r] = a
         /\ \A s \in Requests \ {r} : pc'[s] = pc[s] /\ reply'[s] = reply[s]
BY DEF Finish, TypeOK, Phases, Replies

LEMMA ReceiveEffect ==
  ASSUME TypeOK, NEW r \in Requests, NEW c \in CallType, NEW phase \in Phases,
         Receive(r, c, phase), UNCHANGED reply
  PROVE  /\ pc[r] = "idle" /\ pc'[r] = phase /\ call'[r] = c /\ Others(r)
         /\ pc' \in [Requests -> Phases] /\ call' \in [Requests -> CallType]
BY DEF Receive, TypeOK, Phases, Others

\* The tables other than refresh_tokens stay typed.
LEMMA TypesStay ==
  ASSUME TypeOK, UNCHANGED <<now, redisUp, accounts, blacklist>>,
         tokens' \in [Requests -> RefreshToken \cup {Null}],
         call' \in [Requests -> CallType],
         pc' \in [Requests -> Phases], reply' \in [Requests -> Replies]
  PROVE  TypeOK'
BY DEF TypeOK, accounts, Phases, Replies

\* A call that is refused, or only reads.
LEMMA Served ==
  ASSUME AuthInv, NEW r \in Requests, NEW c \in CallType, NEW a \in Replies, Serve(r, c, a),
         UNCHANGED <<now, redisUp, accounts, tokens, blacklist>>,
         a.kind = "ok" => c.op \notin {"login", "refresh"}
  PROVE  Kept(r) /\ pc[r] = "idle" /\ pc'[r] = "done" /\ call'[r] = c /\ reply'[r] = a
<1> USE DEF AuthInv
<1>1. /\ pc[r] = "idle" /\ pc'[r] = "done" /\ call'[r] = c /\ reply'[r] = a /\ Others(r)
      /\ pc' \in [Requests -> Phases] /\ reply' \in [Requests -> Replies]
      /\ call' \in [Requests -> CallType]
  BY FinishEffect DEF Serve, TypeOK, Others
<1>2. RowsOf(r) /\ TypeOK'
  BY <1>1, NothingRevoked, TypesStay DEF TypeOK
<1>3. RequestOK(r)'
  BY <1>1 DEF RequestOK, Handed
<1> QED
  BY <1>1, <1>2, <1>3 DEF Kept, accounts

\* The answer of a handler that has issued no token.
LEMMA Ended ==
  ASSUME AuthInv, NEW r \in Requests, NEW a \in Replies, Finish(r, a),
         pc[r] \notin {"idle", "done"}, RowsOf(r),
         UNCHANGED <<now, redisUp, accounts, blacklist, call>>,
         a.kind = "ok" => call[r].op \notin {"login", "refresh"}
  PROVE  Kept(r) /\ pc'[r] = "done" /\ reply'[r] = a
<1> USE DEF AuthInv
<1>1. /\ pc'[r] = "done" /\ reply'[r] = a /\ Others(r)
      /\ pc' \in [Requests -> Phases] /\ reply' \in [Requests -> Replies]
      /\ call' \in [Requests -> CallType]
  BY FinishEffect DEF TypeOK, Others
<1>2. TypeOK'
  BY <1>1, TypesStay DEF RowsOf
<1>3. RequestOK(r)'
  BY <1>1 DEF RequestOK, Handed
<1> QED
  BY <1>1, <1>2, <1>3 DEF Kept, accounts

\* A handler that goes on.
LEMMA Begun ==
  ASSUME AuthInv, NEW r \in Requests, NEW c \in CallType,
         NEW phase \in Phases \ {"idle", "done"}, Receive(r, c, phase),
         UNCHANGED <<now, redisUp, accounts, tokens, blacklist, reply>>,
         RequestOK(r)'
  PROVE  Kept(r) /\ pc[r] = "idle" /\ pc'[r] = phase /\ call'[r] = c
<1> USE DEF AuthInv
<1>1. /\ pc[r] = "idle" /\ pc'[r] = phase /\ call'[r] = c /\ Others(r)
      /\ pc' \in [Requests -> Phases] /\ call' \in [Requests -> CallType]
      /\ reply' \in [Requests -> Replies]
  BY ReceiveEffect DEF TypeOK, Replies
<1>2. RowsOf(r) /\ TypeOK'
  BY <1>1, NothingRevoked, TypesStay DEF TypeOK
<1> QED
  BY <1>1, <1>2 DEF Kept, accounts

\* The end of a login or of a rotation.
LEMMA Granted ==
  ASSUME AuthInv, NEW r \in Requests, NEW u \in Emails, GrantTokens(r, u),
         pc[r] # "done", UNCHANGED <<now, redisUp, accounts, blacklist>>,
         call' \in [Requests -> CallType],
         \A s \in Requests \ {r} : call'[s] = call[s]
  PROVE  /\ Kept(r) /\ pc'[r] = "done" /\ reply'[r].kind \in {"ok", "unknown"}
         /\ tokens' = tokens \/ tokens'[r].user = u
         /\ \A t \in Requests \ {r} : tokens'[t] = tokens[t]
<1> USE DEF AuthInv
<1>1. tokens[r] = Null /\ now \in Times
  BY DEF RequestOK, TypeOK
<1>2. /\ Answer("ok", generateToken(u)) \in Replies /\ Answer("unknown", Null) \in Replies
      /\ Answer("ok", generateToken(u)).kind = "ok" /\ Answer("unknown", Null).kind = "unknown"
      /\ Answer("ok", generateToken(u)).access = generateToken(u)
      /\ generateToken(u) \in AccessTokens /\ generateToken(u).exp = now + AccessTTL
  BY <1>1, TokenIsTyped, AnswerIsTyped DEF Kinds, Replies
<1>3. /\ pc'[r] = "done" /\ Others(r)
      /\ pc' \in [Requests -> Phases] /\ reply' \in [Requests -> Replies]
      /\ reply'[r].kind \in {"ok", "unknown"}
      /\ reply'[r].kind = "ok" => /\ Store(r, u)
                                  /\ reply'[r].access \in AccessTokens
                                  /\ reply'[r].access.exp = now + AccessTTL
      /\ Store(r, u) \/ UNCHANGED tokens
  BY <1>2, FinishEffect DEF GrantTokens, Others
<1>4. /\ RowsOf(r) /\ \A t \in Requests \ {r} : tokens'[t] = tokens[t]
      /\ Store(r, u) => tokens'[r] # Null /\ tokens'[r].user = u
      /\ tokens' = tokens \/ tokens'[r].user = u
  BY <1>1, <1>3, StoreEffect, NothingRevoked
<1>5. TypeOK'
  BY <1>3, <1>4, TypesStay DEF RowsOf
<1>6. RequestOK(r)'
  <2>1. now' + AccessTTL = now + AccessTTL /\ now + AccessTTL \in Int
    BY <1>1, AuthAssumption DEF Times
  <2> QED
    BY <1>3, <1>4, <2>1 DEF RequestOK, Handed
<1> QED
  BY <1>3, <1>4, <1>5, <1>6 DEF Kept, accounts

LEMMA HandedTokens ==
  ASSUME AuthInv
  PROVE  /\ \A t \in Handed : t \in Requests /\ tokens[t] # Null /\ tokens[t] \in RefreshToken
         /\ \A a \in Bearer : a \in AccessTokens /\ a.exp <= now + AccessTTL
         /\ Null \notin Bearer
<1>1. \A t \in Handed : /\ t \in Requests /\ tokens[t] # Null
                        /\ reply[t].access \in AccessTokens
                        /\ reply[t].access.exp <= now + AccessTTL
  BY DEF AuthInv, RequestOK, Handed
<1> QED
  BY <1>1, AuthNulls DEF Bearer, AuthInv, TypeOK

LEMMA RefusalsKept ==
  ASSUME AuthInv, NEW r \in Requests,
         RegisterTaken(r) \/ LoginRefused(r) \/ RefreshRefused(r) \/ Unauthorized(r) \/ Profile(r)
  PROVE  /\ Kept(r) /\ pc[r] = "idle" /\ pc'[r] = "done"
         /\ UNCHANGED <<accounts, tokens, blacklist>>
         /\ call'[r].op = "register" => RegisterTaken(r) /\ call'[r].user \in users
                                        /\ reply'[r].kind = "taken"
         /\ call'[r].op \in {"profile", "revoke"} /\ reply'[r].kind # "unauthorized" =>
              call'[r].access \in Bearer /\ Admits(call'[r].access)
<1> USE DEF AuthInv
<1>1. CASE RegisterTaken(r)
  <2>1. PICK e \in users : /\ Serve(r, Call("register", e, Null, Null), Answer("taken", Null))
                           /\ UNCHANGED <<now, redisUp, accounts, tokens, blacklist>>
    BY <1>1 DEF RegisterTaken
  <2>2. Call("register", e, Null, Null) \in CallType /\ Answer("taken", Null) \in Replies
    BY CallIsTyped, AnswerIsTyped DEF Operations, Kinds, Replies, TypeOK
  <2>3. Call("register", e, Null, Null).op = "register" /\ Answer("taken", Null).kind = "taken"
        /\ Call("register", e, Null, Null).user = e
    BY DEF Call, Answer
  <2> QED
    BY <1>1, <2>1, <2>2, <2>3, Served
<1>2. CASE LoginRefused(r)
  <2>1. PICK e \in Emails :
          /\ Serve(r, Call("login", e, Null, Null), Answer("credentials", Null))
          /\ UNCHANGED <<now, redisUp, accounts, tokens, blacklist>>
    BY <1>2 DEF LoginRefused
  <2>2. /\ Call("login", e, Null, Null) \in CallType
        /\ Call("login", e, Null, Null).op = "login"
    BY CallIsTyped DEF Operations
  <2>3. /\ Answer("credentials", Null) \in Replies
        /\ Answer("credentials", Null).kind = "credentials"
    BY AnswerIsTyped DEF Kinds, Replies
  <2> QED
    BY <2>1, <2>2, <2>3, Served
<1>3. CASE RefreshRefused(r)
  <2>1. PICK t \in Handed \cup {Null}, kind \in {"invalid", "expired"} :
          Serve(r, Call("refresh", Null, t, Null), Answer(kind, Null))
    BY <1>3 DEF RefreshRefused
  <2>2. UNCHANGED <<now, redisUp, accounts, tokens, blacklist>>
    BY <1>3 DEF RefreshRefused
  <2>3. /\ Call("refresh", Null, t, Null) \in CallType /\ Answer(kind, Null) \in Replies
    <3>1. t \in Requests \cup {Null}
      BY <2>1, HandedTokens
    <3> QED
      BY <3>1, CallIsTyped, AnswerIsTyped DEF Operations, Kinds, Replies
  <2>4. Call("refresh", Null, t, Null).op = "refresh" /\ Answer(kind, Null).kind = kind
    BY DEF Call, Answer
  <2> QED
    BY <2>1, <2>2, <2>3, <2>4, Served
<1>4. CASE Unauthorized(r)
  <2>1. PICK a \in Bearer, op \in {"profile", "revoke"} :
          /\ Serve(r, Call(op, Null, Null, a), Answer("unauthorized", Null))
          /\ UNCHANGED <<now, redisUp, accounts, tokens, blacklist>>
    BY <1>4 DEF Unauthorized
  <2>2. /\ Call(op, Null, Null, a) \in CallType /\ Answer("unauthorized", Null) \in Replies
    <3>1. a \in AccessTokens /\ op \in Operations
      BY <2>1, HandedTokens DEF Operations
    <3> QED
      BY <3>1, CallIsTyped, AnswerIsTyped DEF Kinds, Replies
  <2>3. Call(op, Null, Null, a).op = op /\ Answer("unauthorized", Null).kind = "unauthorized"
    BY DEF Call, Answer
  <2> QED
    BY <2>1, <2>2, <2>3, Served
<1>5. CASE Profile(r)
  <2>1. PICK a \in Bearer :
          /\ Admits(a)
          /\ Serve(r, Call("profile", Null, Null, a), Answer("ok", Null))
          /\ UNCHANGED <<now, redisUp, accounts, tokens, blacklist>>
    BY <1>5 DEF Profile
  <2>2. /\ Call("profile", Null, Null, a) \in CallType /\ Answer("ok", Null) \in Replies
    <3>1. a \in AccessTokens
      BY <2>1, HandedTokens
    <3> QED
      BY <3>1, CallIsTyped, AnswerIsTyped DEF Operations, Kinds, Replies
  <2>3. /\ Call("profile", Null, Null, a).op = "profile" /\ Answer("ok", Null).kind = "ok"
        /\ Call("profile", Null, Null, a).access = a
    BY DEF Call, Answer
  <2> QED
    BY <2>1, <2>2, <2>3, Served
<1> QED
  BY <1>1, <1>2, <1>3, <1>4, <1>5

LEMMA InsertKept ==
  ASSUME AuthInv, NEW r \in Requests, RegisterInsert(r)
  PROVE  /\ Kept(r) /\ pc[r] = "idle" /\ pc'[r] = "commit" /\ call'[r].op = "register"
         /\ call'[r].user \in Emails \ users /\ EmailHolders(call'[r].user) = {}
         /\ UNCHANGED <<accounts, tokens, blacklist, reply>>
<1> USE DEF AuthInv
<1>1. PICK e \in Emails \ users :
        /\ EmailHolders(e) = {}
        /\ Receive(r, Call("register", e, Null, Null), "commit")
        /\ UNCHANGED <<now, redisUp, accounts, tokens, blacklist, reply>>
  BY DEF RegisterInsert
<1>2. /\ Call("register", e, Null, Null) \in CallType
      /\ Call("register", e, Null, Null).op = "register"
      /\ Call("register", e, Null, Null).user = e
  BY CallIsTyped DEF Operations
<1>3. pc'[r] = "commit" /\ call'[r] = Call("register", e, Null, Null) /\ pc[r] = "idle"
  BY <1>1, <1>2, ReceiveEffect DEF Phases
<1>4. RequestOK(r)'
  BY <1>1, <1>2, <1>3 DEF RequestOK, Handed, accounts, NoReply, Answer
<1> QED
  BY <1>1, <1>2, <1>3, <1>4, Begun DEF Phases

LEMMA LookupKept ==
  ASSUME AuthInv, NEW r \in Requests, RefreshLookup(r)
  PROVE  /\ Kept(r) /\ pc[r] = "idle" /\ pc'[r] \in {"reuse", "rotate"}
         /\ call'[r].op = "refresh" /\ call'[r].token \in Requests
         /\ tokens[call'[r].token] # Null /\ pc'[r] = LookupPhase(call'[r].token)
         /\ UNCHANGED <<accounts, tokens, blacklist, reply>>
<1> USE DEF AuthInv
<1>1. PICK t \in Handed :
        /\ LookupPhase(t) # "expired"
        /\ Receive(r, Call("refresh", Null, t, Null), LookupPhase(t))
        /\ UNCHANGED <<now, redisUp, accounts, tokens, blacklist, reply>>
  BY DEF RefreshLookup
<1>2. /\ t \in Requests /\ tokens[t] # Null /\ LookupPhase(t) \in {"reuse", "rotate"}
      /\ Call("refresh", Null, t, Null) \in CallType
      /\ Call("refresh", Null, t, Null).op = "refresh"
      /\ Call("refresh", Null, t, Null).token = t
  BY <1>1, HandedTokens, CallIsTyped DEF Operations, LookupPhase
<1>3. pc'[r] = LookupPhase(t) /\ call'[r] = Call("refresh", Null, t, Null) /\ pc[r] = "idle"
  BY <1>1, <1>2, ReceiveEffect DEF Phases
<1>4. RequestOK(r)'
  BY <1>1, <1>2, <1>3 DEF RequestOK, Handed, NoReply, Answer
<1> QED
  BY <1>1, <1>2, <1>3, <1>4, Begun DEF Phases

LEMMA DeviceKept ==
  ASSUME AuthInv, NEW r \in Requests, RevokeDevice(r)
  PROVE  /\ Kept(r) /\ pc[r] = "idle" /\ pc'[r] = "revoke" /\ call'[r].op = "revoke"
         /\ call'[r].access \in Bearer /\ Admits(call'[r].access)
         /\ UNCHANGED <<accounts, tokens, blacklist, reply>>
<1> USE DEF AuthInv
<1>1. PICK a \in Bearer, t \in Requests :
        /\ Admits(a)
        /\ Receive(r, Call("revoke", Null, t, a), "revoke")
        /\ UNCHANGED <<now, redisUp, accounts, tokens, blacklist, reply>>
  BY DEF RevokeDevice
<1>2. /\ a \in AccessTokens /\ Call("revoke", Null, t, a) \in CallType
      /\ Call("revoke", Null, t, a).op = "revoke"
      /\ Call("revoke", Null, t, a).token = t /\ Call("revoke", Null, t, a).access = a
  BY HandedTokens, CallIsTyped DEF Operations
<1>3. pc'[r] = "revoke" /\ call'[r] = Call("revoke", Null, t, a) /\ pc[r] = "idle"
  BY <1>1, <1>2, ReceiveEffect DEF Phases
<1>4. RequestOK(r)'
  BY <1>1, <1>2, <1>3 DEF RequestOK, Handed, NoReply, Answer
<1> QED
  BY <1>1, <1>2, <1>3, <1>4, Begun DEF Phases

\* A logout blacklists the access token it was given, for at least its life.
LEMMA LogoutKept ==
  ASSUME AuthInv, NEW r \in Requests, LogoutAccess(r)
  PROVE  /\ Kept(r) /\ EntriesLast' /\ pc[r] = "idle" /\ pc'[r] = "logout"
         /\ call'[r].op = "logout" /\ UNCHANGED <<accounts, tokens, reply>>
<1> USE DEF AuthInv
<1>1. PICK a \in Bearer \cup {Null}, t \in Handed \cup {Null} :
        /\ Receive(r, Call("logout", Null, t, a), "logout")
        /\ blacklist' = IF a # Null /\ redisUp THEN [blacklist EXCEPT ![a] = BlacklistUntil]
                        ELSE blacklist
        /\ UNCHANGED <<now, redisUp, accounts, tokens, reply>>
  BY DEF LogoutAccess
<1>2. /\ a # Null => a \in AccessTokens /\ a.exp <= now + AccessTTL
      /\ t # Null => t \in Requests /\ tokens[t] # Null
      /\ Call("logout", Null, t, a) \in CallType
      /\ Call("logout", Null, t, a).op = "logout" /\ Call("logout", Null, t, a).token = t
  <2>1. /\ a # Null => a \in AccessTokens /\ a.exp <= now + AccessTTL
        /\ t # Null => t \in Requests /\ tokens[t] # Null
    BY <1>1, HandedTokens
  <2>2. Call("logout", Null, t, a) \in CallType
    BY <2>1, CallIsTyped DEF Operations
  <2> QED
    BY <2>1, <2>2 DEF Call
<1>3. /\ pc'[r] = "logout" /\ call'[r] = Call("logout", Null, t, a) /\ pc[r] = "idle"
      /\ Others(r) /\ pc' \in [Requests -> Phases] /\ call' \in [Requests -> CallType]
  BY <1>1, <1>2, ReceiveEffect DEF Phases
<1>4. RequestOK(r)'
  BY <1>1, <1>2, <1>3 DEF RequestOK, Handed, NoReply, Answer
<1>5. /\ EntriesLast'
      /\ \A b \in AccessTokens : blacklist'[b] \in 0 .. now + AccessTTL
  <2>1. now \in Int /\ now + AccessTTL \in 0 .. now + AccessTTL
    BY AuthAssumption DEF TypeOK, Times
  <2> QED
    BY <1>1, <1>2, <2>1 DEF EntriesLast, TypeOK, BlacklistUntil
<1>6. TypeOK'
  BY <1>1, <1>3, <1>5 DEF TypeOK, accounts, Phases
<1>7. RowsOf(r)
  BY <1>1, NothingRevoked
<1> QED
  BY <1>1, <1>2, <1>3, <1>4, <1>5, <1>6, <1>7 DEF Kept, accounts

LEMMA LoginKept ==
  ASSUME AuthInv, NEW r \in Requests, Login(r)
  PROVE  /\ Kept(r) /\ pc[r] = "idle" /\ pc'[r] = "done" /\ call'[r].op = "login"
         /\ tokens' = tokens \/ tokens'[r].user = call'[r].user
         /\ \A t \in Requests \ {r} : tokens'[t] = tokens[t]
         /\ UNCHANGED <<accounts, blacklist>>
<1> USE DEF AuthInv
<1>1. PICK u \in users : /\ pc[r] = "idle"
                         /\ call' = [call EXCEPT ![r] = Call("login", u, Null, Null)]
                         /\ GrantTokens(r, u)
                         /\ UNCHANGED <<now, redisUp, accounts, blacklist>>
  BY DEF Login
<1>2. /\ u \in Emails /\ Call("login", u, Null, Null) \in CallType
      /\ Call("login", u, Null, Null).op = "login" /\ Call("login", u, Null, Null).user = u
  <2>1. u \in Emails
    BY DEF TypeOK
  <2>2. Call("login", u, Null, Null) \in CallType
    BY <2>1, CallIsTyped DEF Operations
  <2> QED
    BY <2>1, <2>2 DEF Call
<1>3. /\ call' \in [Requests -> CallType] /\ call'[r] = Call("login", u, Null, Null)
      /\ \A s \in Requests \ {r} : call'[s] = call[s]
  BY <1>1, <1>2 DEF TypeOK
<1> QED
  BY <1>1, <1>2, <1>3, Granted

LEMMA CommitKept ==
  ASSUME AuthInv, NEW r \in Requests, RegisterCommit(r)
  PROVE  /\ Kept(r) /\ pc[r] = "commit" /\ pc'[r] = "done"
         /\ users' = users \cup {call[r].user} /\ wallets' = wallets \cup {call[r].user}
         /\ UNCHANGED <<tokens, blacklist, call>>
<1> USE DEF AuthInv
<1>1. PICK kind \in {"ok", "unknown"} : Finish(r, Answer(kind, Null))
  BY DEF RegisterCommit
<1>2. Answer(kind, Null) \in Replies /\ Answer(kind, Null).kind = kind
  BY AnswerIsTyped DEF Kinds, Replies
<1>3. /\ pc'[r] = "done" /\ Others(r)
      /\ pc' \in [Requests -> Phases] /\ reply' \in [Requests -> Replies]
  BY <1>1, <1>2, FinishEffect DEF Others, RegisterCommit
<1>4. /\ pc[r] = "commit" /\ call[r].user \in Emails /\ call[r].op = "register"
      /\ users' = users \cup {call[r].user} /\ wallets' = wallets \cup {call[r].user}
      /\ UNCHANGED <<now, redisUp, tokens, blacklist, call>>
  BY DEF RegisterCommit, RequestOK
<1>5. TypeOK'
  BY <1>3, <1>4 DEF TypeOK, Phases, Replies
<1>6. RequestOK(r)'
  BY <1>3, <1>4 DEF RequestOK, Handed
<1>7. RowsOf(r)
  BY <1>4, NothingRevoked
<1> QED
  BY <1>3, <1>4, <1>5, <1>6, <1>7 DEF Kept

\* The row that the handler of a refresh has found.
LEMMA FoundToken ==
  ASSUME AuthInv, NEW r \in Requests, pc[r] \in {"rotate", "reuse", "issue"}
  PROVE  /\ call[r].op = "refresh" /\ call[r].token \in Requests
         /\ tokens[call[r].token] # Null /\ tokens[call[r].token] \in RefreshToken
         /\ tokens[call[r].token].user \in Emails
BY DEF AuthInv, RequestOK, TypeOK, RefreshToken

\* A revocation ends sessions of the user r acts for only.
EndsOwn(r) == \A t \in Requests : tokens[t] # Null =>
                \/ tokens'[t] = tokens[t]
                \/ /\ tokens'[t] = [tokens[t] EXCEPT !.revoked = TRUE]
                   /\ ActsFor(r) = tokens[t].user

LEMMA RevokesOwn ==
  ASSUME AuthInv, NEW r \in Requests, NEW S \in SUBSET Requests,
         \A t \in S : tokens[t] # Null /\ tokens[t].user = ActsFor(r),
         Revoke(S)
  PROVE  RowsOf(r) /\ EndsOwn(r) /\ \A t \in Requests : tokens[t] = Null => tokens'[t] = Null
BY RevokeEffect DEF AuthInv, EndsOwn

LEMMA ReuseKept ==
  ASSUME AuthInv, NEW r \in Requests, RefreshReuse(r)
  PROVE  /\ Kept(r) /\ pc[r] = "reuse" /\ pc'[r] = "done" /\ EndsOwn(r)
         /\ \A t \in Requests : tokens[t] = Null => tokens'[t] = Null
         /\ UNCHANGED <<accounts, blacklist, call>>
<1> USE DEF AuthInv
<1> DEFINE S == SessionsOf(tokens[call[r].token].user)
<1>1. /\ pc[r] = "reuse"
      /\ Revoke(S) \/ UNCHANGED tokens
      /\ Finish(r, Answer("revoked", Null))
      /\ UNCHANGED <<now, redisUp, accounts, blacklist, call>>
  BY DEF RefreshReuse
<1>2. ActsFor(r) = tokens[call[r].token].user
  BY <1>1, FoundToken DEF ActsFor
<1>3. S \in SUBSET Requests /\ \A t \in S : tokens[t] # Null /\ tokens[t].user = ActsFor(r)
  BY <1>2 DEF SessionsOf
<1> HIDE DEF S
<1>4. RowsOf(r) /\ EndsOwn(r) /\ \A t \in Requests : tokens[t] = Null => tokens'[t] = Null
  <2>1. CASE Revoke(S)
    BY <1>3, <2>1, RevokesOwn
  <2>2. CASE UNCHANGED tokens
    BY <2>2, NothingRevoked DEF EndsOwn
  <2> QED
    BY <1>1, <2>1, <2>2
<1>5. Answer("revoked", Null) \in Replies /\ Answer("revoked", Null).kind = "revoked"
  BY AnswerIsTyped DEF Kinds, Replies
<1> QED
  BY <1>1, <1>4, <1>5, Ended

LEMMA RotateKept ==
  ASSUME AuthInv, NEW r \in Requests, RefreshRevoke(r)
  PROVE  /\ Kept(r) /\ pc[r] = "rotate" /\ pc'[r] = "issue" /\ EndsOwn(r)
         /\ \A t \in Requests : tokens[t] = Null => tokens'[t] = Null
         /\ UNCHANGED <<accounts, blacklist, call, reply>>
<1> USE DEF AuthInv
<1>1. /\ pc[r] = "rotate" /\ Revoke({call[r].token})
      /\ pc' = [pc EXCEPT ![r] = "issue"]
      /\ UNCHANGED <<now, redisUp, accounts, blacklist, call, reply>>
  BY DEF RefreshRevoke
<1>2. /\ call[r].op = "refresh" /\ call[r].token \in Requests
      /\ tokens[call[r].token] # Null
  BY <1>1, FoundToken
<1>3. /\ RowsOf(r) /\ EndsOwn(r)
      /\ \A t \in Requests : tokens[t] = Null => tokens'[t] = Null
      /\ tokens'[call[r].token].revoked
  <2>1. /\ {call[r].token} \in SUBSET Requests
        /\ \A t \in {call[r].token} : tokens[t] # Null /\ tokens[t].user = ActsFor(r)
    BY <1>2 DEF ActsFor
  <2> DEFINE S == {call[r].token}
  <2>2. S \in SUBSET Requests /\ Revoke(S) /\ call[r].token \in S
        /\ \A t \in S : tokens[t] # Null /\ tokens[t].user = ActsFor(r)
    BY <1>1, <2>1
  <2> HIDE DEF S
  <2>3. \A t \in S : tokens'[t].revoked
    BY <2>2, RevokeEffect
  <2> QED
    BY <2>2, <2>3, RevokesOwn
<1>4. /\ pc'[r] = "issue" /\ pc' \in [Requests -> Phases] /\ Others(r)
      /\ reply' \in [Requests -> Replies] /\ call' \in [Requests -> CallType]
  BY <1>1 DEF TypeOK, Phases, Others, Replies
<1>5. TypeOK'
  BY <1>1, <1>3, <1>4, TypesStay DEF RowsOf
<1>6. RequestOK(r)'
  <2>1. reply[r] = NoReply /\ tokens[r] = Null
    BY <1>1 DEF RequestOK
  <2>2. tokens'[call[r].token] # Null /\ tokens'[r] = Null
    BY <1>2, <1>3, <2>1 DEF RowsOf, RowsKept
  <2> QED
    BY <1>1, <1>2, <1>3, <1>4, <2>1, <2>2 DEF RequestOK, Handed, NoReply, Answer
<1> QED
  BY <1>1, <1>3, <1>4, <1>5, <1>6 DEF Kept, accounts

LEMMA IssueKept ==
  ASSUME AuthInv, NEW r \in Requests, RefreshIssue(r)
  PROVE  /\ Kept(r) /\ pc[r] = "issue" /\ pc'[r] = "done"
         /\ tokens' = tokens \/ tokens'[r].user = tokens[call[r].token].user
         /\ \A t \in Requests \ {r} : tokens'[t] = tokens[t]
         /\ UNCHANGED <<accounts, blacklist, call>>
<1> USE DEF AuthInv
<1>1. /\ pc[r] = "issue" /\ GrantTokens(r, tokens[call[r].token].user)
      /\ UNCHANGED <<now, redisUp, accounts, blacklist, call>>
  BY DEF RefreshIssue
<1>2. tokens[call[r].token].user \in Emails
  BY <1>1, FoundToken
<1>3. call' \in [Requests -> CallType] /\ \A s \in Requests \ {r} : call'[s] = call[s]
  BY <1>1 DEF TypeOK
<1> QED
  BY <1>1, <1>2, <1>3, Granted

LEMMA LogoutRefreshKept ==
  ASSUME AuthInv, NEW r \in Requests, LogoutRefresh(r)
  PROVE  /\ Kept(r) /\ pc[r] = "logout" /\ pc'[r] = "done" /\ EndsOwn(r)
         /\ \A t \in Requests : tokens[t] = Null => tokens'[t] = Null
         /\ UNCHANGED <<accounts, blacklist, call>>
<1> USE DEF AuthInv
<1>1. /\ pc[r] = "logout" /\ Finish(r, Answer("ok", Null))
      /\ (call[r].token # Null /\ Revoke({call[r].token})) \/ UNCHANGED tokens
      /\ UNCHANGED <<now, redisUp, accounts, blacklist, call>>
  BY DEF LogoutRefresh
<1>2. /\ call[r].op = "logout"
      /\ call[r].token # Null => call[r].token \in Requests /\ tokens[call[r].token] # Null
  BY <1>1 DEF RequestOK
<1>3. RowsOf(r) /\ EndsOwn(r) /\ \A t \in Requests : tokens[t] = Null => tokens'[t] = Null
  <2>1. CASE call[r].token # Null /\ Revoke({call[r].token})
    <3>1. /\ {call[r].token} \in SUBSET Requests
          /\ \A t \in {call[r].token} : tokens[t] # Null /\ tokens[t].user = ActsFor(r)
      BY <1>2, <2>1 DEF ActsFor
    <3> QED
      BY <2>1, <3>1, RevokesOwn
  <2>2. CASE UNCHANGED tokens
    BY <2>2, NothingRevoked DEF EndsOwn
  <2> QED
    BY <1>1, <2>1, <2>2
<1>4. Answer("ok", Null) \in Replies /\ Answer("ok", Null).kind = "ok"
  BY AnswerIsTyped DEF Kinds, Replies
<1> QED
  BY <1>1, <1>2, <1>3, <1>4, Ended

LEMMA RevokeSessionKept ==
  ASSUME AuthInv, NEW r \in Requests, RevokeSession(r)
  PROVE  /\ Kept(r) /\ pc[r] = "revoke" /\ pc'[r] = "done" /\ EndsOwn(r)
         /\ \A t \in Requests : tokens[t] = Null => tokens'[t] = Null
         /\ UNCHANGED <<accounts, blacklist, call>>
<1> USE DEF AuthInv
<1>1. /\ pc[r] = "revoke" /\ UNCHANGED <<now, redisUp, accounts, blacklist, call>>
      /\ \/ OwnSession(r) /\ Revoke({call[r].token}) /\ Finish(r, Answer("ok", Null))
         \/ UNCHANGED tokens /\ Finish(r, Answer("notFound", Null))
  BY DEF RevokeSession
<1>2. call[r].op = "revoke" /\ call[r].token \in Requests
  BY <1>1 DEF RequestOK
<1>3. RowsOf(r) /\ EndsOwn(r) /\ \A t \in Requests : tokens[t] = Null => tokens'[t] = Null
  <2>1. CASE OwnSession(r) /\ Revoke({call[r].token})
    <3>1. /\ {call[r].token} \in SUBSET Requests
          /\ \A t \in {call[r].token} : tokens[t] # Null /\ tokens[t].user = ActsFor(r)
      BY <1>2, <2>1 DEF ActsFor, OwnSession, SessionsOf
    <3> QED
      BY <2>1, <3>1, RevokesOwn
  <2>2. CASE UNCHANGED tokens
    BY <2>2, NothingRevoked DEF EndsOwn
  <2> QED
    BY <1>1, <2>1, <2>2
<1>4. PICK kind \in {"ok", "notFound"} : Finish(r, Answer(kind, Null))
  BY <1>1
<1>5. Answer(kind, Null) \in Replies /\ Answer(kind, Null).kind = kind
  BY AnswerIsTyped DEF Kinds, Replies
<1> QED
  BY <1>1, <1>2, <1>3, <1>4, <1>5, Ended

LEMMA AbortKept ==
  ASSUME AuthInv, NEW r \in Requests, Abort(r)
  PROVE  Kept(r) /\ pc[r] # "idle" /\ pc'[r] = "done" /\ reply'[r].kind = "unknown"
         /\ UNCHANGED <<accounts, tokens, blacklist, call>>
<1> USE DEF AuthInv
<1>1. /\ pc[r] \notin {"idle", "done"} /\ Finish(r, Answer("unknown", Null))
      /\ UNCHANGED <<now, redisUp, accounts, tokens, blacklist, call>>
  BY DEF Abort
<1>2. Answer("unknown", Null) \in Replies /\ Answer("unknown", Null).kind = "unknown"
  BY AnswerIsTyped DEF Kinds, Replies
<1>3. RowsOf(r)
  BY <1>1, NothingRevoked
<1> QED
  BY <1>1, <1>2, <1>3, Ended

-----------------------------------------------------------------------------
(* The invariant is inductive.                                              *)

LEMMA InitAuth == Init => AuthInv
<1> SUFFICES ASSUME Init PROVE AuthInv
  OBVIOUS
<1>1. NoCall \in CallType /\ NoCall.op = "profile"
  BY CallIsTyped DEF NoCall, Operations, Call
<1>2. NoReply \in Replies /\ NoReply.kind = "none"
  BY AnswerIsTyped DEF NoReply, Replies, Answer
<1>3. TypeOK
  BY <1>1, <1>2, AuthAssumption DEF Init, TypeOK, Times, Replies
<1>4. \A r \in Requests : RequestOK(r)
  BY <1>1, <1>2 DEF Init, RequestOK, Handed
<1>5. EntriesLast
  BY DEF Init, EntriesLast
<1> QED
  BY <1>1, <1>2, <1>3, <1>4, <1>5
     DEF Init, AuthInv, EmailMutex, RegistrationIsTrue, Successors, Retired

\* What a step of r does to its own row, its registration and the blacklist.
LEMMA StepKept ==
  ASSUME AuthInv, NEW r \in Requests, Arrive(r) \/ Step(r) \/ Abort(r)
  PROVE  /\ Kept(r)
         /\ EntriesLast'
         /\ tokens'[r] # Null => \/ call'[r].op # "refresh"
                                 \/ pc[r] = "issue" /\ call'[r] = call[r]
         /\ \/ RegisterCommit(r)
            \/ /\ UNCHANGED accounts
               /\ call'[r].op = "register" =>
                    \/ reply'[r].kind \notin {"ok", "taken"}
                    \/ reply'[r].kind = "taken" /\ call'[r].user \in users
<1>1. /\ pc[r] # "done" => tokens[r] = Null /\ reply[r] = NoReply /\ reply[r].kind = "none"
      /\ EntriesLast
      /\ blacklist' = blacklist => EntriesLast'
  BY DEF AuthInv, RequestOK, NoReply, Answer, EntriesLast
<1>2. CASE RegisterTaken(r) \/ LoginRefused(r) \/ RefreshRefused(r) \/ Unauthorized(r) \/ Profile(r)
  BY <1>1, <1>2, RefusalsKept
<1>3. CASE RegisterInsert(r)
  BY <1>1, <1>3, InsertKept DEF Kept
<1>4. CASE Login(r)
  BY <1>1, <1>4, LoginKept
<1>5. CASE RefreshLookup(r)
  BY <1>1, <1>5, LookupKept
<1>6. CASE LogoutAccess(r)
  BY <1>1, <1>6, LogoutKept
<1>7. CASE RevokeDevice(r)
  BY <1>1, <1>7, DeviceKept
<1>8. CASE RegisterCommit(r)
  BY <1>1, <1>8, CommitKept
<1>9. CASE RefreshReuse(r)
  BY <1>1, <1>9, ReuseKept, FoundToken
<1>10. CASE RefreshRevoke(r)
  BY <1>1, <1>10, RotateKept, FoundToken
<1>11. CASE RefreshIssue(r)
  BY <1>1, <1>11, IssueKept, FoundToken
<1>12. CASE LogoutRefresh(r)
  <2>1. call[r].op = "logout"
    BY <1>12 DEF LogoutRefresh, AuthInv, RequestOK
  <2> QED
    BY <1>1, <1>12, <2>1, LogoutRefreshKept
<1>13. CASE RevokeSession(r)
  <2>1. call[r].op = "revoke"
    BY <1>13 DEF RevokeSession, AuthInv, RequestOK
  <2> QED
    BY <1>1, <1>13, <2>1, RevokeSessionKept
<1>14. CASE Abort(r)
  BY <1>1, <1>14, AbortKept DEF Kept
<1> QED
  BY <1>2, <1>3, <1>4, <1>5, <1>6, <1>7, <1>8, <1>9, <1>10, <1>11, <1>12, <1>13, <1>14
     DEF Arrive, Step

LEMMA StepAuth ==
  ASSUME AuthInv, NEW r \in Requests, Arrive(r) \/ Step(r) \/ Abort(r)
  PROVE  AuthInv'
<1> USE DEF AuthInv
<1>1. /\ TypeOK' /\ RowsOf(r) /\ Others(r) /\ RequestOK(r)'
      /\ pc[r] # "done" /\ now' = now /\ users \subseteq users' /\ EntriesLast'
  BY StepKept DEF Kept
<1>2. \A s \in Requests \ {r} : pc[s] = "commit" => call[s].user \notin users'
  <2>1. CASE RegisterCommit(r)
    BY <2>1, CommitKept DEF EmailMutex, RequestOK
  <2>2. CASE UNCHANGED accounts
    BY <2>2 DEF accounts, RequestOK
  <2> QED
    BY <2>1, <2>2, StepKept
<1>3. ASSUME NEW s \in Requests PROVE RequestOK(s)'
  <2>1. CASE s = r
    BY <1>1, <2>1
  <2>2. CASE s # r
    <3>1. /\ pc'[s] = pc[s] /\ call'[s] = call[s] /\ reply'[s] = reply[s]
          /\ RequestOK(s)
      BY <1>1, <2>2 DEF Others
    <3>2. \A t \in Requests : tokens[t] # Null =>
            tokens'[t] # Null /\ (tokens[t].revoked => tokens'[t].revoked)
      BY <1>1 DEF RowsOf, RowsKept
    <3>3. tokens[s] = Null => tokens'[s] = Null
      BY <1>1, <2>2 DEF RowsOf
    <3>4. s \in Handed' <=> s \in Handed
      BY <3>1 DEF Handed
    <3> QED
      BY <1>1, <1>2, <2>2, <3>1, <3>2, <3>3, <3>4 DEF RequestOK
  <2> QED
    BY <2>1, <2>2
<1>4. EmailMutex'
  <2>1. CASE RegisterInsert(r)
    BY <1>1, <2>1, InsertKept DEF EmailMutex, EmailHolders, Others
  <2>2. CASE pc'[r] # "commit"
    BY <1>1, <2>2 DEF EmailMutex, Others
  <2>3. RegisterInsert(r) \/ pc'[r] # "commit"
    BY RefusalsKept, LoginKept, LookupKept, LogoutKept, DeviceKept, CommitKept, ReuseKept,
       RotateKept, IssueKept, LogoutRefreshKept, RevokeSessionKept, AbortKept DEF Arrive, Step
  <2> QED
    BY <2>1, <2>2, <2>3
<1>5. Registered \subseteq users'
  BY <1>1
<1>6. RegistrationIsTrue'
  <2>1. CASE RegisterCommit(r)
    <3>1. /\ users' = users \cup {call[r].user} /\ wallets' = wallets \cup {call[r].user}
          /\ call' = call /\ call[r].user \notin users
      BY <2>1, CommitKept DEF RequestOK
    <3>2. \A s \in Requests \ {r} : reply'[s] = reply[s]
      BY <1>1 DEF Others
    <3> QED
      BY <3>1, <3>2 DEF RegistrationIsTrue
  <2>2. CASE /\ UNCHANGED accounts
             /\ call'[r].op = "register" =>
                  \/ reply'[r].kind \notin {"ok", "taken"}
                  \/ reply'[r].kind = "taken" /\ call'[r].user \in users
    <3>1. \A s \in Requests \ {r} : reply'[s] = reply[s] /\ call'[s] = call[s]
      BY <1>1 DEF Others
    <3>2. call'[r].op = "register" => reply'[r].kind # "ok"
      BY <2>2
    <3> QED
      BY <2>2, <3>1, <3>2 DEF RegistrationIsTrue, accounts
  <2> QED
    BY <2>1, <2>2, StepKept
<1>7. Successors' /\ Retired'
  <2> SUFFICES ASSUME NEW s \in Requests, call'[s].op = "refresh", tokens'[s] # Null
               PROVE  /\ call'[s].token \in Requests /\ tokens'[call'[s].token] # Null
                      /\ tokens'[call'[s].token].revoked
    BY DEF Successors, Retired
  <2>1. \A t \in Requests : tokens[t] # Null /\ tokens[t].revoked =>
                              tokens'[t] # Null /\ tokens'[t].revoked
    BY <1>1 DEF RowsOf, RowsKept
  <2>2. /\ call'[s].token = call[s].token /\ call[s].token \in Requests
        /\ tokens[call[s].token] # Null /\ tokens[call[s].token].revoked
    <3>1. CASE s = r
      <4>1. pc[r] = "issue" /\ call'[r] = call[r]
        BY <3>1, StepKept
      <4> QED
        BY <3>1, <4>1, FoundToken DEF RequestOK
    <3>2. CASE s # r
      <4>1. call'[s] = call[s] /\ tokens[s] # Null
        BY <1>1, <3>2 DEF Others, RowsOf
      <4> QED
        BY <4>1 DEF Successors, Retired
    <3> QED
      BY <3>1, <3>2
  <2> QED
    BY <2>1, <2>2
<1> QED
  BY <1>1, <1>3, <1>4, <1>5, <1>6, <1>7

\* Bounds only move up as the clock does.
LEMMA LaterBound ==
  ASSUME NEW a \in Int, NEW b \in Int, NEW k \in Int, a <= b
  PROVE  \A x \in 0 .. a + k : x \in 0 .. b + k
OBVIOUS

LEMMA QuietAuth ==
  ASSUME AuthInv, Tick \/ RedisToggle \/ UNCHANGED vars
  PROVE  AuthInv'
<1> USE DEF AuthInv
<1>1. /\ UNCHANGED <<accounts, tokens, blacklist, call, pc, reply>>
      /\ now' \in Times /\ now <= now' /\ redisUp' \in BOOLEAN
  <2>1. redisUp \in BOOLEAN /\ now \in Times
    BY DEF TypeOK
  <2>2. CASE Tick
    <3>1. redisUp' \in BOOLEAN
      BY <2>1, <2>2 DEF Tick
    <3>2. /\ UNCHANGED <<accounts, tokens, blacklist, call, pc, reply>>
          /\ now < MaxTime /\ now' = now + 1
      BY <2>2 DEF Tick
    <3> QED
      BY <2>1, <3>1, <3>2, AuthAssumption DEF Times
  <2>3. CASE RedisToggle
    <3>1. redisUp' \in BOOLEAN
      BY <2>3 DEF RedisToggle
    <3>2. UNCHANGED <<now, accounts, tokens, blacklist, call, pc, reply>>
      BY <2>3 DEF RedisToggle
    <3> QED
      BY <2>1, <3>1, <3>2 DEF Times
  <2>4. CASE UNCHANGED vars
    <3>1. redisUp' \in BOOLEAN
      BY <2>1, <2>4 DEF vars
    <3> QED
      BY <2>1, <2>4, <3>1 DEF vars, Times
  <2> QED
    BY <2>2, <2>3, <2>4
<1>2. now \in Int /\ now' \in Int /\ AccessTTL \in Int
  BY <1>1, AuthAssumption DEF TypeOK, Times
<1>3. TypeOK'
  <2>1. \A x \in 0 .. now + AccessTTL : x \in 0 .. now' + AccessTTL
    <3>1. now <= now'
      BY <1>1
    <3> QED
      BY <3>1, <1>2, LaterBound
  <2>2. \A a \in AccessTokens : blacklist'[a] \in 0 .. now' + AccessTTL
    BY <1>1, <2>1 DEF TypeOK
  <2>3. redisUp' \in BOOLEAN /\ now' \in Times
    BY <1>1
  <2>4. /\ users' \subseteq Emails /\ wallets' \subseteq Emails
        /\ tokens' \in [Requests -> RefreshToken \cup {Null}]
        /\ call' \in [Requests -> CallType]
        /\ pc' \in [Requests -> Phases]
        /\ reply' \in [Requests -> Replies]
    BY <1>1 DEF accounts, TypeOK, Phases, Replies
  <2> QED
    BY <2>2, <2>3, <2>4 DEF TypeOK, Phases, Replies
<1>4. ASSUME NEW r \in Requests PROVE RequestOK(r)'
  <2>1. r \in Handed' <=> r \in Handed
    BY <1>1 DEF Handed
  <2>2. ASSUME reply[r].access \in AccessTokens, reply[r].access.exp <= now + AccessTTL
        PROVE  reply[r].access.exp <= now' + AccessTTL
    <3>1. reply[r].access.exp \in Int
      BY <2>2 DEF AccessTokens
    <3> QED
      BY <1>1, <1>2, <2>2, <3>1
  <2>3. RequestOK(r)
    OBVIOUS
  <2> QED
    BY <1>1, <2>1, <2>2, <2>3 DEF RequestOK, accounts
<1> QED
  BY <1>1, <1>3, <1>4
     DEF EmailMutex, EntriesLast, RegistrationIsTrue, Successors, Retired, accounts

\* Accounts and sessions stay in order: what every handler knows of the tables
\* at each of its statements, and what the tables say of each other.
THEOREM AuthInvariant == Spec => []AuthInv
<1>1. Init => AuthInv
  BY InitAuth
<1>2. AuthInv /\ [Next]_vars => AuthInv'
  BY StepAuth, QuietAuth DEF Next
<1> QED
  BY <1>1, <1>2, PTL DEF Spec

\* Every column and every phase has the values the code has for it, and no
\* blacklist entry outlives the life of a token issued at the logout.
THEOREM AuthTypeCorrect == Spec => []TypeOK
<1>1. AuthInv => TypeOK
  BY DEF AuthInv
<1> QED
  BY <1>1, AuthInvariant, PTL

\* Registration is all or nothing, an address has one owner, and what clients
\* are told of it is so, however registrations race, fail or lose their answer.
THEOREM RegistrationStaysTrue == Spec => []RegistrationIsTrue
<1>1. AuthInv => RegistrationIsTrue
  BY DEF AuthInv
<1> QED
  BY <1>1, AuthInvariant, PTL

-----------------------------------------------------------------------------
(* What a step may not do.                                                  *)

LEMMA StepEnds ==
  ASSUME AuthInv, NEW r \in Requests, Arrive(r) \/ Step(r) \/ Abort(r)
  PROVE  \/ \A t \in Requests : tokens[t] # Null => tokens'[t] = tokens[t]
         \/ /\ pc[r] \in {"rotate", "reuse", "logout", "revoke"} /\ pc'[r] # pc[r]
            /\ EndsOwn(r)
<1>1. pc[r] # "done" => tokens[r] = Null
  BY DEF AuthInv, RequestOK
<1>2. CASE RefreshReuse(r) \/ RefreshRevoke(r) \/ LogoutRefresh(r) \/ RevokeSession(r)
  BY <1>2, ReuseKept, RotateKept, LogoutRefreshKept, RevokeSessionKept
<1>3. CASE Login(r) \/ RefreshIssue(r)
  BY <1>1, <1>3, LoginKept, IssueKept
<1>4. CASE ~(\/ RefreshReuse(r) \/ RefreshRevoke(r) \/ LogoutRefresh(r) \/ RevokeSession(r)
             \/ Login(r) \/ RefreshIssue(r))
  <2>1. tokens' = tokens
    BY <1>4, InsertKept, RefusalsKept, LookupKept, LogoutKept, DeviceKept, CommitKept, AbortKept
       DEF Arrive, Step
  <2> QED
    BY <2>1
<1> QED
  BY <1>2, <1>3, <1>4

\* A session ends for good, and only by a call made with the tokens of its user:
\* whatever tokens are replayed and however the statements of two calls fall.
THEOREM SessionsEndByOwner == Spec => SessionsEndByTheirOwner
<1> DEFINE Fate(t) == tokens[t] # Null =>
             \/ tokens'[t] = tokens[t]
             \/ /\ tokens'[t] = [tokens[t] EXCEPT !.revoked = TRUE]
                /\ \E r \in Requests : /\ pc[r] \in {"rotate", "reuse", "logout", "revoke"}
                                       /\ pc'[r] # pc[r]
                                       /\ ActsFor(r) = tokens[t].user
<1>1. AuthInv /\ [Next]_vars => [\A t \in Requests : Fate(t)]_vars
  <2> SUFFICES ASSUME AuthInv, Next PROVE \A t \in Requests : Fate(t)
    OBVIOUS
  <2>1. ASSUME NEW r \in Requests, Arrive(r) \/ Step(r) \/ Abort(r)
        PROVE  \A t \in Requests : Fate(t)
    BY <2>1, StepEnds DEF EndsOwn
  <2>2. CASE Tick \/ RedisToggle
    BY <2>2 DEF Tick, RedisToggle
  <2> QED
    BY <2>1, <2>2 DEF Next
<1> QED
  BY <1>1, AuthInvariant, PTL DEF Spec, SessionsEndByTheirOwner

\* A step begins no rotation of a token that is spent.
LEMMA SpentTokenStaysSpent ==
  ASSUME AuthInv, NEW t \in Requests, tokens[t] # Null,
         tokens[t].revoked \/ \E s \in Rotations(t) : tokens[s] # Null,
         NEW r \in Requests, Arrive(r) \/ Step(r) \/ Abort(r),
         NEW s \in Requests, call'[s].op = "refresh", call'[s].token = t,
         pc'[s] \in {"rotate", "issue"} \/ tokens'[s] # Null
  PROVE  s \in Rotations(t)
<1>1. tokens[t].revoked
  BY DEF AuthInv, Retired, Rotations
<1>2. /\ Kept(r)
      /\ tokens'[r] # Null => \/ call'[r].op # "refresh"
                              \/ pc[r] = "issue" /\ call'[r] = call[r]
  BY StepKept
<1>3. RowsOf(r) /\ Others(r)
  BY <1>2 DEF Kept
<1>4. CASE s # r
  BY <1>3, <1>4 DEF Others, RowsOf, Rotations
<1>5. CASE s = r /\ tokens'[r] # Null
  BY <1>2, <1>5 DEF Rotations
<1>6. CASE s = r /\ pc'[r] \in {"rotate", "issue"}
  <2>1. ~RefreshLookup(r)
    BY <1>1, <1>6, LookupKept DEF LookupPhase
  <2>2. CASE RefreshRevoke(r)
    BY <1>6, <2>2, RotateKept DEF Rotations
  <2>3. CASE ~RefreshRevoke(r)
    BY <1>6, <2>1, <2>3, InsertKept, RefusalsKept, LoginKept, LogoutKept, DeviceKept,
       CommitKept, ReuseKept, IssueKept, LogoutRefreshKept, RevokeSessionKept, AbortKept
       DEF Arrive, Step
  <2> QED
    BY <2>2, <2>3
<1> QED
  BY <1>4, <1>5, <1>6

\* A spent token is replaced by no rotation but those that had read it before,
\* whatever spent it and however the statements of its rotations fall.
THEOREM OldTokensRetire == Spec => OldTokenRetired
<1> DEFINE Spent(t) == /\ tokens[t] # Null
                       /\ tokens[t].revoked \/ \E r \in Rotations(t) : tokens[r] # Null
                       => Rotations(t)' \subseteq Rotations(t)
<1>1. AuthInv /\ [Next]_vars => [\A t \in Requests : Spent(t)]_vars
  <2> SUFFICES ASSUME AuthInv, Next, NEW t \in Requests, tokens[t] # Null,
                      tokens[t].revoked \/ \E r \in Rotations(t) : tokens[r] # Null
               PROVE  Rotations(t)' \subseteq Rotations(t)
    OBVIOUS
  <2>1. ASSUME NEW r \in Requests, Arrive(r) \/ Step(r) \/ Abort(r), NEW s \in Rotations(t)'
        PROVE  s \in Rotations(t)
    <3>1. /\ s \in Requests /\ call'[s].op = "refresh" /\ call'[s].token = t
          /\ pc'[s] \in {"rotate", "issue"} \/ tokens'[s] # Null
      BY <2>1 DEF Rotations
    <3> QED
      BY <2>1, <3>1, SpentTokenStaysSpent
  <2>2. CASE Tick \/ RedisToggle
    <3>1. UNCHANGED <<call, pc, tokens>>
      BY <2>2 DEF Tick, RedisToggle
    <3> QED
      BY <3>1 DEF Rotations
  <2> QED
    BY <2>1, <2>2 DEF Next
<1> QED
  BY <1>1, AuthInvariant, PTL DEF Spec, OldTokenRetired

\* The middleware lets no blacklisted token through while Redis answers.
LEMMA AdmittedIsNotListed ==
  ASSUME AuthInv, NEW a \in Bearer, Admits(a), redisUp
  PROVE  blacklist[a] = 0
<1>1. a \in AccessTokens
  BY HandedTokens
<1>2. /\ now \in Int /\ a.exp \in Int /\ blacklist[a] \in Int
      /\ blacklist[a] = 0 \/ a.exp <= blacklist[a]
  BY <1>1 DEF AuthInv, EntriesLast, TypeOK, Times, AccessTokens
<1>3. now < a.exp /\ ~(now < blacklist[a])
  BY DEF Admits, Blacklisted
<1> QED
  BY <1>2, <1>3

\* A token that was blacklisted opens no protected route again, at any later
\* time, unless Redis cannot be asked.
THEOREM LogoutStaysFinal == Spec => LogoutIsFinal
<1> DEFINE Shut(r) == /\ pc[r] = "idle" /\ pc'[r] # "idle"
                      /\ call'[r].op \in {"profile", "revoke"}
                      /\ reply'[r].kind # "unauthorized"
                      /\ redisUp
                      => blacklist[call'[r].access] = 0
<1>1. AuthInv /\ [Next]_vars => [\A r \in Requests : Shut(r)]_vars
  <2> SUFFICES ASSUME AuthInv, Next, NEW r \in Requests,
                      pc[r] = "idle", pc'[r] # "idle", call'[r].op \in {"profile", "revoke"},
                      reply'[r].kind # "unauthorized", redisUp
               PROVE  blacklist[call'[r].access] = 0
    OBVIOUS
  <2>1. Arrive(r) \/ Step(r) \/ Abort(r)
    <3>1. ASSUME NEW s \in Requests \ {r}, Arrive(s) \/ Step(s) \/ Abort(s) PROVE FALSE
      BY <3>1, StepKept DEF Kept, Others
    <3>2. ~Tick /\ ~RedisToggle
      BY DEF Tick, RedisToggle
    <3> QED
      BY <3>1, <3>2 DEF Next
  <2>2. call'[r].access \in Bearer /\ Admits(call'[r].access)
    <3>1. CASE \/ RegisterTaken(r) \/ LoginRefused(r) \/ RefreshRefused(r)
               \/ Unauthorized(r) \/ Profile(r)
      BY <3>1, RefusalsKept
    <3>2. CASE RevokeDevice(r)
      BY <3>2, DeviceKept
    <3>3. CASE RegisterInsert(r) \/ Login(r) \/ RefreshLookup(r) \/ LogoutAccess(r)
      BY <3>3, InsertKept, LoginKept, LookupKept, LogoutKept
    <3>4. CASE Step(r) \/ Abort(r)
      BY <3>4, CommitKept, ReuseKept, RotateKept, IssueKept, LogoutRefreshKept,
         RevokeSessionKept, AbortKept DEF Step
    <3> QED
      BY <2>1, <3>1, <3>2, <3>3, <3>4 DEF Arrive
  <2> QED
    BY <2>2, AdmittedIsNotListed
<1> QED
  BY <1>1, AuthInvariant, PTL DEF Spec, LogoutIsFinal

\* A closed account stays closed in every step but a login of its user.
LEMMA StaysClosed ==
  ASSUME AuthInv, NEW u \in Emails, Closed(u), NEW r \in Requests,
         Arrive(r) \/ Step(r) \/ Abort(r),
         ~(pc[r] = "idle" /\ pc'[r] # "idle" /\ call'[r].op = "login" /\ call'[r].user = u)
  PROVE  Closed(u)'
<1>1. /\ TypeOK' /\ RowsOf(r) /\ Others(r) /\ now' = now /\ pc[r] # "done" /\ tokens[r] = Null
  BY StepKept DEF Kept, AuthInv, RequestOK
<1>2. ASSUME NEW t \in Requests, Live(t)'
      PROVE  tokens'[t].user # u
  <2>1. CASE tokens[t] # Null
    <3>1. /\ tokens'[t].user = tokens[t].user /\ tokens'[t].expires = tokens[t].expires
          /\ tokens[t].revoked => tokens'[t].revoked
      BY <1>1, <2>1 DEF RowsOf, RowsKept
    <3>2. Live(t)
      BY <1>1, <1>2, <2>1, <3>1 DEF Live, Expired
    <3> QED
      BY <3>1, <3>2 DEF Closed
  <2>2. CASE tokens[t] = Null
    <3>1. t = r /\ tokens'[r] # Null /\ tokens'[r] # tokens[r]
      BY <1>1, <1>2, <2>2 DEF RowsOf, Live
    <3>2. CASE Login(r)
      BY <3>1, <3>2, LoginKept
    <3>3. CASE RefreshIssue(r)
      BY <3>1, <3>3, IssueKept DEF Closed
    <3>4. CASE ~Login(r) /\ ~RefreshIssue(r)
      BY <1>1, <3>1, <3>4, InsertKept, RefusalsKept, LookupKept, LogoutKept, DeviceKept,
         CommitKept, ReuseKept, RotateKept, LogoutRefreshKept, RevokeSessionKept, AbortKept
         DEF Arrive, Step
    <3> QED
      BY <3>2, <3>3, <3>4
  <2> QED
    BY <2>1, <2>2
<1>3. ASSUME NEW t \in Requests, pc'[t] \in {"rotate", "issue"}
      PROVE  tokens'[call'[t].token].user # u
  <2>1. CASE t # r
    <3>1. pc[t] = pc'[t] /\ call'[t] = call[t]
      BY <1>1, <2>1 DEF Others
    <3>2. tokens'[call[t].token].user = tokens[call[t].token].user
      BY <1>1, <1>3, <3>1, FoundToken DEF RowsOf, RowsKept
    <3> QED
      BY <1>3, <3>1, <3>2 DEF Closed
  <2>2. CASE t = r
    <3>1. CASE RefreshLookup(r)
      <4> DEFINE p == call'[r].token
      <4>1. /\ p \in Requests /\ tokens[p] # Null /\ tokens' = tokens
            /\ pc'[r] = LookupPhase(p)
        BY <3>1, LookupKept
      <4>2. Live(p)
        BY <1>3, <2>2, <4>1 DEF LookupPhase, Live
      <4> QED
        BY <2>2, <4>1, <4>2 DEF Closed
    <3>2. CASE RefreshRevoke(r)
      <4>1. pc[r] = "rotate" /\ call' = call
        BY <3>2, RotateKept
      <4>2. tokens'[call[r].token].user = tokens[call[r].token].user
        BY <1>1, <4>1, FoundToken DEF RowsOf, RowsKept
      <4> QED
        BY <2>2, <4>1, <4>2 DEF Closed
    <3>3. CASE ~RefreshLookup(r) /\ ~RefreshRevoke(r)
      BY <1>3, <2>2, <3>3, InsertKept, RefusalsKept, LoginKept, LogoutKept, DeviceKept,
         CommitKept, ReuseKept, IssueKept, LogoutRefreshKept, RevokeSessionKept, AbortKept
         DEF Arrive, Step
    <3> QED
      BY <3>1, <3>2, <3>3
  <2> QED
    BY <2>1, <2>2
<1> QED
  BY <1>2, <1>3 DEF Closed

\* Time and Redis open nothing.
LEMMA QuietClosed ==
  ASSUME AuthInv, NEW u \in Emails, Closed(u), Tick \/ RedisToggle
  PROVE  Closed(u)'
<1>1. UNCHANGED <<tokens, call, pc>>
  BY DEF Tick, RedisToggle
<1>2. now \in Int /\ now' \in Int /\ now <= now'
  <2>1. now \in Int
    BY DEF AuthInv, TypeOK, Times
  <2>2. now' = now + 1 \/ now' = now
    BY DEF Tick, RedisToggle
  <2> QED
    BY <2>1, <2>2
<1>3. ASSUME NEW t \in Requests, Live(t)' PROVE Live(t)
  <2>1. tokens[t] # Null /\ ~tokens[t].revoked /\ ~(now' > tokens[t].expires)
    BY <1>1, <1>3 DEF Live, Expired
  <2>2. tokens[t].expires \in Int
    BY <2>1 DEF AuthInv, TypeOK, RefreshToken
  <2>3. ~(now > tokens[t].expires)
    BY <1>2, <2>1, <2>2
  <2> QED
    BY <2>1, <2>3 DEF Live, Expired
<1> QED
  BY <1>1, <1>3 DEF Closed

\* Once all of a user's sessions are over, only the password opens another: no
\* replay of old tokens in any order, and no failure between two statements.
THEOREM OnlyLoginsOpen == Spec => OnlyLoginOpensASession
<1> DEFINE Opens(u) == Closed(u) /\ ~Closed(u)' =>
             \E r \in Requests : /\ pc[r] = "idle" /\ pc'[r] # "idle"
                                 /\ call'[r].op = "login" /\ call'[r].user = u
<1>1. AuthInv /\ [Next]_vars => [\A u \in Emails : Opens(u)]_vars
  <2> SUFFICES ASSUME AuthInv, Next, NEW u \in Emails PROVE Opens(u)
    OBVIOUS
  <2>1. ASSUME NEW r \in Requests, Arrive(r) \/ Step(r) \/ Abort(r) PROVE Opens(u)
    BY <2>1, StaysClosed
  <2>2. CASE Tick \/ RedisToggle
    BY <2>2, QuietClosed
  <2> QED
    BY <2>1, <2>2 DEF Next
<1> QED
  BY <1>1, AuthInvariant, PTL DEF Spec, OnlyLoginOpensASession

=============================================================================
