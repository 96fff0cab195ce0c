---------------------------- MODULE AccountsProofs ----------------------------
(***************************************************************************)
(* Accounts keeps the six invariants its run checks, for any addresses,    *)
(* passwords, providers, older accounts, faults, and number of calls under *)
(* way and of tokens mailed.                                               *)
(***************************************************************************)
EXTENDS Accounts, SequenceTheorems, TLAPS

-----------------------------------------------------------------------------
(* Calls under way *)

\* What a call carries at the statement it is at.
LEMMA Fields ==
  ASSUME NEW x \in Call
  PROVE  /\ x.kind = "register" =>
              /\ x.email \in Emails /\ x.password \in Passwords
              /\ x = [kind |-> "register", at |-> x.at, email |-> x.email,
                      password |-> x.password]
         /\ x.at = "token" => x.email \in Emails
         /\ x.at = "consume" => x.token \in 1..MaxTokens
         /\ x.kind = "reset" => x.password \in Passwords
         /\ x.at = "prices" =>
              /\ x.todo \subseteq Providers /\ x.missing \subseteq Providers
              /\ x.kind \in {"startup", "pricing"}
              /\ x = [kind |-> x.kind, at |-> "prices", todo |-> x.todo,
                      missing |-> x.missing]
BY DEF Call

\* Every call there can be.
LEMMA Calls ==
  /\ Over \in Call
  /\ [kind |-> "pricing", at |-> "ok"] \in Call
  /\ [kind |-> "startup", at |-> "user"] \in Call
  /\ \A b \in BOOLEAN : [kind |-> "confirm", at |-> "refused", again |-> b] \in Call
  /\ \A a \in {"user", "token"}, e \in Emails, p \in Passwords :
       [kind |-> "register", at |-> a, email |-> e, password |-> p] \in Call
  /\ \A k \in {"verify", "forgot"}, e \in Emails :
       [kind |-> k, at |-> "token", email |-> e] \in Call
  /\ \A t \in 1..MaxTokens : [kind |-> "confirm", at |-> "consume", token |-> t] \in Call
  /\ \A t \in 1..MaxTokens, p \in Passwords, b \in BOOLEAN :
       [kind |-> "reset", at |-> "consume", token |-> t, password |-> p,
        again |-> b] \in Call
  /\ \A k \in {"startup", "pricing"} : \A T, M \in SUBSET Providers :
       [kind |-> k, at |-> "prices", todo |-> T, missing |-> M] \in Call
BY DEF Call, Over

-----------------------------------------------------------------------------
(* The invariant *)

\* Tokens, and calls about to mail one, are of accounts that exist.
Addressed ==
  /\ \A t \in DOMAIN tokens : Exists(tokens[t].user)
  /\ \A q \in Requests : call[q].at = "token" => Exists(call[q].email)

\* A call that is about to use a token up has found one of the right type.
Found ==
  \A q \in Requests : call[q].at = "consume" =>
    /\ call[q].token \in DOMAIN tokens
    /\ tokens[call[q].token].type = IF call[q].kind = "reset" THEN "reset" ELSE "verify"

\* What is known of the tokens a call was answered ok for.
DoneMeans ==
  \A t \in done : IF tokens[t].type = "reset" THEN tokens[t].used
                  ELSE user[tokens[t].user].verified

\* A registration between its commits is the only one of its address so far.
SoleOwner ==
  /\ \A e \in Emails : kept[e] # {} => Exists(e)
  /\ \A q \in Requests : At(q, {"register"}, "token") =>
       /\ kept[call[q].email] = {}
       /\ \/ user[call[q].email].password = {call[q].password}
          \/ \E t \in wrote : tokens[t].user = call[q].email
  /\ \A q, r \in Requests :
       /\ At(q, {"register"}, "token") /\ At(r, {"register"}, "token")
       /\ call[q].email = call[r].email
       => q = r

\* While there are no prices, a call that looks them up misses all it has seen.
Counted ==
  \A q \in Requests : call[q].at = "prices" /\ prices = {} =>
    call[q].missing = Providers \ call[q].todo

AInv ==
  /\ TypeOK /\ Addressed /\ Found
  /\ DoneMeans /\ ConsumedWhole /\ ResetOnce /\ ConfirmIdempotent
  /\ SoleOwner /\ AccountKept
  /\ Counted /\ AllOrNoPrices

-----------------------------------------------------------------------------
(* Type correctness *)

\* A call that moves is replaced by the new one; the others stay.
LEMMA Moved ==
  ASSUME TypeOK, NEW q \in Requests, NEW x \in Call, Goto(q, x)
  PROVE  call' \in [Requests -> Call] /\ call'[q] = x
         /\ \A r \in Requests \ {q} : call'[r] = call[r]
BY DEF TypeOK, Goto

\* Accounts and what the routes make of them are rows of users.
LEMMA UserType ==
  ASSUME TypeOK, NEW e \in Emails
  PROVE  /\ Exists(e) <=> user[e] \in User
         /\ Exists(e) => user[e].password # {}
         /\ \A p \in Passwords : [verified |-> TRUE, password |-> {p}] \in User
         /\ Exists(e) => [user[e] EXCEPT !.verified = TRUE] \in User
         /\ \A p \in Passwords : Exists(e) => [user[e] EXCEPT !.password = {p}] \in User
<1>1. NoUser \notin User
  BY DEF NoUser, User
<1>2. user[e] \in User \/ user[e] = NoUser
  BY DEF TypeOK
<1>3. user[e] \in User => user[e].password # {}
  BY DEF User
<1> QED
  BY <1>1, <1>2, <1>3 DEF Exists, User

\* Tokens and what the routes make of them are rows of user_tokens.
LEMMA TokenType ==
  ASSUME TypeOK, NEW t \in DOMAIN tokens
  PROVE  /\ t \in 1..MaxTokens
         /\ tokens[t].user \in Emails /\ tokens[t].type \in {"verify", "reset"}
         /\ tokens[t].used \in BOOLEAN
         /\ [tokens[t] EXCEPT !.used = TRUE] \in Token
         /\ [tokens[t] EXCEPT !.expired = TRUE] \in Token
<1>1. DOMAIN tokens = 1..Len(tokens) /\ Len(tokens) \in Nat /\ Len(tokens) <= MaxTokens
  BY DEF TypeOK
<1>2. tokens[t] \in Token
  BY DEF TypeOK
<1>3. t \in 1..MaxTokens
  BY <1>1, AccountAssumption
<1> QED
  BY <1>2, <1>3 DEF Token

\* Replacing one token by another keeps the table well typed.
LEMMA TokensType ==
  ASSUME TypeOK, NEW t \in DOMAIN tokens, NEW x \in Token,
         tokens' = [tokens EXCEPT ![t] = x]
  PROVE  /\ tokens' \in Seq(Token) /\ Len(tokens') = Len(tokens)
         /\ DOMAIN tokens' = DOMAIN tokens
<1>1. tokens \in Seq(Token) /\ t \in 1..Len(tokens)
  BY DEF TypeOK
<1> QED
  BY <1>1, ExceptSeq

\* The look at provider v.
LEMMA PriceChecked ==
  ASSUME TypeOK, NEW q \in Requests, NEW v \in Providers, CheckPrice(q, v)
  PROVE  \E k \in {"startup", "pricing"}, T \in SUBSET Providers, N \in SUBSET Providers :
           /\ Goto(q, [kind |-> k, at |-> "prices", todo |-> T, missing |-> N])
           /\ T = call[q].todo \ {v}
           /\ N = IF v \in prices THEN call[q].missing ELSE call[q].missing \cup {v}
<1> DEFINE T == call[q].todo \ {v}
           N == IF v \in prices THEN call[q].missing ELSE call[q].missing \cup {v}
           y == [call[q] EXCEPT !.todo = T]
           x == [call[q] EXCEPT !.todo = T, !.missing = N]
<1>1. call[q] \in Call /\ call[q].at = "prices"
  BY DEF TypeOK, CheckPrice
<1>2. PICK k \in {"startup", "pricing"} :
        call[q] = [kind |-> k, at |-> "prices", todo |-> call[q].todo,
                   missing |-> call[q].missing]
  BY <1>1, Fields
<1>3. T \in SUBSET Providers /\ N \in SUBSET Providers
  BY <1>1, Fields
<1>4. y = [kind |-> k, at |-> "prices", todo |-> T, missing |-> call[q].missing]
  BY <1>2
<1>5. x = [y EXCEPT !.missing = N]
  OBVIOUS
<1>6. Goto(q, x)
  BY DEF CheckPrice
<1>7. x = [kind |-> k, at |-> "prices", todo |-> T, missing |-> N]
  <2> HIDE DEF x, y, T, N
  <2> QED
    BY <1>4, <1>5
<1> QED
  <2>1. Goto(q, [kind |-> k, at |-> "prices", todo |-> T, missing |-> N])
    <3> HIDE DEF x, T, N
    <3> QED
      BY <1>6, <1>7 DEF Goto
  <2> QED
    BY <1>3, <2>1

\* Every step keeps the types.  What is written to an account or a token relies
\* on their being there (Addressed, Found).
LEMMA TypeStep ==
  ASSUME TypeOK, Addressed, Found, [Next]_vars
  PROVE  TypeOK'
<1>1. ASSUME NEW q \in Requests, NEW e \in Emails, NEW p \in Passwords, register(q, e, p)
      PROVE  TypeOK'
  <2>1. call' \in [Requests -> Call]
    <3>1. [kind |-> "register", at |-> "user", email |-> e, password |-> p] \in Call
      BY Calls
    <3>2. Over \in Call
      BY Calls
    <3> QED
      BY <1>1, <3>1, <3>2, Moved DEF register, Answer
  <2> QED
    BY <1>1, <2>1 DEF TypeOK, register
<1>2. ASSUME NEW q \in Requests, InsertUser(q)
      PROVE  TypeOK'
  <2>1. call[q] \in Call /\ call[q].kind = "register"
    BY <1>2 DEF TypeOK, InsertUser, At
  <2>2. PICK e \in Emails, p \in Passwords :
          /\ call[q].email = e /\ call[q].password = p
          /\ call[q] = [kind |-> "register", at |-> call[q].at, email |-> e, password |-> p]
    BY <2>1, Fields
  <2>3. [call[q] EXCEPT !.at = "token"]
          = [kind |-> "register", at |-> "token", email |-> e, password |-> p]
    BY <2>2
  <2>4. call' \in [Requests -> Call]
    BY <1>2, <2>3, Calls, Moved DEF InsertUser, Answer
  <2>5. user' \in [Emails -> User \cup {NoUser}]
    BY <1>2, <2>2, UserType DEF InsertUser, TypeOK
  <2> QED
    BY <1>2, <2>4, <2>5 DEF TypeOK, InsertUser
<1>3. ASSUME NEW q \in Requests, InsertToken(q)
      PROVE  TypeOK'
  <2>1. call' \in [Requests -> Call]
    BY <1>3, Calls, Moved DEF InsertToken, Answer
  <2>2. call[q] \in Call /\ call[q].email \in Emails
        /\ (call[q].kind = "register" => call[q].password \in Passwords)
    BY <1>3, Fields DEF TypeOK, InsertToken, At
  <2>3. /\ tokens' \in Seq(Token) /\ Len(tokens') <= MaxTokens
        /\ DOMAIN tokens \subseteq DOMAIN tokens'
    <3> DEFINE T == [user |-> call[q].email, used |-> FALSE, expired |-> FALSE,
                     type |-> IF call[q].kind = "forgot" THEN "reset" ELSE "verify"]
    <3>1. T \in Token
      BY <2>2 DEF Token
    <3>2. \/ tokens' = tokens
          \/ Len(tokens) < MaxTokens /\ tokens' = Append(tokens, T)
      BY <1>3 DEF InsertToken
    <3>3. tokens \in Seq(Token) /\ Len(tokens) <= MaxTokens /\ MaxTokens \in Nat
      BY AccountAssumption DEF TypeOK
    <3> HIDE DEF T
    <3> QED
      BY <3>1, <3>2, <3>3
  <2>4. kept' \in [Emails -> SUBSET Passwords]
    BY <1>3, <2>2 DEF InsertToken, TypeOK
  <2> QED
    BY <1>3, <2>1, <2>3, <2>4 DEF TypeOK, InsertToken
<1>4. ASSUME NEW q \in Requests, NEW e \in Emails,
             request_email_verification(q, e) \/ forgot_password(q, e)
      PROVE  TypeOK'
  <2>1. call' \in [Requests -> Call]
    BY <1>4, Calls, Moved DEF request_email_verification, forgot_password, Answer
  <2> QED
    BY <1>4, <2>1 DEF TypeOK, request_email_verification, forgot_password
<1>5. ASSUME NEW q \in Requests, NEW t \in DOMAIN tokens, ConfirmLookup(q, t)
      PROVE  TypeOK'
  <2>1. DoneBefore(t, "verify") \in BOOLEAN
    BY DEF DoneBefore
  <2>2. call' \in [Requests -> Call]
    BY <1>5, <2>1, Calls, Moved, TokenType DEF ConfirmLookup, Answer, Refuse
  <2> QED
    BY <1>5, <2>2 DEF TypeOK, ConfirmLookup
<1>6. ASSUME NEW q \in Requests, NEW t \in DOMAIN tokens, NEW p \in Passwords,
             ResetLookup(q, t, p)
      PROVE  TypeOK'
  <2>1. DoneBefore(t, "reset") \in BOOLEAN
    BY DEF DoneBefore
  <2>2. call' \in [Requests -> Call]
    BY <1>6, <2>1, Calls, Moved, TokenType DEF ResetLookup, Answer
  <2> QED
    BY <1>6, <2>2 DEF TypeOK, ResetLookup
<1>7. ASSUME NEW q \in Requests, ConfirmSave(q) \/ ResetSave(q)
      PROVE  TypeOK'
  <2>1. call' \in [Requests -> Call]
    BY <1>7, Calls, Moved DEF ConfirmSave, ResetSave, Answer
  <2>2. PICK t \in DOMAIN tokens : call[q].token = t
    BY <1>7 DEF Found, ConfirmSave, ResetSave, At
  <2>3. tokens[t].user \in Emails /\ Exists(tokens[t].user)
    BY TokenType DEF Addressed
  <2>4. tokens' \in Seq(Token) /\ Len(tokens') = Len(tokens) /\ DOMAIN tokens' = DOMAIN tokens
    <3>1. tokens' = tokens \/ tokens' = [tokens EXCEPT ![t] = [tokens[t] EXCEPT !.used = TRUE]]
      BY <1>7, <2>2 DEF ConfirmSave, ResetSave
    <3>2. [tokens[t] EXCEPT !.used = TRUE] \in Token
      BY TokenType
    <3>3. CASE tokens' = tokens
      BY <3>3 DEF TypeOK
    <3> QED
      BY <3>1, <3>2, <3>3, TokensType
  <2>5. user' \in [Emails -> User \cup {NoUser}]
    <3>1. CASE ConfirmSave(q)
      BY <3>1, <2>2, <2>3, UserType DEF ConfirmSave, TypeOK
    <3>2. CASE ResetSave(q)
      <4>1. call[q] \in Call /\ call[q].password \in Passwords
        BY <3>2, Fields DEF TypeOK, ResetSave, At
      <4>2. \/ user' = user
            \/ user' = [user EXCEPT ![tokens[t].user] =
                          [user[tokens[t].user] EXCEPT !.password = {call[q].password}]]
        BY <3>2, <2>2 DEF ResetSave
      <4>3. [user[tokens[t].user] EXCEPT !.password = {call[q].password}] \in User
        BY <4>1, <2>3, UserType
      <4> QED
        BY <4>2, <4>3, <2>3 DEF TypeOK
    <3> QED
      BY <1>7, <3>1, <3>2
  <2> QED
    BY <1>7, <2>1, <2>2, <2>4, <2>5 DEF TypeOK, ConfirmSave, ResetSave
<1>8. ASSUME NEW t \in DOMAIN tokens, Expire(t)
      PROVE  TypeOK'
  <2>1. tokens' = [tokens EXCEPT ![t] = [tokens[t] EXCEPT !.expired = TRUE]]
    BY <1>8 DEF Expire
  <2>2. tokens' \in Seq(Token) /\ Len(tokens') = Len(tokens) /\ DOMAIN tokens' = DOMAIN tokens
    BY <2>1, TokenType, TokensType
  <2> QED
    BY <1>8, <2>2 DEF TypeOK, Expire
<1>9. ASSUME NEW q \in Requests, on_startup(q) \/ InsertDemo(q) \/ get_pricing_models(q)
      PROVE  TypeOK'
  <2>1. call' \in [Requests -> Call]
    BY <1>9, Calls, Moved DEF on_startup, InsertDemo, get_pricing_models, Prices, Answer
  <2>2. user' \in [Emails -> User \cup {NoUser}]
    BY <1>9, UserType, AccountAssumption
       DEF TypeOK, on_startup, InsertDemo, get_pricing_models
  <2> QED
    BY <1>9, <2>1, <2>2 DEF TypeOK, on_startup, InsertDemo, get_pricing_models
<1>10. ASSUME NEW q \in Requests, NEW v \in Providers, CheckPrice(q, v)
       PROVE  TypeOK'
  <2>1. PICK k \in {"startup", "pricing"}, T \in SUBSET Providers, N \in SUBSET Providers :
          Goto(q, [kind |-> k, at |-> "prices", todo |-> T, missing |-> N])
    BY <1>10, PriceChecked
  <2>2. call' \in [Requests -> Call]
    BY <2>1, Calls, Moved
  <2> QED
    BY <1>10, <2>2 DEF TypeOK, CheckPrice
<1>11. ASSUME NEW q \in Requests, InsertPrices(q)
       PROVE  TypeOK'
  <2>1. call' \in [Requests -> Call]
    BY <1>11, Calls, Moved DEF InsertPrices, AnswerPrices, Answer
  <2>2. call[q] \in Call /\ call[q].missing \subseteq Providers
    BY <1>11, Fields DEF TypeOK, InsertPrices
  <2> QED
    BY <1>11, <2>1, <2>2 DEF TypeOK, InsertPrices
<1>12. CASE Crash
  <2>1. call' \in [Requests -> Call]
    BY <1>12, Calls DEF TypeOK, Crash
  <2> QED
    BY <1>12, <2>1 DEF TypeOK, Crash
<1>13. CASE UNCHANGED vars
  BY <1>13 DEF TypeOK, vars
<1> QED
  BY <1>1, <1>2, <1>3, <1>4, <1>5, <1>6, <1>7, <1>8, <1>9, <1>10, <1>11, <1>12, <1>13
     DEF Next

-----------------------------------------------------------------------------
(* What steps never undo *)

\* A token changes by being used or by expiring.
LEMMA TokensGrow ==
  ASSUME TypeOK, Found, [Next]_vars, NEW t \in DOMAIN tokens
  PROVE  /\ t \in DOMAIN tokens'
         /\ tokens'[t].user = tokens[t].user /\ tokens'[t].type = tokens[t].type
         /\ tokens[t].used => tokens'[t].used
<1>1. tokens \in Seq(Token) /\ t \in 1..Len(tokens) /\ tokens[t] \in Token
  BY DEF TypeOK
<1>2. ASSUME NEW q \in Requests, InsertToken(q)
      PROVE  t \in DOMAIN tokens' /\ tokens'[t] = tokens[t]
  <2>1. \/ tokens' = tokens
        \/ \E x : tokens' = Append(tokens, x)
    BY <1>2 DEF InsertToken
  <2> QED
    BY <1>1, <2>1
<1>3. ASSUME NEW q \in Requests, ConfirmSave(q) \/ ResetSave(q)
      PROVE  /\ t \in DOMAIN tokens'
             /\ tokens'[t] = tokens[t] \/ tokens'[t] = [tokens[t] EXCEPT !.used = TRUE]
  BY <1>1, <1>3 DEF ConfirmSave, ResetSave
<1>4. ASSUME NEW u \in DOMAIN tokens, Expire(u)
      PROVE  /\ t \in DOMAIN tokens'
             /\ tokens'[t] = tokens[t] \/ tokens'[t] = [tokens[t] EXCEPT !.expired = TRUE]
  BY <1>1, <1>4 DEF Expire
<1>5. \/ tokens' = tokens
      \/ \E q \in Requests : InsertToken(q) \/ ConfirmSave(q) \/ ResetSave(q)
      \/ \E u \in DOMAIN tokens : Expire(u)
  BY DEF Next, vars, register, InsertUser, request_email_verification, forgot_password,
         ConfirmLookup, ResetLookup, on_startup, InsertDemo, get_pricing_models,
         CheckPrice, InsertPrices, Crash
<1>6. /\ t \in DOMAIN tokens'
      /\ \/ tokens'[t] = tokens[t]
         \/ tokens'[t] = [tokens[t] EXCEPT !.used = TRUE]
         \/ tokens'[t] = [tokens[t] EXCEPT !.expired = TRUE]
  BY <1>2, <1>3, <1>4, <1>5
<1> QED
  BY <1>1, <1>6 DEF Token

\* Accounts stay, and stay verified.
LEMMA UsersStay ==
  ASSUME TypeOK, Addressed, Found, [Next]_vars, NEW e \in Emails, Exists(e)
  PROVE  user'[e] # NoUser /\ (user[e].verified => user'[e].verified)
<1>1. user[e] \in User
  BY UserType
<1>2. ASSUME NEW q \in Requests, ConfirmSave(q)
      PROVE  user'[e] = user[e] \/ user'[e] = [user[e] EXCEPT !.verified = TRUE]
  <2> DEFINE d == tokens[call[q].token].user
  <2>1. \/ user' = user
        \/ user' = [user EXCEPT ![d] = [user[d] EXCEPT !.verified = TRUE]]
    BY <1>2 DEF ConfirmSave
  <2>2. CASE d = e
    BY <2>1, <2>2 DEF TypeOK
  <2>3. CASE d # e
    <3> HIDE DEF d
    <3> QED
      BY <2>1, <2>3 DEF TypeOK
  <2> QED
    BY <2>2, <2>3
<1>3. ASSUME NEW q \in Requests, ResetSave(q)
      PROVE  \/ user'[e] = user[e]
             \/ \E p \in Passwords : user'[e] = [user[e] EXCEPT !.password = {p}]
  <2>1. call[q] \in Call /\ call[q].password \in Passwords
    BY <1>3, Fields DEF TypeOK, ResetSave, At
  <2> QED
    BY <1>3, <2>1 DEF ResetSave, TypeOK
<1>4. ASSUME NEW q \in Requests, InsertUser(q) \/ InsertDemo(q)
      PROVE  user'[e] = user[e]
  BY <1>4 DEF InsertUser, InsertDemo, TypeOK
<1>5. \/ user' = user
      \/ \E q \in Requests : InsertUser(q) \/ InsertDemo(q) \/ ConfirmSave(q) \/ ResetSave(q)
  BY DEF Next, vars, register, InsertToken, request_email_verification, forgot_password,
         ConfirmLookup, ResetLookup, on_startup, get_pricing_models,
         CheckPrice, InsertPrices, Crash, Expire
<1>6. \/ user'[e] = user[e]
      \/ user'[e] = [user[e] EXCEPT !.verified = TRUE]
      \/ \E p \in Passwords : user'[e] = [user[e] EXCEPT !.password = {p}]
  BY <1>2, <1>3, <1>4, <1>5
<1>7. user'[e] \in User /\ (user[e].verified => user'[e].verified)
  BY <1>1, <1>6 DEF User
<1>8. NoUser \notin User
  BY DEF NoUser, User
<1> QED
  BY <1>7, <1>8 DEF Exists

\* Prices are not withdrawn, and what was done with a token stays done.
LEMMA HistoryGrows ==
  ASSUME [Next]_vars
  PROVE  prices \subseteq prices' /\ wrote \subseteq wrote' /\ done \subseteq done'
BY DEF Next, vars, register, InsertUser, InsertToken, request_email_verification,
       forgot_password, ConfirmLookup, ConfirmSave, ResetLookup, ResetSave, on_startup,
       InsertDemo, get_pricing_models, CheckPrice, InsertPrices, Crash, Expire

-----------------------------------------------------------------------------
(* Where calls come from *)

\* Which step brings a call to the statement it is at.
LEMMA Arrival ==
  ASSUME TypeOK, [Next]_vars, NEW r \in Requests, call'[r] # call[r]
  PROVE  /\ call'[r].at = "token" =>
              \/ InsertUser(r)
              \/ \E e \in Emails : request_email_verification(r, e) \/ forgot_password(r, e)
         /\ call'[r].at = "consume" =>
              \E t \in DOMAIN tokens :
                ConfirmLookup(r, t) \/ \E p \in Passwords : ResetLookup(r, t, p)
         /\ call'[r].at = "refused" => \E t \in DOMAIN tokens : ConfirmLookup(r, t)
         /\ call'[r].at = "prices" =>
              \/ on_startup(r) \/ InsertDemo(r) \/ get_pricing_models(r)
              \/ \E v \in Providers : CheckPrice(r, v)
         /\ call'[r].at = "ok" => InsertPrices(r)
<1> DEFINE Goal == /\ call'[r].at = "token" =>
                        \/ InsertUser(r)
                        \/ \E e \in Emails : request_email_verification(r, e)
                                             \/ forgot_password(r, e)
                   /\ call'[r].at = "consume" =>
                        \E t \in DOMAIN tokens :
                          ConfirmLookup(r, t) \/ \E p \in Passwords : ResetLookup(r, t, p)
                   /\ call'[r].at = "refused" => \E t \in DOMAIN tokens : ConfirmLookup(r, t)
                   /\ call'[r].at = "prices" =>
                        \/ on_startup(r) \/ InsertDemo(r) \/ get_pricing_models(r)
                        \/ \E v \in Providers : CheckPrice(r, v)
                   /\ call'[r].at = "ok" => InsertPrices(r)
<1>1. \A q \in Requests : \A x : Goto(q, x) => q = r /\ call'[r] = x
  BY DEF Goto, TypeOK
<1>2. Over.at = "over"
  BY DEF Over
<1>3. ASSUME NEW q \in Requests, NEW e \in Emails, NEW p \in Passwords, register(q, e, p)
      PROVE  Goal
  BY <1>1, <1>2, <1>3 DEF register, Answer
<1>4. ASSUME NEW q \in Requests, NEW e \in Emails,
             request_email_verification(q, e) \/ forgot_password(q, e)
      PROVE  Goal
  <2>1. q = r /\ call'[r].at \in {"token", "over"}
    BY <1>1, <1>2, <1>4 DEF request_email_verification, forgot_password, Answer
  <2> QED
    BY <1>4, <2>1
<1>5. ASSUME NEW q \in Requests, NEW t \in DOMAIN tokens, ConfirmLookup(q, t)
      PROVE  Goal
  <2>1. q = r /\ call'[r].at \in {"consume", "over", "refused"}
    BY <1>1, <1>2, <1>5 DEF ConfirmLookup, Answer, Refuse
  <2> QED
    BY <1>5, <2>1
<1>6. ASSUME NEW q \in Requests, NEW t \in DOMAIN tokens, NEW p \in Passwords,
             ResetLookup(q, t, p)
      PROVE  Goal
  <2>1. q = r /\ call'[r].at \in {"consume", "over"}
    BY <1>1, <1>2, <1>6 DEF ResetLookup, Answer
  <2> QED
    BY <1>6, <2>1
<1>7. ASSUME NEW q \in Requests, InsertUser(q)
      PROVE  Goal
  <2>1. call[q] \in Call /\ call[q].kind = "register"
    BY <1>7 DEF InsertUser, At, TypeOK
  <2>2. [call[q] EXCEPT !.at = "token"].at = "token"
    <3>1. call[q] = [kind |-> "register", at |-> call[q].at, email |-> call[q].email,
                     password |-> call[q].password]
      BY <2>1, Fields
    <3> QED
      BY <3>1
  <2>3. q = r /\ call'[r].at \in {"token", "over"}
    BY <1>1, <1>2, <1>7, <2>2 DEF InsertUser, Answer
  <2> QED
    BY <1>7, <2>3
<1>8. ASSUME NEW q \in Requests, InsertToken(q) \/ ConfirmSave(q) \/ ResetSave(q)
      PROVE  Goal
  BY <1>1, <1>2, <1>8 DEF InsertToken, ConfirmSave, ResetSave, Answer
<1>9. ASSUME NEW q \in Requests, on_startup(q) \/ InsertDemo(q) \/ get_pricing_models(q)
      PROVE  Goal
  <2>1. q = r /\ call'[r].at \in {"prices", "user", "over"}
    BY <1>1, <1>2, <1>9
       DEF on_startup, InsertDemo, get_pricing_models, Answer, Prices
  <2> QED
    BY <1>9, <2>1
<1>10. ASSUME NEW q \in Requests, NEW v \in Providers, CheckPrice(q, v)
       PROVE  Goal
  <2>1. PICK k \in {"startup", "pricing"}, T \in SUBSET Providers, N \in SUBSET Providers :
          Goto(q, [kind |-> k, at |-> "prices", todo |-> T, missing |-> N])
    BY <1>10, PriceChecked
  <2>2. q = r /\ call'[r].at = "prices"
    BY <1>1, <2>1
  <2> QED
    BY <1>10, <2>2
<1>11. ASSUME NEW q \in Requests, InsertPrices(q)
       PROVE  Goal
  <2>1. q = r /\ call'[r].at \in {"ok", "over"}
    BY <1>1, <1>2, <1>11 DEF InsertPrices, AnswerPrices, Answer
  <2> QED
    BY <1>11, <2>1
<1>12. CASE (\E t \in DOMAIN tokens : Expire(t)) \/ UNCHANGED vars
  BY <1>12 DEF Expire, vars
<1>13. CASE Crash
  BY <1>2, <1>13 DEF Crash
<1> QED
  BY <1>3, <1>4, <1>5, <1>6, <1>7, <1>8, <1>9, <1>10, <1>11, <1>12, <1>13 DEF Next

-----------------------------------------------------------------------------
(* Each conjunct *)

\* A token that a step stores.
LEMMA NewToken ==
  ASSUME TypeOK, Found, [Next]_vars, NEW t \in DOMAIN tokens', t \notin DOMAIN tokens
  PROVE  \E q \in Requests : /\ InsertToken(q)
                             /\ tokens'[t].user = call[q].email /\ ~tokens'[t].used
<1>1. tokens \in Seq(Token)
  BY DEF TypeOK
<1>2. ASSUME NEW q \in Requests, InsertToken(q)
      PROVE  tokens'[t].user = call[q].email /\ ~tokens'[t].used
  <2>1. \E T : T.user = call[q].email /\ ~T.used /\ tokens' \in {tokens, Append(tokens, T)}
    <3>1. \A y : [user |-> call[q].email, used |-> FALSE, expired |-> FALSE, type |-> y].user
                   = call[q].email
                 /\ ~[user |-> call[q].email, used |-> FALSE, expired |-> FALSE,
                      type |-> y].used
      OBVIOUS
    <3> QED
      BY <1>2, <3>1 DEF InsertToken
  <2>2. t \in DOMAIN tokens' \ DOMAIN tokens
    OBVIOUS
  <2> QED
    BY <1>1, <2>1, <2>2
<1>3. ASSUME NEW q \in Requests, ConfirmSave(q) \/ ResetSave(q)
      PROVE  DOMAIN tokens' = DOMAIN tokens
  BY <1>3 DEF ConfirmSave, ResetSave
<1>4. ASSUME NEW u \in DOMAIN tokens, Expire(u)
      PROVE  DOMAIN tokens' = DOMAIN tokens
  BY <1>4 DEF Expire
<1>5. \/ tokens' = tokens
      \/ \E q \in Requests : InsertToken(q) \/ ConfirmSave(q) \/ ResetSave(q)
      \/ \E u \in DOMAIN tokens : Expire(u)
  BY DEF Next, vars, register, InsertUser, request_email_verification, forgot_password,
         ConfirmLookup, ResetLookup, on_startup, InsertDemo, get_pricing_models,
         CheckPrice, InsertPrices, Crash
<1> QED
  BY <1>2, <1>3, <1>4, <1>5

\* Tokens are only stored for accounts, and accounts stay.
LEMMA AddressedStep ==
  ASSUME TypeOK, Addressed, Found, [Next]_vars
  PROVE  Addressed'
<1>1. ASSUME NEW t \in DOMAIN tokens'
      PROVE  user'[tokens'[t].user] # NoUser
  <2>1. CASE t \in DOMAIN tokens
    BY <2>1, TokensGrow, TokenType, UsersStay DEF Addressed
  <2>2. CASE t \notin DOMAIN tokens
    <3>1. PICK q \in Requests : InsertToken(q) /\ tokens'[t].user = call[q].email
      BY <2>2, NewToken
    <3>2. call[q] \in Call /\ call[q].at = "token" /\ call[q].email \in Emails
      BY <3>1, Fields DEF TypeOK, InsertToken, At
    <3> QED
      BY <3>1, <3>2, UsersStay DEF Addressed
  <2> QED
    BY <2>1, <2>2
<1>2. ASSUME NEW r \in Requests, call'[r].at = "token"
      PROVE  user'[call'[r].email] # NoUser
  <2>1. CASE call'[r] = call[r]
    <3>1. call[r] \in Call /\ call[r].at = "token" /\ call[r].email \in Emails
      BY <1>2, <2>1, Fields DEF TypeOK
    <3> QED
      BY <2>1, <3>1, UsersStay DEF Addressed
  <2>2. CASE call'[r] # call[r] /\ InsertUser(r)
    <3>1. PICK e \in Emails, p \in Passwords :
            /\ call[r].email = e /\ call[r].password = p
            /\ call[r] = [kind |-> "register", at |-> call[r].at, email |-> e,
                          password |-> p]
      BY <2>2, Fields DEF TypeOK, InsertUser, At
    <3>2. [call[r] EXCEPT !.at = "token"]
            = [kind |-> "register", at |-> "token", email |-> e, password |-> p]
      BY <3>1
    <3>3. call'[r] \in {Over, [call[r] EXCEPT !.at = "token"]}
      BY <2>2, Moved, Calls DEF InsertUser, Answer, Goto, TypeOK
    <3>4. call'[r].email = e
      BY <1>2, <3>2, <3>3 DEF Over
    <3>5. \/ user' = user /\ Exists(e)
          \/ user' = [user EXCEPT ![e] = [verified |-> TRUE, password |-> {p}]]
          \/ call'[r] = Over
      BY <2>2, <3>1 DEF InsertUser, Answer, Goto, TypeOK
    <3>6. [verified |-> TRUE, password |-> {p}] # NoUser
      BY DEF NoUser
    <3> QED
      BY <1>2, <3>4, <3>5, <3>6 DEF TypeOK, Over, Exists
  <2>3. ASSUME NEW e \in Emails,
               request_email_verification(r, e) \/ forgot_password(r, e)
        PROVE  user'[call'[r].email] # NoUser
    <3>1. call'[r].email = e /\ Exists(e) /\ user' = user
      BY <1>2, <2>3 DEF request_email_verification, forgot_password, Answer, Goto, Over,
                        TypeOK
    <3> QED
      BY <3>1 DEF Exists
  <2> QED
    BY <1>2, <2>1, <2>2, <2>3, Arrival
<1> QED
  BY <1>1, <1>2 DEF Addressed, Exists

\* A call that is about to use a token up found it in an earlier step.
LEMMA FoundStep ==
  ASSUME TypeOK, Found, [Next]_vars
  PROVE  Found'
<1> SUFFICES ASSUME NEW r \in Requests, call'[r].at = "consume"
             PROVE  /\ call'[r].token \in DOMAIN tokens'
                    /\ tokens'[call'[r].token].type
                         = IF call'[r].kind = "reset" THEN "reset" ELSE "verify"
  BY DEF Found
<1>1. CASE call'[r] = call[r]
  BY <1>1, TokensGrow DEF Found
<1>2. ASSUME NEW t \in DOMAIN tokens, ConfirmLookup(r, t)
      PROVE  /\ call'[r].token = t /\ call'[r].kind = "confirm"
             /\ tokens[t].type = "verify" /\ tokens' = tokens
  BY <1>2 DEF ConfirmLookup, Valid, Refuse, Answer, Goto, Over, TypeOK
<1>3. ASSUME NEW t \in DOMAIN tokens, NEW p \in Passwords, ResetLookup(r, t, p)
      PROVE  /\ call'[r].token = t /\ call'[r].kind = "reset"
             /\ tokens[t].type = "reset" /\ tokens' = tokens
  BY <1>3 DEF ResetLookup, Valid, Answer, Goto, Over, TypeOK
<1> QED
  BY <1>1, <1>2, <1>3, Arrival

\* What a step makes of a token and of the account it is for.
LEMMA UsedUp ==
  ASSUME TypeOK, Addressed, Found, [Next]_vars, NEW t \in DOMAIN tokens
  PROVE  \/ tokens'[t].used = tokens[t].used /\ (t \in wrote' <=> t \in wrote)
            /\ (t \in done' => \/ t \in done
                               \/ tokens[t].type = "verify"
                                  /\ user[tokens[t].user].verified)
         \/ tokens[t].type = "verify" /\ user'[tokens[t].user].verified
         \/ tokens[t].type = "reset" /\ tokens'[t].used /\ t \in wrote'
<1>1. tokens \in Seq(Token) /\ t \in 1..Len(tokens) /\ tokens[t] \in Token
  BY DEF TypeOK
<1>2. ASSUME NEW q \in Requests, ConfirmSave(q), call[q].token = t
      PROVE  \/ tokens[t].type = "verify" /\ user'[tokens[t].user].verified
             \/ tokens' = tokens /\ wrote' = wrote /\ done' = done
  <2>1. tokens[t].type = "verify"
    BY <1>2 DEF ConfirmSave, Found, At
  <2>2. user[tokens[t].user] \in User /\ tokens[t].user \in Emails
    BY TokenType, UserType DEF Addressed
  <2>3. CASE user' = [user EXCEPT ![tokens[t].user].verified = TRUE]
    BY <2>1, <2>2, <2>3 DEF TypeOK, User
  <2> QED
    BY <1>2, <2>1, <2>3 DEF ConfirmSave
<1>3. ASSUME NEW q \in Requests, ResetSave(q), call[q].token = t
      PROVE  \/ tokens[t].type = "reset" /\ tokens'[t].used /\ t \in wrote'
             \/ tokens' = tokens /\ wrote' = wrote /\ done' = done
  <2>1. tokens[t].type = "reset"
    BY <1>3, Fields DEF ResetSave, Found, At
  <2>2. \/ tokens' = [tokens EXCEPT ![t] = [tokens[t] EXCEPT !.used = TRUE]] /\ t \in wrote'
        \/ tokens' = tokens /\ wrote' = wrote /\ done' = done
    BY <1>3 DEF ResetSave
  <2>3. CASE tokens' = [tokens EXCEPT ![t] = [tokens[t] EXCEPT !.used = TRUE]]
    <3>1. tokens'[t] = [tokens[t] EXCEPT !.used = TRUE]
      BY <1>1, <2>3
    <3>2. tokens'[t].used
      BY <1>1, <3>1 DEF Token
    <3> QED
      BY <2>1, <2>2, <3>2
  <2> QED
    BY <2>1, <2>2, <2>3
<1>4. ASSUME NEW q \in Requests, ConfirmSave(q) \/ ResetSave(q), call[q].token # t
      PROVE  tokens'[t] = tokens[t] /\ (t \in wrote' <=> t \in wrote)
             /\ (t \in done' => t \in done)
  BY <1>1, <1>4 DEF ConfirmSave, ResetSave
<1>5. ASSUME NEW q \in Requests, InsertToken(q)
      PROVE  tokens'[t] = tokens[t] /\ wrote' = wrote /\ done' = done
  <2>1. tokens' = tokens \/ \E x : tokens' = Append(tokens, x)
    BY <1>5 DEF InsertToken
  <2> QED
    BY <1>1, <1>5, <2>1 DEF InsertToken
<1>6. ASSUME NEW u \in DOMAIN tokens, Expire(u)
      PROVE  tokens'[t].used = tokens[t].used /\ wrote' = wrote /\ done' = done
  <2>1. tokens'[t] = tokens[t] \/ tokens'[t] = [tokens[t] EXCEPT !.expired = TRUE]
    BY <1>1, <1>6 DEF Expire
  <2> QED
    BY <1>1, <1>6, <2>1 DEF Expire, Token
<1>7. ASSUME NEW q \in Requests, NEW u \in DOMAIN tokens, ConfirmLookup(q, u)
      PROVE  /\ tokens' = tokens /\ wrote' = wrote
             /\ t \in done' => \/ t \in done
                               \/ tokens[t].type = "verify"
                                  /\ user[tokens[t].user].verified
  BY <1>7 DEF ConfirmLookup
<1>8. \/ tokens' = tokens /\ wrote' = wrote /\ done' = done
      \/ \E q \in Requests : InsertToken(q) \/ ConfirmSave(q) \/ ResetSave(q)
      \/ \E u \in DOMAIN tokens : Expire(u) \/ \E q \in Requests : ConfirmLookup(q, u)
  BY DEF Next, vars, register, InsertUser, request_email_verification, forgot_password,
         ResetLookup, on_startup, InsertDemo, get_pricing_models,
         CheckPrice, InsertPrices, Crash
<1> QED
  BY <1>2, <1>3, <1>4, <1>5, <1>6, <1>7, <1>8

\* A token is marked used with what it is for, and stays used.
LEMMA ConsumedStep ==
  ASSUME TypeOK, Addressed, Found, DoneMeans, ConsumedWhole, [Next]_vars
  PROVE  DoneMeans' /\ ConsumedWhole'
<1>1. ASSUME NEW t \in DOMAIN tokens
      PROVE  /\ t \in DOMAIN tokens' /\ tokens'[t].type = tokens[t].type
             /\ tokens[t].type \in {"verify", "reset"}
             /\ tokens'[t].user = tokens[t].user
             /\ user[tokens[t].user].verified => user'[tokens[t].user].verified
  BY TokensGrow, TokenType, UsersStay DEF Addressed
<1>2. ASSUME NEW t \in DOMAIN tokens
      PROVE  IF tokens'[t].type = "reset" THEN tokens'[t].used <=> t \in wrote'
             ELSE tokens'[t].used => user'[tokens'[t].user].verified
  BY <1>1, UsedUp DEF ConsumedWhole
<1>3. ASSUME NEW t \in DOMAIN tokens', t \notin DOMAIN tokens
      PROVE  ~tokens'[t].used /\ t \notin wrote'
  <2>1. PICK q \in Requests : InsertToken(q) /\ ~tokens'[t].used
    BY <1>3, NewToken
  <2> QED
    BY <1>3, <2>1 DEF InsertToken, TypeOK
<1>4. ASSUME NEW t \in done'
      PROVE  IF tokens'[t].type = "reset" THEN tokens'[t].used
             ELSE user'[tokens'[t].user].verified
  <2>1. \/ done' = done
        \/ \E q \in Requests :
             \/ ConfirmSave(q) \/ ResetSave(q)
             \/ \E u \in DOMAIN tokens : ConfirmLookup(q, u)
    BY DEF Next, vars, register, InsertUser, InsertToken, request_email_verification,
           forgot_password, ResetLookup, on_startup, InsertDemo, get_pricing_models,
           CheckPrice, InsertPrices, Crash, Expire
  <2>2. done \subseteq DOMAIN tokens
    BY DEF TypeOK
  <2>3. ASSUME NEW q \in Requests, ConfirmSave(q) \/ ResetSave(q)
        PROVE  t \in DOMAIN tokens
    BY <2>2, <2>3 DEF ConfirmSave, ResetSave, Found, At
  <2>4. ASSUME NEW q \in Requests, NEW u \in DOMAIN tokens, ConfirmLookup(q, u)
        PROVE  t \in DOMAIN tokens
    BY <2>2, <2>4 DEF ConfirmLookup
  <2>5. t \in DOMAIN tokens
    BY <2>1, <2>2, <2>3, <2>4
  <2> QED
    BY <1>1, <2>5, UsedUp, TokensGrow DEF DoneMeans
<1> QED
  BY <1>2, <1>3, <1>4 DEF DoneMeans, ConsumedWhole

\* A call asks about answers given before it began.
LEMMA AgainStep ==
  ASSUME TypeOK, DoneMeans, ResetOnce, ConfirmIdempotent, [Next]_vars
  PROVE  ResetOnce' /\ ConfirmIdempotent'
<1>1. ASSUME NEW r \in Requests, call'[r].kind = "reset", call'[r].at = "consume"
      PROVE  ~call'[r].again
  <2>1. CASE call'[r] = call[r]
    BY <1>1, <2>1 DEF ResetOnce, At
  <2>2. ASSUME NEW t \in DOMAIN tokens, ConfirmLookup(r, t)
        PROVE  FALSE
    BY <1>1, <2>2 DEF ConfirmLookup, Refuse, Answer, Goto, Over, TypeOK
  <2>3. ASSUME NEW t \in DOMAIN tokens, NEW p \in Passwords, ResetLookup(r, t, p)
        PROVE  ~call'[r].again
    <3>1. tokens[t].type = "reset" /\ ~tokens[t].used /\ call'[r].again = DoneBefore(t, "reset")
      BY <1>1, <2>3 DEF ResetLookup, Valid, Answer, Goto, Over, TypeOK
    <3> QED
      BY <3>1 DEF DoneBefore, DoneMeans
  <2> QED
    BY <1>1, <2>1, <2>2, <2>3, Arrival
<1>2. ASSUME NEW r \in Requests, call'[r].kind = "confirm", call'[r].at = "refused"
      PROVE  ~call'[r].again
  <2>1. CASE call'[r] = call[r]
    BY <1>2, <2>1 DEF ConfirmIdempotent, At
  <2>2. ASSUME NEW t \in DOMAIN tokens, ConfirmLookup(r, t)
        PROVE  ~call'[r].again
    <3>1. /\ call'[r].again = DoneBefore(t, "verify")
          /\ ~(tokens[t].type = "verify" /\ user[tokens[t].user].verified)
      BY <1>2, <2>2 DEF ConfirmLookup, Refuse, Answer, Goto, Over, TypeOK
    <3> QED
      BY <3>1 DEF DoneBefore, DoneMeans
  <2> QED
    BY <1>2, <2>1, <2>2, Arrival
<1> QED
  BY <1>1, <1>2 DEF ResetOnce, ConfirmIdempotent, At

\* A registration that comes to its second commit has just stored its account.
LEMMA Registered ==
  ASSUME TypeOK, Addressed, Found, [Next]_vars, NEW r \in Requests,
         call'[r] # call[r], call'[r].kind = "register", call'[r].at = "token"
  PROVE  \E e \in Emails, p \in Passwords :
           /\ ~Exists(e) /\ InsertUser(r)
           /\ call'[r].email = e /\ call'[r].password = p
           /\ user' = [user EXCEPT ![e] = [verified |-> TRUE, password |-> {p}]]
           /\ \A q \in Requests \ {r} : call'[q] = call[q]
<1>1. InsertUser(r)
  BY Arrival DEF request_email_verification, forgot_password, Answer, Goto, Over, TypeOK
<1>2. PICK e \in Emails, p \in Passwords :
        /\ call[r].email = e /\ call[r].password = p
        /\ call[r] = [kind |-> "register", at |-> call[r].at, email |-> e, password |-> p]
  BY <1>1, Fields DEF TypeOK, InsertUser, At
<1>3. [call[r] EXCEPT !.at = "token"]
        = [kind |-> "register", at |-> "token", email |-> e, password |-> p]
  BY <1>2
<1>4. /\ ~Exists(e) /\ Goto(r, [call[r] EXCEPT !.at = "token"])
      /\ user' = [user EXCEPT ![e] = [verified |-> TRUE, password |-> {p}]]
  BY <1>1, <1>2 DEF InsertUser, Answer, Goto, Over, TypeOK
<1>5. /\ call'[r] = [call[r] EXCEPT !.at = "token"]
      /\ \A q \in Requests \ {r} : call'[q] = call[q]
  BY <1>4 DEF Goto, TypeOK
<1> QED
  BY <1>1, <1>2, <1>3, <1>4, <1>5

\* A password changes with a reset token of its account.
LEMMA PasswordKept ==
  ASSUME TypeOK, Addressed, Found, [Next]_vars, NEW e \in Emails, Exists(e)
  PROVE  \/ user'[e].password = user[e].password
         \/ \E t \in wrote' : tokens'[t].user = e
<1>1. user[e] \in User
  BY UserType
<1>2. ASSUME NEW q \in Requests, ConfirmSave(q)
      PROVE  user'[e].password = user[e].password
  <2> DEFINE d == tokens[call[q].token].user
  <2>1. \/ user' = user
        \/ user' = [user EXCEPT ![d] = [user[d] EXCEPT !.verified = TRUE]]
    BY <1>2 DEF ConfirmSave
  <2>2. user'[e] = user[e] \/ user'[e] = [user[e] EXCEPT !.verified = TRUE]
    <3>1. CASE d = e
      BY <2>1, <3>1 DEF TypeOK
    <3>2. CASE d # e
      <4> HIDE DEF d
      <4> QED
        BY <2>1, <3>2 DEF TypeOK
    <3> QED
      BY <3>1, <3>2
  <2> QED
    BY <1>1, <2>2 DEF User
<1>3. ASSUME NEW q \in Requests, ResetSave(q)
      PROVE  user'[e] = user[e] \/ \E t \in wrote' : tokens'[t].user = e
  <2>1. PICK t \in DOMAIN tokens : call[q].token = t
    BY <1>3 DEF Found, ResetSave, At
  <2>2. \/ user' = user
        \/ t \in wrote' /\ \E x : user' = [user EXCEPT ![tokens[t].user] = x]
    BY <1>3, <2>1 DEF ResetSave
  <2>3. tokens'[t].user = tokens[t].user
    BY TokensGrow
  <2> QED
    BY <2>2, <2>3 DEF TypeOK
<1>4. ASSUME NEW q \in Requests, InsertUser(q) \/ InsertDemo(q)
      PROVE  user'[e] = user[e]
  BY <1>4 DEF InsertUser, InsertDemo, TypeOK
<1>5. \/ user' = user
      \/ \E q \in Requests : InsertUser(q) \/ InsertDemo(q) \/ ConfirmSave(q) \/ ResetSave(q)
  BY DEF Next, vars, register, InsertToken, request_email_verification, forgot_password,
         ConfirmLookup, ResetLookup, on_startup, get_pricing_models,
         CheckPrice, InsertPrices, Crash, Expire
<1> QED
  BY <1>2, <1>3, <1>4, <1>5

\* An answered registration adds its password to those kept.
LEMMA KeptStep ==
  ASSUME TypeOK, [Next]_vars, NEW e \in Emails
  PROVE  \/ kept'[e] = kept[e]
         \/ \E q \in Requests :
              /\ At(q, {"register"}, "token") /\ call[q].email = e
              /\ kept'[e] = kept[e] \cup {call[q].password}
              /\ user' = user /\ Answer(q)
<1>1. ASSUME NEW q \in Requests, InsertToken(q), kept' # kept
      PROVE  /\ At(q, {"register"}, "token") /\ user' = user /\ Answer(q)
             /\ kept' = [kept EXCEPT ![call[q].email] = @ \cup {call[q].password}]
  BY <1>1 DEF InsertToken, At
<1>2. kept' = kept \/ \E q \in Requests : InsertToken(q)
  BY DEF Next, vars, register, InsertUser, request_email_verification, forgot_password,
         ConfirmLookup, ConfirmSave, ResetLookup, ResetSave, on_startup, InsertDemo,
         get_pricing_models, CheckPrice, InsertPrices, Crash, Expire
<1> QED
  BY <1>1, <1>2 DEF TypeOK

\* The unique address decides between registrations; what one is answered for
\* stays until a reset.
LEMMA OwnerStep ==
  ASSUME TypeOK, Addressed, Found, SoleOwner, AccountKept, [Next]_vars
  PROVE  SoleOwner' /\ AccountKept'
<1>1. ASSUME NEW e \in Emails, \E t \in wrote : tokens[t].user = e
      PROVE  \E t \in wrote' : tokens'[t].user = e
  <2>1. PICK t \in wrote : tokens[t].user = e
    BY <1>1
  <2>2. t \in DOMAIN tokens /\ t \in wrote'
    BY HistoryGrows DEF TypeOK
  <2> QED
    BY <2>1, <2>2, TokensGrow
<1>2. ASSUME NEW r \in Requests, At(r, {"register"}, "token")
      PROVE  call[r].email \in Emails /\ Exists(call[r].email)
  BY <1>2, Fields DEF At, Addressed, TypeOK
<1>3. ASSUME NEW e \in Emails, kept'[e] # {}
      PROVE  user'[e] # NoUser
  <2>1. Exists(e)
    BY <1>2, <1>3, KeptStep DEF SoleOwner
  <2> QED
    BY <2>1, UsersStay
<1>4. ASSUME NEW r \in Requests, call'[r].kind = "register", call'[r].at = "token"
      PROVE  /\ kept'[call'[r].email] = {}
             /\ \/ user'[call'[r].email].password = {call'[r].password}
                \/ \E t \in wrote' : tokens'[t].user = call'[r].email
  <2>1. CASE call'[r] = call[r]
    <3> DEFINE e == call[r].email
    <3>1. At(r, {"register"}, "token") /\ e \in Emails /\ Exists(e)
      BY <1>2, <1>4, <2>1 DEF At
    <3>2. ~Answer(r)
      BY <1>4 DEF Answer, Goto, Over, TypeOK
    <3>3. kept'[e] = {}
      <4>1. kept[e] = {}
        BY <3>1 DEF SoleOwner
      <4>2. \A q \in Requests : At(q, {"register"}, "token") /\ call[q].email = e => q = r
        BY <3>1 DEF SoleOwner
      <4> HIDE DEF e
      <4> QED
        BY <3>1, <3>2, <4>1, <4>2, KeptStep
    <3>4. user[e].password = {call[r].password} \/ \E t \in wrote : tokens[t].user = e
      BY <3>1 DEF SoleOwner
    <3>5. \/ user'[e].password = {call[r].password}
          \/ \E t \in wrote' : tokens'[t].user = e
      <4> HIDE DEF e
      <4> QED
        BY <1>1, <3>1, <3>4, PasswordKept
    <3> QED
      BY <2>1, <3>3, <3>5
  <2>2. CASE call'[r] # call[r]
    <3>1. PICK e \in Emails, p \in Passwords :
            /\ ~Exists(e) /\ InsertUser(r)
            /\ call'[r].email = e /\ call'[r].password = p
            /\ user' = [user EXCEPT ![e] = [verified |-> TRUE, password |-> {p}]]
      BY <1>4, <2>2, Registered
    <3>2. kept[e] = {} /\ kept' = kept
      BY <3>1 DEF SoleOwner, InsertUser
    <3>3. user'[e].password = {p}
      BY <3>1 DEF TypeOK
    <3> QED
      BY <3>1, <3>2, <3>3
  <2> QED
    BY <2>1, <2>2
<1>5. ASSUME NEW q \in Requests, NEW r \in Requests,
             call'[q].kind = "register", call'[q].at = "token",
             call'[r].kind = "register", call'[r].at = "token",
             call'[q].email = call'[r].email, q # r
      PROVE  FALSE
  <2>1. ASSUME NEW a \in Requests, NEW b \in Requests, a # b,
               call'[a].kind = "register", call'[a].at = "token",
               call'[b].kind = "register", call'[b].at = "token",
               call'[a].email = call'[b].email, call'[b] # call[b]
        PROVE  FALSE
    <3>1. PICK e \in Emails : /\ ~Exists(e) /\ call'[b].email = e
                              /\ call'[a] = call[a]
      BY <2>1, Registered
    <3>2. At(a, {"register"}, "token") /\ call[a].email = e
      BY <2>1, <3>1 DEF At
    <3> QED
      BY <1>2, <3>1, <3>2
  <2>2. CASE call'[q] = call[q] /\ call'[r] = call[r]
    BY <1>5, <2>2 DEF SoleOwner, At
  <2> QED
    BY <1>5, <2>1, <2>2
<1>6. ASSUME NEW e \in Emails, kept'[e] # {}
      PROVE  \/ user'[e].password = kept'[e]
             \/ \E t \in wrote' : tokens'[t].user = e
  <2>1. CASE kept'[e] = kept[e]
    <3>1. Exists(e)
      BY <1>6, <2>1 DEF SoleOwner
    <3>2. user[e].password = kept[e] \/ \E t \in wrote : tokens[t].user = e
      BY <1>6, <2>1 DEF AccountKept
    <3> QED
      BY <1>1, <2>1, <3>1, <3>2, PasswordKept
  <2>2. CASE kept'[e] # kept[e]
    <3>1. PICK q \in Requests :
            /\ At(q, {"register"}, "token") /\ call[q].email = e
            /\ kept'[e] = kept[e] \cup {call[q].password} /\ user' = user
      BY <2>2, KeptStep
    <3>2. /\ kept[e] = {}
          /\ user[e].password = {call[q].password} \/ \E t \in wrote : tokens[t].user = e
      BY <3>1 DEF SoleOwner
    <3> QED
      BY <1>1, <3>1, <3>2
  <2> QED
    BY <2>1, <2>2
<1> QED
  BY <1>3, <1>4, <1>5, <1>6 DEF SoleOwner, AccountKept, At, Exists

\* Whoever comes first stores the whole list; the others store nothing.
LEMMA PricesStep ==
  ASSUME TypeOK, Counted, AllOrNoPrices, [Next]_vars
  PROVE  Counted' /\ AllOrNoPrices'
<1>1. prices \subseteq Providers /\ prices \in {{}, Providers} /\ prices \subseteq prices'
  BY HistoryGrows DEF TypeOK, AllOrNoPrices
<1>2. ASSUME NEW q \in Requests, InsertPrices(q)
      PROVE  /\ prices' \in {{}, Providers}
             /\ Answer(q) \/ prices' = Providers
  <2>1. call[q] \in Call /\ call[q].missing \subseteq Providers
    BY <1>2, Fields DEF TypeOK, InsertPrices
  <2>2. prices = {} => call[q].missing = Providers
    BY <1>2 DEF Counted, InsertPrices
  <2> QED
    BY <1>1, <1>2, <2>1, <2>2 DEF InsertPrices
<1>3. prices' = prices \/ \E q \in Requests : InsertPrices(q)
  BY DEF Next, vars, register, InsertUser, InsertToken, request_email_verification,
         forgot_password, ConfirmLookup, ConfirmSave, ResetLookup, ResetSave, on_startup,
         InsertDemo, get_pricing_models, CheckPrice, Crash, Expire
<1>4. prices' \in {{}, Providers}
  BY <1>1, <1>2, <1>3
<1>5. ASSUME NEW r \in Requests, call'[r].kind = "pricing", call'[r].at = "ok"
      PROVE  prices' = Providers
  <2>1. CASE call'[r] = call[r]
    BY <1>1, <1>4, <1>5, <2>1 DEF AllOrNoPrices, At
  <2>2. CASE InsertPrices(r)
    <3>1. ~Answer(r)
      BY <1>5 DEF Answer, Goto, Over, TypeOK
    <3> QED
      BY <1>2, <2>2, <3>1
  <2> QED
    BY <1>5, <2>1, <2>2, Arrival
<1>6. ASSUME NEW r \in Requests, call'[r].at = "prices", prices' = {}
      PROVE  call'[r].missing = Providers \ call'[r].todo
  <2>1. prices = {}
    BY <1>1, <1>6
  <2>2. CASE call'[r] = call[r]
    BY <1>6, <2>1, <2>2 DEF Counted
  <2>3. CASE on_startup(r) \/ InsertDemo(r) \/ get_pricing_models(r)
    <3>1. \E k : call'[r] = Prices(k)
      BY <1>6, <2>3 DEF on_startup, InsertDemo, get_pricing_models, Answer, Goto, Over,
                        TypeOK
    <3> QED
      BY <3>1 DEF Prices
  <2>4. ASSUME NEW v \in Providers, CheckPrice(r, v)
        PROVE  call'[r].missing = Providers \ call'[r].todo
    <3>1. PICK k \in {"startup", "pricing"}, T \in SUBSET Providers,
               N \in SUBSET Providers :
            /\ Goto(r, [kind |-> k, at |-> "prices", todo |-> T, missing |-> N])
            /\ T = call[r].todo \ {v} /\ N = call[r].missing \cup {v}
      BY <2>1, <2>4, PriceChecked
    <3>2. call'[r].todo = T /\ call'[r].missing = N
      BY <3>1 DEF Goto, TypeOK
    <3>3. v \in call[r].todo /\ call[r].missing = Providers \ call[r].todo
      BY <2>1, <2>4 DEF Counted, CheckPrice
    <3> QED
      BY <3>1, <3>2, <3>3
  <2> QED
    BY <1>6, <2>2, <2>3, <2>4, Arrival
<1> QED
  BY <1>4, <1>5, <1>6 DEF Counted, AllOrNoPrices, At

-----------------------------------------------------------------------------
(* Refinement *)

\* Only a lookup shows a token.
LEMMA Unshown ==
  ASSUME TypeOK, [Next]_vars,
         \A s \in Requests, t \in DOMAIN tokens :
           ~ConfirmLookup(s, t) /\ \A p \in Passwords : ~ResetLookup(s, t, p)
  PROVE  Claimed' \subseteq Claimed
<1> SUFFICES ASSUME NEW r \in Requests, call'[r].at = "consume"
             PROVE  Claim(r)' \in Claimed
  BY DEF Claimed
<1>1. call'[r] = call[r]
  BY Arrival
<1>2. Claim(r)' = Claim(r)
  BY <1>1 DEF Claim
<1> QED
  BY <1>1, <1>2 DEF Claimed

\* A step that changes an account or a token, of a call that has shown nothing,
\* leaves the claims alone.
LEMMA ClaimsStay ==
  ASSUME TypeOK, [Next]_vars, user' # user \/ tokens' # tokens,
         NEW q \in Requests, call[q].at # "consume", NEW x, Goto(q, x)
  PROVE  Claimed' = Claimed
<1>1. \A s \in Requests, t \in DOMAIN tokens :
        ~ConfirmLookup(s, t) /\ \A p \in Passwords : ~ResetLookup(s, t, p)
  BY DEF ConfirmLookup, ResetLookup
<1>2. ASSUME NEW r \in Requests, call[r].at = "consume"
      PROVE  Claim(r) \in Claimed'
  <2>1. call'[r] = call[r]
    BY <1>2 DEF Goto, TypeOK
  <2>2. Claim(r)' = Claim(r)
    BY <2>1 DEF Claim
  <2> QED
    BY <1>2, <2>1, <2>2 DEF Claimed
<1>3. Claimed \subseteq Claimed'
  BY <1>2 DEF Claimed
<1> QED
  BY <1>1, <1>3, Unshown

\* A lookup that finds its token shows it; one that does not shows nothing.
LEMMA LookupShows ==
  ASSUME AInv, NEW q \in Requests, NEW t \in DOMAIN tokens,
         \/ ConfirmLookup(q, t)
         \/ \E p \in Passwords : ResetLookup(q, t, p)
  PROVE  C!CredentialNext
<1>1. TypeOK /\ UNCHANGED <<user, tokens>> /\ call[q].at # "consume"
  BY DEF AInv, ConfirmLookup, ResetLookup, Idle
<1>2. PICK x : Goto(q, x) /\
        \/ x.at # "consume"
        \/ /\ Valid(t, "verify")
           /\ x = [kind |-> "confirm", at |-> "consume", token |-> t]
        \/ /\ Valid(t, "reset")
           /\ \E p \in Passwords :
                x = [kind |-> "reset", at |-> "consume", token |-> t, password |-> p,
                     again |-> DoneBefore(t, "reset")]
  <2>1. Over.at # "consume"
    BY DEF Over
  <2>2. CASE ConfirmLookup(q, t)
    BY <2>1, <2>2 DEF ConfirmLookup, Answer, Refuse
  <2>3. ASSUME NEW p \in Passwords, ResetLookup(q, t, p)
        PROVE  \/ Goto(q, Over)
               \/ /\ Valid(t, "reset")
                  /\ Goto(q, [kind |-> "reset", at |-> "consume", token |-> t,
                              password |-> p, again |-> DoneBefore(t, "reset")])
    BY <2>3 DEF ResetLookup, Answer
  <2> QED
    BY <2>1, <2>2, <2>3
<1>3. call'[q] = x /\ \A r \in Requests \ {q} : call'[r] = call[r] /\ Claim(r)' = Claim(r)
  BY <1>1, <1>2 DEF Goto, TypeOK, Claim
<1>4. Claimed' = {Claim(r) : r \in {s \in Requests : call[s].at = "consume"}}
                   \cup (IF x.at = "consume" THEN {Claim(q)'} ELSE {})
  BY <1>1, <1>3 DEF Claimed
<1>5. Claimed' = Claimed \cup (IF x.at = "consume" THEN {Claim(q)'} ELSE {})
  BY <1>4 DEF Claimed
<1>6. CASE x.at # "consume"
  BY <1>1, <1>5, <1>6 DEF C!Drop, C!CredentialNext
<1>7. CASE /\ Valid(t, "verify")
           /\ x = [kind |-> "confirm", at |-> "consume", token |-> t]
  <2>1. x.at = "consume" /\ x.kind = "confirm" /\ x.token = t
    BY <1>7
  <2>2. Claim(q)' = [token |-> t, new |-> {}]
    BY <1>3, <2>1 DEF Claim
  <2>3. C!Show(t, {})
    BY <1>1, <1>5, <1>7, <2>1, <2>2 DEF C!Show, Valid
  <2> QED
    BY <2>3 DEF C!CredentialNext
<1>8. ASSUME Valid(t, "reset"), NEW p \in Passwords,
             x = [kind |-> "reset", at |-> "consume", token |-> t, password |-> p,
                  again |-> DoneBefore(t, "reset")]
      PROVE  C!CredentialNext
  <2>1. x.at = "consume" /\ x.kind = "reset" /\ x.token = t /\ x.password = p
    BY <1>8
  <2>2. Claim(q)' = [token |-> t, new |-> {p}]
    BY <1>3, <2>1 DEF Claim
  <2>3. C!Show(t, {p})
    BY <1>1, <1>5, <1>8, <2>1, <2>2 DEF C!Show, Valid
  <2> QED
    BY <2>3 DEF C!CredentialNext, C!Secrets
<1> QED
  BY <1>2, <1>6, <1>7, <1>8

\* The commit of a confirmation or of a reset redeems its token.
LEMMA SaveRedeems ==
  ASSUME AInv, [Next]_vars, NEW q \in Requests, ConfirmSave(q) \/ ResetSave(q),
         user' # user \/ tokens' # tokens
  PROVE  C!CredentialNext
<1> DEFINE t == call[q].token
           e == tokens[t].user
           new == IF call[q].kind = "reset" THEN {call[q].password} ELSE {}
<1>1. call[q].at = "consume"
  BY DEF ConfirmSave, ResetSave, At
<1>2. t \in DOMAIN tokens /\ Exists(e)
  BY <1>1 DEF AInv, Found, Addressed
<1>3. Claim(q) \in Claimed /\ Claim(q) = [token |-> t, new |-> new]
  BY <1>1 DEF Claimed, Claim
<1>4. Claimed' \subseteq Claimed
  <2>1. \A s \in Requests, u \in DOMAIN tokens :
          ~ConfirmLookup(s, u) /\ \A p \in Passwords : ~ResetLookup(s, u, p)
    BY DEF ConfirmLookup, ResetLookup
  <2> QED
    BY <2>1, Unshown DEF AInv
<1>5. /\ tokens' = [tokens EXCEPT ![t].used = TRUE]
      /\ user' = IF new = {} THEN [user EXCEPT ![e].verified = TRUE]
                 ELSE [user EXCEPT ![e].password = new]
  <2>1. CASE ConfirmSave(q)
    BY <2>1 DEF ConfirmSave, At
  <2>2. CASE ResetSave(q)
    BY <2>2 DEF ResetSave, At
  <2> QED
    BY <2>1, <2>2
<1>6. C!Redeem(Claim(q))
  <2>1. Claim(q).token = t /\ Claim(q).new = new /\ user[e] # C!Nobody
    BY <1>2, <1>3 DEF Exists, NoUser, C!Nobody
  <2> HIDE DEF t, e, new
  <2> QED
    BY <1>4, <1>5, <2>1 DEF C!Redeem, e
<1> QED
  BY <1>3, <1>6 DEF C!CredentialNext

\* Every step is one of Credentials.
LEMMA CredentialStep ==
  ASSUME AInv, [Next]_vars
  PROVE  C!CredentialNext
<1>1. TypeOK
  BY DEF AInv
<1>2. ASSUME NEW q \in Requests, NEW t \in DOMAIN tokens,
             ConfirmLookup(q, t) \/ \E p \in Passwords : ResetLookup(q, t, p)
      PROVE  C!CredentialNext
  BY <1>2, LookupShows
<1>3. CASE /\ UNCHANGED <<user, tokens>>
           /\ \A s \in Requests, t \in DOMAIN tokens :
                ~ConfirmLookup(s, t) /\ \A p \in Passwords : ~ResetLookup(s, t, p)
  BY <1>1, <1>3, Unshown DEF C!Drop, C!CredentialNext
<1>4. ASSUME user' # user \/ tokens' # tokens, NEW q \in Requests,
             InsertUser(q) \/ InsertDemo(q)
      PROVE  C!CredentialNext
  <2>1. PICK e \in Emails, p \in Passwords :
          /\ ~Exists(e) /\ tokens' = tokens
          /\ user' = [user EXCEPT ![e] = [verified |-> TRUE, password |-> {p}]]
    <3>1. CASE InsertDemo(q)
      BY <1>4, <3>1, AccountAssumption DEF InsertDemo
    <3>2. CASE InsertUser(q)
      <4>1. call[q].email \in Emails /\ call[q].password \in Passwords
        BY <1>1, <3>2, Fields DEF InsertUser, At, TypeOK
      <4> QED
        BY <1>4, <3>2, <4>1 DEF InsertUser
    <3> QED
      BY <1>4, <3>1, <3>2
  <2>2. call[q].at # "consume" /\ \E x : Goto(q, x)
    BY <1>4 DEF InsertUser, InsertDemo, At, Answer
  <2>3. Claimed' = Claimed
    BY <1>1, <1>4, <2>2, ClaimsStay
  <2>4. C!Open(e)
    BY <2>1, <2>3 DEF C!Open, C!Secrets, Exists, NoUser, C!Nobody
  <2> QED
    BY <2>4 DEF C!CredentialNext
<1>5. ASSUME user' # user \/ tokens' # tokens, NEW q \in Requests, InsertToken(q)
      PROVE  C!CredentialNext
  <2> DEFINE type == IF call[q].kind = "forgot" THEN "reset" ELSE "verify"
  <2>1. /\ user' = user
        /\ tokens' = Append(tokens, [user |-> call[q].email, used |-> FALSE,
                                     expired |-> FALSE, type |-> type])
    BY <1>5 DEF InsertToken
  <2>2. call[q].email \in Emails /\ Exists(call[q].email)
    BY <1>1, <1>5, Fields DEF InsertToken, At, TypeOK, AInv, Addressed
  <2>3. call[q].at # "consume" /\ \E x : Goto(q, x)
    BY <1>5 DEF InsertToken, At, Answer
  <2>4. Claimed' = Claimed
    BY <1>1, <1>5, <2>3, ClaimsStay
  <2>5. C!Mail(call[q].email, type)
    BY <2>1, <2>2, <2>4 DEF C!Mail, Exists, NoUser, C!Nobody
  <2>6. type \in {"verify", "reset"}
    OBVIOUS
  <2> QED
    BY <2>2, <2>5, <2>6 DEF C!CredentialNext
<1>6. ASSUME user' # user \/ tokens' # tokens, NEW q \in Requests,
             ConfirmSave(q) \/ ResetSave(q)
      PROVE  C!CredentialNext
  BY <1>6, SaveRedeems
<1>7. ASSUME NEW t \in DOMAIN tokens, Expire(t)
      PROVE  C!CredentialNext
  <2>1. Claimed' = Claimed /\ user' = user /\ tokens' = [tokens EXCEPT ![t].expired = TRUE]
    BY <1>7 DEF Expire, Claimed, Claim
  <2> QED
    BY <2>1 DEF C!Age, C!CredentialNext
<1>8. \/ UNCHANGED <<user, tokens>>
      \/ \E q \in Requests : \/ InsertUser(q) \/ InsertDemo(q) \/ InsertToken(q)
                             \/ ConfirmSave(q) \/ ResetSave(q)
      \/ \E t \in DOMAIN tokens : Expire(t)
  BY DEF Next, vars, register, request_email_verification, forgot_password, ConfirmLookup,
         ResetLookup, on_startup, get_pricing_models, CheckPrice, InsertPrices, Crash
<1> QED
  BY <1>2, <1>3, <1>4, <1>5, <1>6, <1>7, <1>8

-----------------------------------------------------------------------------
(* Theorems *)

\* At the start there are no tokens, no prices and no calls.
LEMMA InvInit == Init => AInv
<1> SUFFICES ASSUME Init PROVE AInv
  OBVIOUS
<1>1. TypeOK
  BY Calls, AccountAssumption DEF Init, TypeOK
<1>2. \A q \in Requests : call[q] = Over
  BY DEF Init
<1>3. DOMAIN tokens = {}
  BY DEF Init
<1> QED
  BY <1>1, <1>2, <1>3
     DEF Init, AInv, Addressed, Found, DoneMeans, ConsumedWhole, ResetOnce,
         ConfirmIdempotent, SoleOwner, AccountKept, Counted, AllOrNoPrices, Over, At

\* Every step keeps the invariant.
LEMMA InvStep == AInv /\ [Next]_vars => AInv'
BY TypeStep, AddressedStep, FoundStep, ConsumedStep, AgainStep, OwnerStep, PricesStep
   DEF AInv

\* The invariant holds in every reachable state.
THEOREM AccountsInvariant == Spec => []AInv
BY InvInit, InvStep, PTL DEF Spec

\* Every reachable state of Accounts is well typed: in particular no step stores
\* a token, a password or a mark for an account that does not exist.
THEOREM TypeCorrect == Spec => []TypeOK
<1>1. AInv => TypeOK
  BY DEF AInv
<1> QED
  BY AccountsInvariant, <1>1, PTL

\* However calls of register, of the seeding at startup and of the token routes
\* interleave, an address that was answered 201 keeps the password of that
\* registration until a mailed reset token changes it.
THEOREM RegistrationsKept == Spec => []AccountKept
<1>1. AInv => AccountKept
  BY DEF AInv
<1> QED
  BY AccountsInvariant, <1>1, PTL

\* confirm_email_verification and reset_password use a token up together with
\* what it is for, also when a commit fails or the process dies.
THEOREM TokensConsumedWhole == Spec => []ConsumedWhole
<1>1. AInv => ConsumedWhole
  BY DEF AInv
<1> QED
  BY AccountsInvariant, <1>1, PTL

\* A reset that begins after one with the same token was answered ok never gets
\* as far as its commit.
THEOREM ResetAnsweredOnce == Spec => []ResetOnce
<1>1. AInv => ResetOnce
  BY DEF AInv
<1> QED
  BY AccountsInvariant, <1>1, PTL

\* A confirmation repeated after one that was answered ok is not refused, even
\* when the token expired or was used in the meantime.
THEOREM ConfirmAnsweredAgain == Spec => []ConfirmIdempotent
<1>1. AInv => ConfirmIdempotent
  BY DEF AInv
<1> QED
  BY AccountsInvariant, <1>1, PTL

\* initialize_pricing_models leaves the whole price list or none of it, whoever
\* else runs it at the same time.
THEOREM PriceListWhole == Spec => []AllOrNoPrices
<1>1. AInv => AllOrNoPrices
  BY DEF AInv
<1> QED
  BY AccountsInvariant, <1>1, PTL

\* For all constants: the routes, statement by statement, with whoever overlaps
\* them, the failing commits and the restarts, implement Credentials
\* (routes_auth.py:26-186).
THEOREM CredentialRefinement == Spec => ImplementsCredentials
<1>1. Init => C!CredentialInit
  <2> SUFFICES ASSUME Init PROVE C!CredentialInit
    OBVIOUS
  <2> DEFINE P == {{}} \cup C!Secrets
  <2>1. ASSUME NEW e \in Emails
        PROVE  \E s \in P : user[e] = [verified |-> FALSE, password |-> s]
    <3>1. /\ user \in [Emails -> User \cup {NoUser}]
          /\ IF e \in Legacy THEN ~user[e].verified ELSE user[e] = NoUser
      BY DEF Init
    <3>2. CASE user[e] = NoUser
      <4>1. {} \in P
        OBVIOUS
      <4> HIDE DEF P
      <4> QED
        BY <3>2, <4>1 DEF NoUser
    <3>3. ASSUME NEW v \in BOOLEAN, NEW p \in Passwords,
                 user[e] = [verified |-> v, password |-> {p}]
          PROVE  user[e] = [verified |-> FALSE, password |-> {p}] /\ {p} \in P
      <4>1. ~user[e].verified
        <5>1. ~NoUser.verified
          BY DEF NoUser
        <5> QED
          BY <3>1, <5>1
      <4>2. v = FALSE
        BY <3>3, <4>1
      <4> QED
        BY <3>3, <4>2 DEF C!Secrets
    <3>4. user[e] \in User =>
            \E v \in BOOLEAN, p \in Passwords : user[e] = [verified |-> v, password |-> {p}]
      BY DEF User
    <3> QED
      BY <3>1, <3>2, <3>3, <3>4
  <2>2. user = [e \in Emails |-> user[e]]
    BY DEF Init
  <2> HIDE DEF P
  <2>3. user \in [Emails -> [verified : {FALSE}, password : P]]
    <3>1. \A s \in P : [verified |-> FALSE, password |-> s] \in [verified : {FALSE}, password : P]
      OBVIOUS
    <3> DEFINE R == [verified : {FALSE}, password : P]
    <3>2. \A e \in Emails : user[e] \in R
      BY <2>1, <3>1
    <3> HIDE DEF R
    <3>3. user \in [Emails -> R]
      BY <2>2, <3>2
    <3> QED
      BY <3>3 DEF R
  <2>4. Claimed = {}
    BY DEF Init, Claimed, Over
  <2> QED
    BY <2>3, <2>4 DEF Init, C!CredentialInit, P
<1>2. AInv /\ [Next]_vars => [C!CredentialNext]_C!credentialVars
  BY CredentialStep
<1> QED
  BY <1>1, <1>2, AccountsInvariant, PTL DEF Spec, ImplementsCredentials, C!CredentialSpec
=============================================================================
