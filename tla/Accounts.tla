------------------------------ MODULE Accounts ------------------------------
(***************************************************************************)
(* Accounts of the IntelliScaleSim backend: registration, verification of  *)
(* the email address and password reset by mailed tokens                   *)
(* (api/routes_auth.py), and what on_startup (main.py) and                 *)
(* GET /billing/pricing-models seed: the demo account and the price list   *)
(* (services/billing_service.py).                                          *)
(*                                                                         *)
(* All of it checks with one statement and writes with a later one, in     *)
(* threads, or processes, of its own: `at` names the statement a request   *)
(* is at.  What a request reads is what is committed at that moment (the   *)
(* PostgreSQL the README prescribes); a commit is one step.                *)
(*                                                                         *)
(* Abstractions.  {p} is the hash of password p, an email is lower case, a *)
(* token stands for its hash: the n-th one mailed is number n.  One that   *)
(* is stored but not mailed is known to nobody and left out.  Login and    *)
(* the check of the bearer token only read and are left out.               *)
(***************************************************************************)
EXTENDS Naturals, Sequences

CONSTANTS
  Emails,      \* addresses
  Demo,        \* the one of the demo account
  Passwords,
  DemoPassword,
  Legacy,      \* accounts of an older database, stored as not verified
  Providers,   \* PricingProvider
  Requests,    \* how many calls are under way at a time
  MaxTokens,   \* bound on the tokens ever mailed
  Faults       \* what may fail

AllFaults == {"commit", "mail", "crash"}

ASSUME AccountAssumption ==
  /\ Demo \in Emails /\ DemoPassword \in Passwords
  /\ Legacy \subseteq Emails
  /\ MaxTokens \in Nat
  /\ Faults \subseteq AllFaults

NoUser == [verified |-> FALSE, password |-> {}]
User   == [verified : BOOLEAN, password : {{p} : p \in Passwords}]
Token  == [user : Emails, type : {"verify", "reset"}, used : BOOLEAN, expired : BOOLEAN]

\* A call under way: what it has read and been given, and the statement it is
\* at.  `again` tells whether a call like it had been answered ok for the same
\* token when it began.
\* Of answers only two are told apart.
Call ==
  [kind : {"none"}, at : {"over"}]
  \cup [kind : {"confirm"}, at : {"refused"}, again : BOOLEAN]
  \cup [kind : {"pricing"}, at : {"ok"}]
  \cup [kind : {"register"}, at : {"user", "token"}, email : Emails,
        password : Passwords]
  \cup [kind : {"verify", "forgot"}, at : {"token"}, email : Emails]
  \cup [kind : {"confirm"}, at : {"consume"}, token : 1..MaxTokens]
  \cup [kind : {"reset"}, at : {"consume"}, token : 1..MaxTokens, password : Passwords,
        again : BOOLEAN]
  \cup [kind : {"startup"}, at : {"user"}]
  \cup [kind : {"startup", "pricing"}, at : {"prices"}, todo : SUBSET Providers,
        missing : SUBSET Providers]

VARIABLES
  user,    \* committed rows of users, by email
  tokens,  \* committed rows of user_tokens that were mailed
  prices,  \* providers with a committed row of pricing_models
  call,    \* the calls under way, or how the last ones were answered
  kept,    \* passwords of the registrations answered 201, by email
  wrote,   \* tokens with which a password was set
  done     \* tokens with which a call was answered ok

vars == <<user, tokens, prices, call, kept, wrote, done>>

TypeOK ==
  /\ user \in [Emails -> User \cup {NoUser}]
  /\ tokens \in Seq(Token) /\ Len(tokens) <= MaxTokens
  /\ prices \subseteq Providers
  /\ call \in [Requests -> Call]
  /\ kept \in [Emails -> SUBSET Passwords]
  /\ wrote \cup done \subseteq DOMAIN tokens

-----------------------------------------------------------------------------
Exists(e) == user[e] # NoUser
MayFail(f) == f \in Faults

Over        == [kind |-> "none", at |-> "over"]
Idle(q)     == call[q].at \in {"over", "ok", "refused"}
At(q, k, a) == call[q].kind \in k /\ call[q].at = a
Goto(q, r)  == call' = [call EXCEPT ![q] = r]
Answer(q)   == Goto(q, Over)

ValidForever(t, type) == tokens[t].type = type /\ ~tokens[t].used   \* broken Valid

\* The unused and unexpired token of that type with the hash of t.
Valid(t, type) == tokens[t].type = type /\ ~tokens[t].used /\ ~tokens[t].expired

DoneBefore(t, type) == t \in done /\ tokens[t].type = type

Init ==
  /\ user \in [Emails -> User \cup {NoUser}]
  /\ \A e \in Emails : IF e \in Legacy THEN ~user[e].verified ELSE user[e] = NoUser
  /\ tokens = <<>> /\ prices = {}
  /\ call = [q \in Requests |-> Over]
  /\ kept = [e \in Emails |-> {}] /\ wrote = {} /\ done = {}

-----------------------------------------------------------------------------
(* register *)

\* The email is looked up.
register(q, e, p) ==
  /\ Idle(q)
  /\ IF Exists(e) THEN Answer(q)
     ELSE Goto(q, [kind |-> "register", at |-> "user", email |-> e, password |-> p])
  /\ UNCHANGED <<user, tokens, prices, kept, wrote, done>>

\* Broken InsertUser: the password is stored as it is.
InsertPlain(q) ==
  /\ At(q, {"register"}, "user") /\ ~Exists(call[q].email)
  /\ user' = [user EXCEPT ![call[q].email] =
                [verified |-> TRUE, password |-> call[q].password]]
  /\ Goto(q, [call[q] EXCEPT !.at = "token"])
  /\ UNCHANGED <<tokens, prices, kept, wrote, done>>

\* Broken InsertUser: no unique constraint, and the later row is the one found.
InsertAnyUser(q) ==
  /\ At(q, {"register"}, "user")
  /\ user' = [user EXCEPT ![call[q].email] =
                [verified |-> TRUE, password |-> {call[q].password}]]
  /\ Goto(q, [call[q] EXCEPT !.at = "token"])
  /\ UNCHANGED <<tokens, prices, kept, wrote, done>>

\* First commit: the user, verified from the start.  Emails are unique.
InsertUser(q) ==
  /\ At(q, {"register"}, "user")
  /\ LET e == call[q].email IN
     \/ /\ ~Exists(e)
        /\ user' = [user EXCEPT ![e] = [verified |-> TRUE, password |-> {call[q].password}]]
        /\ Goto(q, [call[q] EXCEPT !.at = "token"])
     \/ /\ Exists(e) \/ MayFail("commit")
        /\ Answer(q)
        /\ UNCHANGED user
  /\ UNCHANGED <<tokens, prices, kept, wrote, done>>

\* Last commit of register, verify/request and forgot_password: a token, which
\* is then mailed.  Failing here leaves what was committed before.
InsertToken(q) ==
  /\ At(q, {"register", "verify", "forgot"}, "token")
  /\ \/ /\ Len(tokens) < MaxTokens
        /\ tokens' = Append(tokens,
             [user |-> call[q].email, used |-> FALSE, expired |-> FALSE,
              type |-> IF call[q].kind = "forgot" THEN "reset" ELSE "verify"])
        /\ Answer(q)
        /\ IF call[q].kind = "register"
           THEN kept' = [kept EXCEPT ![call[q].email] = @ \cup {call[q].password}]
           ELSE UNCHANGED kept
     \/ /\ MayFail("commit") \/ MayFail("mail")
        /\ Answer(q)
        /\ UNCHANGED <<tokens, kept>>
  /\ UNCHANGED <<user, prices, wrote, done>>

-----------------------------------------------------------------------------
(* Verification of the address *)

\* Unknown and verified addresses get the same answer.
request_email_verification(q, e) ==
  /\ Idle(q)
  /\ IF Exists(e) /\ ~user[e].verified
     THEN Goto(q, [kind |-> "verify", at |-> "token", email |-> e])
     ELSE Answer(q)
  /\ UNCHANGED <<user, tokens, prices, kept, wrote, done>>

Refuse(q, t) ==
  Goto(q, [kind |-> "confirm", at |-> "refused", again |-> DoneBefore(t, "verify")])

\* Broken ConfirmLookup: a used token is refused, whoever used it.
ConfirmOnce(q, t) ==
  /\ Idle(q)
  /\ IF Valid(t, "verify")
     THEN Goto(q, [kind |-> "confirm", at |-> "consume", token |-> t])
     ELSE Refuse(q, t)
  /\ UNCHANGED <<user, tokens, prices, kept, wrote, done>>

\* confirm_email_verification up to its commit.  A token that is used or has
\* expired is fine as long as its user is verified.  The two queries are one
\* step: used, expired and verified are for good.
ConfirmLookup(q, t) ==
  /\ Idle(q)
  /\ \/ /\ Valid(t, "verify")
        /\ Goto(q, [kind |-> "confirm", at |-> "consume", token |-> t])
        /\ UNCHANGED done
     \/ /\ ~Valid(t, "verify")
        /\ LET fine == tokens[t].type = "verify" /\ user[tokens[t].user].verified IN
           /\ IF fine THEN Answer(q) ELSE Refuse(q, t)
           /\ done' = IF fine THEN done \cup {t} ELSE done
  /\ UNCHANGED <<user, tokens, prices, kept, wrote>>

\* Broken ConfirmSave: the token is used up before the user is marked.
ConfirmTokenFirst(q) ==
  /\ At(q, {"confirm"}, "consume")
  /\ LET t == call[q].token IN
     /\ tokens' = [tokens EXCEPT ![t].used = TRUE]
     /\ \/ user' = [user EXCEPT ![tokens[t].user].verified = TRUE]
           /\ Answer(q) /\ done' = done \cup {t}
        \/ MayFail("commit") /\ Answer(q) /\ UNCHANGED <<user, done>>
  /\ UNCHANGED <<prices, kept, wrote>>

\* Its commit: user and token together.
ConfirmSave(q) ==
  /\ At(q, {"confirm"}, "consume")
  /\ LET t == call[q].token IN
     \/ /\ user' = [user EXCEPT ![tokens[t].user].verified = TRUE]
        /\ tokens' = [tokens EXCEPT ![t].used = TRUE]
        /\ Answer(q)
        /\ done' = done \cup {t}
     \/ /\ MayFail("commit")
        /\ Answer(q)
        /\ UNCHANGED <<user, tokens, done>>
  /\ UNCHANGED <<prices, kept, wrote>>

-----------------------------------------------------------------------------
(* Password reset *)

forgot_password(q, e) ==
  /\ Idle(q)
  /\ IF Exists(e) THEN Goto(q, [kind |-> "forgot", at |-> "token", email |-> e])
     ELSE Answer(q)
  /\ UNCHANGED <<user, tokens, prices, kept, wrote, done>>

\* reset_password up to its commit.
ResetLookup(q, t, p) ==
  /\ Idle(q)
  /\ IF Valid(t, "reset")
     THEN Goto(q, [kind |-> "reset", at |-> "consume", token |-> t, password |-> p,
                   again |-> DoneBefore(t, "reset")])
     ELSE Answer(q)
  /\ UNCHANGED <<user, tokens, prices, kept, wrote, done>>

\* Broken ResetSave: the token stays good until it expires.
ResetForgetful(q) ==
  /\ At(q, {"reset"}, "consume")
  /\ LET t == call[q].token IN
     /\ user' = [user EXCEPT ![tokens[t].user].password = {call[q].password}]
     /\ Answer(q)
     /\ wrote' = wrote \cup {t} /\ done' = done \cup {t}
  /\ UNCHANGED <<tokens, prices, kept>>

\* Its commit: password and token together, whoever used the token meanwhile.
ResetSave(q) ==
  /\ At(q, {"reset"}, "consume")
  /\ LET t == call[q].token IN
     \/ /\ user' = [user EXCEPT ![tokens[t].user].password = {call[q].password}]
        /\ tokens' = [tokens EXCEPT ![t].used = TRUE]
        /\ Answer(q)
        /\ wrote' = wrote \cup {t} /\ done' = done \cup {t}
     \/ /\ MayFail("commit")
        /\ Answer(q)
        /\ UNCHANGED <<user, tokens, wrote, done>>
  /\ UNCHANGED <<prices, kept>>

Expire(t) ==
  /\ ~tokens[t].expired
  /\ tokens' = [tokens EXCEPT ![t].expired = TRUE]
  /\ UNCHANGED <<user, prices, call, kept, wrote, done>>

-----------------------------------------------------------------------------
(* Seeding *)

AnswerPrices(q) ==
  Goto(q, IF call[q].kind = "pricing" THEN [kind |-> "pricing", at |-> "ok"] ELSE Over)

Prices(k) == [kind |-> k, at |-> "prices", todo |-> Providers, missing |-> {}]

\* on_startup of this or another process looks the demo account up.
on_startup(q) ==
  /\ Idle(q)
  /\ Goto(q, IF Exists(Demo) THEN Prices("startup") ELSE [kind |-> "startup", at |-> "user"])
  /\ UNCHANGED <<user, tokens, prices, kept, wrote, done>>

\* It is stored first.  If that fails, the handler around the seeding gives up.
InsertDemo(q) ==
  /\ At(q, {"startup"}, "user")
  /\ \/ /\ ~Exists(Demo)
        /\ user' = [user EXCEPT ![Demo] = [verified |-> TRUE, password |-> {DemoPassword}]]
        /\ Goto(q, Prices("startup"))
     \/ /\ Exists(Demo) \/ MayFail("commit")
        /\ Answer(q)
        /\ UNCHANGED user
  /\ UNCHANGED <<tokens, prices, kept, wrote, done>>

get_pricing_models(q) ==
  /\ Idle(q)
  /\ Goto(q, Prices("pricing"))
  /\ UNCHANGED <<user, tokens, prices, kept, wrote, done>>

\* initialize_pricing_models looks the providers up one by one ...
CheckPrice(q, v) ==
  /\ call[q].at = "prices" /\ v \in call[q].todo
  /\ Goto(q, [call[q] EXCEPT !.todo = @ \ {v},
                             !.missing = IF v \in prices THEN @ ELSE @ \cup {v}])
  /\ UNCHANGED <<user, tokens, prices, kept, wrote, done>>

\* Broken InsertPrices: what another process has stored is skipped, the rest of
\* it committed one by one until something fails.
InsertEachPrice(q) ==
  /\ call[q].at = "prices" /\ call[q].todo = {}
  /\ \/ prices' = prices \cup call[q].missing /\ AnswerPrices(q)
     \/ /\ MayFail("commit") \/ call[q].missing \cap prices # {}
        /\ prices' \in {prices \cup s : s \in SUBSET call[q].missing}
        /\ Answer(q)
  /\ UNCHANGED <<user, tokens, kept, wrote, done>>

\* ... and commits all the missing ones at once; providers are unique.
InsertPrices(q) ==
  /\ call[q].at = "prices" /\ call[q].todo = {}
  /\ \/ /\ call[q].missing \cap prices = {}
        /\ prices' = prices \cup call[q].missing
        /\ AnswerPrices(q)
     \/ /\ call[q].missing \cap prices # {} \/ MayFail("commit")
        /\ Answer(q)
        /\ UNCHANGED prices
  /\ UNCHANGED <<user, tokens, kept, wrote, done>>

-----------------------------------------------------------------------------
\* The process dies: no call is answered, and what is committed stays.
Crash ==
  /\ MayFail("crash")
  /\ call' = [q \in Requests |-> IF Idle(q) THEN call[q] ELSE Over]
  /\ UNCHANGED <<user, tokens, prices, kept, wrote, done>>

Next ==
  \/ \E q \in Requests :
       \/ \E e \in Emails : \/ \E p \in Passwords : register(q, e, p)
                            \/ request_email_verification(q, e) \/ forgot_password(q, e)
       \/ \E t \in DOMAIN tokens : \/ ConfirmLookup(q, t)
                                   \/ \E p \in Passwords : ResetLookup(q, t, p)
       \/ InsertUser(q) \/ InsertToken(q) \/ ConfirmSave(q) \/ ResetSave(q)
       \/ on_startup(q) \/ InsertDemo(q) \/ get_pricing_models(q)
       \/ \E v \in Providers : CheckPrice(q, v)
       \/ InsertPrices(q)
  \/ \E t \in DOMAIN tokens : Expire(t)
  \/ Crash

Spec == Init /\ [][Next]_vars

-----------------------------------------------------------------------------
(* Properties *)

\* A registration answered 201 owns its email: no other one is, and its
\* password stays the account's until a mailed reset token changes it, however
\* registrations of the same address, and the seeding of the demo account,
\* interleave.
AccountKept ==
  \A e \in Emails : kept[e] # {} =>
    \/ user[e].password = kept[e]
    \/ \E t \in wrote : tokens[t].user = e

\* A token and what it is for change together, also when a commit fails or the
\* process dies: a reset token is used up exactly when a password was set with
\* it, and a verify token only when its user is verified.
ConsumedWhole ==
  \A t \in DOMAIN tokens : IF tokens[t].type = "reset"
                           THEN tokens[t].used <=> t \in wrote
                           ELSE tokens[t].used => user[tokens[t].user].verified

\* Resets are answered ok once: a call that begins after such an answer with the
\* same token never gets to set a password.  Calls that overlap can both.
ResetOnce ==
  \A q \in Requests : At(q, {"reset"}, "consume") => ~call[q].again

\* Confirmations are idempotent: a call with a token that was confirmed before
\* is not refused, whatever expired or was used meanwhile.
ConfirmIdempotent ==
  \A q \in Requests : At(q, {"confirm"}, "refused") => ~call[q].again

\* The price list is there as a whole or not at all, whoever seeds it at the
\* same time, and a call that asked for it and was answered found all of it.
AllOrNoPrices ==
  /\ prices \in {{}, Providers}
  /\ \A q \in Requests : At(q, {"pricing"}, "ok") => prices = Providers

\* The calls, each of several statements, with the commits and mails that fail and
\* the process that dies, implement Credentials: nothing but an account's own
\* tokens, good when they were presented, changes it, and nothing takes it away.
Claim(q) == [token |-> call[q].token,
             new |-> IF call[q].kind = "reset" THEN {call[q].password} ELSE {}]
Claimed  == {Claim(q) : q \in {r \in Requests : call[r].at = "consume"}}

C == INSTANCE Credentials WITH account <- user, mailed <- tokens, claim <- Claimed

ImplementsCredentials == C!CredentialSpec
=============================================================================
