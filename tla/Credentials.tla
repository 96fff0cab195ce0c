----------------------------- MODULE Credentials -----------------------------
(***************************************************************************)
(* What the owner of an account is promised, whatever calls, threads and   *)
(* processes are behind it: an account is opened once and never taken      *)
(* away; it only changes when somebody redeems a token that was mailed to  *)
(* its address and was good when it was shown, to the password shown with  *)
(* it; and the token is used up by the same stroke.                        *)
(***************************************************************************)
EXTENDS Naturals, Sequences

CONSTANTS
  Emails,
  Passwords

VARIABLES
  account,    \* per email: verified or not, and the password
  mailed,     \* tokens mailed so far
  claim       \* tokens shown and not redeemed yet, with what was asked for

credentialVars == <<account, mailed, claim>>

Nobody  == [verified |-> FALSE, password |-> {}]
Secrets == {{p} : p \in Passwords}

CredentialInit ==
  /\ account \in [Emails -> [verified : {FALSE}, password : {{}} \cup Secrets]]
  /\ mailed = <<>> /\ claim = {}

Open(e) ==
  /\ account[e] = Nobody
  /\ \E s \in Secrets : account' = [account EXCEPT ![e] = [verified |-> TRUE, password |-> s]]
  /\ UNCHANGED <<mailed, claim>>

Mail(e, type) ==
  /\ account[e] # Nobody
  /\ mailed' = Append(mailed, [user |-> e, used |-> FALSE, expired |-> FALSE, type |-> type])
  /\ UNCHANGED <<account, claim>>

\* A good token is shown, a reset token with the new password.
Show(t, new) ==
  /\ ~mailed[t].used /\ ~mailed[t].expired
  /\ mailed[t].type = IF new = {} THEN "verify" ELSE "reset"
  /\ claim' = claim \cup {[token |-> t, new |-> new]}
  /\ UNCHANGED <<account, mailed>>

\* What the token is for happens, and it is used up.
Redeem(c) ==
  LET e == mailed[c.token].user
  IN  /\ account[e] # Nobody
      /\ account' = IF c.new = {} THEN [account EXCEPT ![e].verified = TRUE]
                    ELSE [account EXCEPT ![e].password = c.new]
      /\ mailed' = [mailed EXCEPT ![c.token].used = TRUE]
      /\ claim' \subseteq claim

\* Nothing comes of some of what was shown.
Drop == claim' \subseteq claim /\ UNCHANGED <<account, mailed>>

Age(t) ==
  /\ mailed' = [mailed EXCEPT ![t].expired = TRUE]
  /\ UNCHANGED <<account, claim>>

CredentialNext ==
  \/ Drop
  \/ \E c \in claim : Redeem(c)
  \/ \E t \in DOMAIN mailed : Age(t) \/ \E new \in {{}} \cup Secrets : Show(t, new)
  \/ \E e \in Emails : Open(e) \/ \E type \in {"verify", "reset"} : Mail(e, type)

CredentialSpec == CredentialInit /\ [][CredentialNext]_credentialVars
=============================================================================
