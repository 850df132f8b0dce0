------------------------------- MODULE Accounts -------------------------------
(***************************************************************************)
(* User accounts: signing up and in, the JWTs that later requests carry,   *)
(* changes of role and password, and reset links sent by mail.             *)
(*                                                                         *)
(* A JWT names a user and the role the user had when it was made; it opens *)
(* requests and sockets as long as the user has that role.  A link stands  *)
(* for a row of password_reset_tokens, numbered in the order they are      *)
(* asked for.  That JWTs expire, and which password a user types, is left  *)
(* out: users know their password unless the account has none (OAuth).     *)
(***************************************************************************)
EXTENDS Handlers

CONSTANTS
    Users,      \* addresses, one account each at most
    MaxLinks,   \* bound: reset links ever asked for
    Deleted     \* what a row that is gone leaves

LinkRow == [user : Users, used : BOOLEAN]

ASSUME AccountsAssumptions ==
    /\ MaxLinks \in Nat
    /\ Deleted # None
    /\ {None, Deleted} \cap LinkRow = {}

VARIABLES
    user,       \* users: role and whether a password is set, or None
    jwts,       \* pairs of a user and a role that clients hold
    link,       \* password_reset_tokens, None before the row, Deleted after it
    asked,      \* links asked for so far
    mailed,     \* links whose mail arrived
    expired,    \* links whose hour is over
    uses        \* history: how often a link set a password

accounts == <<user, jwts, link, asked, mailed, expired, uses>>
resets == <<link, asked, mailed, expired, uses>>

Roles == {"student", "faculty"}
Links == 1..MaxLinks
Row(n) == link[n] \notin {None, Deleted}
Unused(u) == {n \in Links : Row(n) /\ link[n].user = u /\ ~link[n].used}

AccountsInit ==
    /\ \/ user = [u \in Users |-> None] /\ jwts = {}
       \/ /\ user = [u \in Users |-> [role |-> "student", password |-> TRUE]]
          /\ jwts = Users \X {"student"}
    /\ link = [n \in Links |-> None]
    /\ asked = 0 /\ mailed = {} /\ expired = {}
    /\ uses = [n \in Links |-> 0]

-----------------------------------------------------------------------------
(* Signing up and in.                                                      *)

Created(u, r, password) == user' = [user EXCEPT ![u] = [role |-> r, password |-> password]]
Signed(u, r) == jwts' = jwts \cup {<<u, r>>}

(* get_current_user: the account with the id and the role of the JWT.      *)
SignedIn(u) == user[u] # None /\ <<u, user[u].role>> \in jwts

(* signup and the OAuth callback look the address up, then insert it.      *)
SignupLoad(p, u, r) ==
    /\ user[u] = None
    /\ Start(p, [op |-> "signup", phase |-> "commit", on |-> {}, u |-> u, r |-> r])
    /\ UNCHANGED accounts

OauthLoad(p, u) ==
    /\ user[u] = None
    /\ Start(p, [op |-> "oauth", phase |-> "commit", on |-> {}, u |-> u, r |-> "student"])
    /\ UNCHANGED accounts

(* The unique address refuses the second of two.                           *)
InsertUser(p) ==
    /\ At(p, "signup", "commit") \/ At(p, "oauth", "commit")
    /\ LET t == txn[p] IN
       IF user[t.u] = None THEN Created(t.u, t.r, t.op = "signup") /\ Signed(t.u, t.r)
       ELSE UNCHANGED <<user, jwts>>
    /\ Done(p)
    /\ UNCHANGED resets

Login(u) ==
    /\ AtOnce("login") /\ user[u] # None /\ user[u].password
    /\ Signed(u, user[u].role)
    /\ UNCHANGED <<user, resets>>

OauthLogin(u) ==
    /\ AtOnce("oauth") /\ user[u] # None
    /\ Signed(u, user[u].role)
    /\ UNCHANGED <<user, resets>>

(* The new JWT is made and not sent: the client is signed out.             *)
UpdateRoleLoad(p, u, r) ==
    /\ Free(p, "role") /\ SignedIn(u)
    /\ Start(p, [op |-> "role", phase |-> "commit", on |-> {}, u |-> u, r |-> r])
    /\ UNCHANGED accounts

UpdateRoleCommit(p) ==
    /\ At(p, "role", "commit")
    /\ user' = [user EXCEPT ![txn[p].u].role = txn[p].r]
    /\ Done(p)
    /\ UNCHANGED <<jwts, resets>>

-----------------------------------------------------------------------------
(* Passwords.                                                              *)

ChangePassword(u) ==
    /\ AtOnce("password") /\ SignedIn(u)
    /\ user' = [user EXCEPT ![u].password = TRUE]
    /\ UNCHANGED <<jwts, resets>>

Forgot(p, phase, u, n, old) ==
    [op |-> "forgot", phase |-> phase, on |-> {u}, u |-> u, n |-> n, old |-> old]

(* Rows a handler has deleted and not committed.                           *)
Deleting(n) == \E q \in Procs : At(q, "forgot", "commit") /\ n \in txn[q].old

(* The user's unused links are deleted; another handler's deletion is      *)
(* waited for.                                                             *)
BugOutdated(u) == Unused(u) \cap expired
Outdated(u) == Unused(u)

ForgotPassword(p, u) ==
    /\ Free(p, "forgot") /\ user[u] # None /\ asked < MaxLinks
    /\ \A n \in Unused(u) : ~Deleting(n)
    /\ Start(p, Forgot(p, "commit", u, asked + 1, Outdated(u)))
    /\ asked' = asked + 1
    /\ UNCHANGED <<user, jwts, link, mailed, expired, uses>>

ForgotCommit(p) ==
    /\ At(p, "forgot", "commit")
    /\ LET t == txn[p] IN
       /\ link' = [n \in Links |->
                      IF n = t.n THEN [user |-> t.u, used |-> FALSE]
                      ELSE IF n \in t.old THEN Deleted ELSE link[n]]
       /\ Goto(p, [t EXCEPT !.phase = "mail"])
    /\ UNCHANGED <<user, jwts, asked, mailed, expired, uses>>

MailArrives(p) ==
    /\ At(p, "forgot", "mail")
    /\ mailed' = mailed \cup {txn[p].n}
    /\ UNCHANGED <<requests, user, jwts, link, asked, expired, uses>>

(* A mail that failed, or seems to have failed, takes its link with it; a  *)
(* row gone by then is only warned about.                                  *)
MailAnswered(p) ==
    /\ At(p, "forgot", "mail")
    /\ LET n == txn[p].n IN
       \/ n \in mailed /\ UNCHANGED link
       \/ link' = [link EXCEPT ![n] = Deleted]
    /\ Done(p)
    /\ UNCHANGED <<user, jwts, asked, mailed, expired, uses>>

HourPasses(n) ==
    /\ AtOnce("expiry") /\ Row(n) /\ n \notin expired
    /\ expired' = expired \cup {n}
    /\ UNCHANGED <<user, jwts, link, asked, mailed, uses>>

Spent(n) == [link EXCEPT ![n].used = TRUE]

(* An expired link is marked used, to prevent its reuse.                   *)
ResetLoad(p, n) ==
    /\ n \in mailed /\ Row(n) /\ ~link[n].used
    /\ Start(p, [op |-> "reset", phase |-> IF n \in expired THEN "expire" ELSE "commit",
                 on |-> {link[n].user}, u |-> link[n].user, n |-> n])
    /\ UNCHANGED accounts

(* The password and the link in one transaction; a link deleted meanwhile  *)
(* undoes it.                                                              *)
ResetCommit(p) ==
    /\ \E phase \in {"commit", "expire"} : At(p, "reset", phase)
    /\ LET t == txn[p]   sets == t.phase = "commit" IN
       /\ ~Deleting(t.n)
       /\ IF ~Row(t.n) THEN UNCHANGED <<user, link, uses>> ELSE
          /\ link' = Spent(t.n)
          /\ user' = IF sets THEN [user EXCEPT ![t.u].password = TRUE] ELSE user
          /\ uses' = IF sets THEN [uses EXCEPT ![t.n] = @ + 1] ELSE uses
    /\ Done(p)
    /\ UNCHANGED <<jwts, asked, mailed, expired>>

AccountsNext ==
    \/ \E u \in Users : Login(u) \/ OauthLogin(u) \/ ChangePassword(u)
    \/ \E p \in Procs, u \in Users : OauthLoad(p, u) \/ ForgotPassword(p, u)
    \/ \E p \in Procs, u \in Users, r \in Roles : SignupLoad(p, u, r) \/ UpdateRoleLoad(p, u, r)
    \/ \E p \in Procs : \/ InsertUser(p) \/ UpdateRoleCommit(p) \/ ForgotCommit(p)
                        \/ MailArrives(p) \/ MailAnswered(p) \/ ResetCommit(p)
    \/ \E n \in Links : HourPasses(n) \/ \E p \in Procs : ResetLoad(p, n)

-----------------------------------------------------------------------------
(* Properties.                                                             *)

\* "Delete any existing unused tokens for this user" (routes.py:1194) and "Mark
\* token as used" (1315): a reset link sets a password once, and only while it is
\* the newest one asked for, unless requests about the user's links overlapped.
NewestLinkOnly ==
    [][\A n \in Links : uses'[n] > uses[n] =>
          \/ link[n].user \in clash
          \/ uses[n] = 0 /\ \A k \in Links : k > n => link[k] = None \/ link[k] = Deleted
                                                        \/ link[k].user # link[n].user
      ]_<<requests, accounts>>
=============================================================================
