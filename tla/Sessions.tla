------------------------------ MODULE Sessions ------------------------------
(***************************************************************************)
(* auth.Service: Register, Login, Refresh and Logout, and the tables users *)
(* and refresh_tokens.  Refresh is one transaction at READ COMMITTED that  *)
(* locks the row of its token with FOR UPDATE; the others are statements   *)
(* that commit by themselves.  One step is one statement.                  *)
(*                                                                         *)
(* A refresh token is identified by the call that issued it: raw tokens    *)
(* are 48 random bytes and only their hash is stored.  A user is the       *)
(* e-mail address, normalized, of its account.  No operation of the        *)
(* program deactivates or deletes a user.                                  *)
(***************************************************************************)
EXTENDS Integers

CONSTANTS
  Calls,
  Emails, Usernames,
  RefreshTTL,   \* Service.refreshTTL, in ticks of the clock
  AccessTTL,    \* Service.accessTTL
  MaxTime,      \* bound of the model: the last time of the clock
  None

ASSUME SessionsAssumption ==
  /\ RefreshTTL \in Nat \ {0}
  /\ AccessTTL \in Nat \ {0}
  /\ MaxTime \in Nat
  /\ None \notin Calls

VARIABLES
  clock,
  pc,         \* the next step of every call
  args,       \* its arguments; now is taken by Refresh before it begins
  accounts,   \* the rows of users
  tokens      \* the committed rows of refresh_tokens

vars == <<clock, pc, args, accounts, tokens>>

Time  == 0..MaxTime
Never == -1

Account == [email : Emails, username : Usernames]
Token == [user : Emails, expires : 0..(MaxTime + RefreshTTL),
          revoked : Time \cup {Never}, replacedBy : Calls \cup {None}]
Arguments ==
  [op : {"register", "login", "refresh", "logout"},
   user : Emails \cup {None}, token : Calls \cup {None}, now : Time,
   expires : 0..(MaxTime + RefreshTTL) \cup {Never}]

ASSUME NoneAssumption == None \notin Arguments \cup Token \cup Emails

Rotating == {"insert", "rotate", "commit", "expire"}
States == Rotating \cup
  {"idle", "issue", "load", "revoke", "answer", "done", "failed", "expired"}

TypeOK ==
  /\ clock \in Time
  /\ pc \in [Calls -> States]
  /\ args \in [Calls -> Arguments \cup {None}]
  /\ \A c \in Calls : pc[c] # "idle" => args[c] # None
  /\ accounts \subseteq Account
  /\ tokens \in [Calls -> Token \cup {None}]

Init ==
  /\ clock = 0
  /\ pc = [c \in Calls |-> "idle"]
  /\ args = [c \in Calls |-> None]
  /\ accounts = {}
  /\ tokens = [c \in Calls |-> None]

Call(op, user, token) ==
  [op |-> op, user |-> user, token |-> token, now |-> clock, expires |-> Never]

Start(c, call, state) ==
  /\ pc[c] = "idle"
  /\ args' = [args EXCEPT ![c] = call]
  /\ pc' = [pc EXCEPT ![c] = state]

Goto(c, state) == pc' = [pc EXCEPT ![c] = state]

(* A caller presents a token that it was given, or None: one that was      *)
(* never issued.                                                           *)
Presentable == {t \in Calls : pc[t] = "done" /\ tokens[t] # None} \cup {None}

Row(t) == IF t = None THEN None ELSE tokens[t]

-----------------------------------------------------------------------------
(* Mutations.  Each is a definition below with a plausible mistake in it;  *)
(* PROJECT.json names the property that fails when it takes its place.     *)

(* No expires_at.                                                          *)
NewTokenForever(user, expires) ==
  [user |-> user, expires |-> Never, revoked |-> Never, replacedBy |-> None]

(* SELECT without FOR UPDATE.                                              *)
LockedNever(t) == FALSE

(* No expiry.                                                              *)
LoadTokenOfAnyAge(c) ==
  LET row == Row(args[c].token)
  IN  /\ pc[c] = "load"
      /\ ~ \E d \in Calls : pc[d] \in Rotating /\ args[d].token = args[c].token
      /\ Goto(c, IF row = None THEN "failed"
                 ELSE IF row.revoked # Never THEN "failed" ELSE "insert")
      /\ UNCHANGED <<clock, args, accounts, tokens>>

(* UPDATE ... WHERE expires_at > NOW().                                    *)
RevokeTokenUnexpired(c) ==
  LET t == args[c].token
  IN  /\ pc[c] = "revoke"
      /\ tokens' = IF Row(t) # None /\ Row(t).revoked = Never
                      /\ Row(t).expires > clock
                   THEN [tokens EXCEPT ![t].revoked = clock] ELSE tokens
      /\ Goto(c, "answer")
      /\ UNCHANGED <<clock, args, accounts>>

(* revoked_at = NOW()                                                      *)
RevokeTokenAgain(c) ==
  LET t == args[c].token
  IN  /\ pc[c] = "revoke"
      /\ tokens' = IF Row(t) # None
                   THEN [tokens EXCEPT ![t].revoked = clock] ELSE tokens
      /\ Goto(c, "answer")
      /\ UNCHANGED <<clock, args, accounts>>

(* No check of exp.                                                        *)
AuthorizedForever(t) == pc[t] = "done" /\ tokens[t] # None

-----------------------------------------------------------------------------
(* insertRefreshToken                                                      *)
NewToken(user, expires) ==
  [user |-> user, expires |-> expires, revoked |-> Never, replacedBy |-> None]

(* FOR UPDATE and UPDATE wait for the transaction that has the row.        *)
Locked(t) == \E d \in Calls : pc[d] \in Rotating /\ args[d].token = t

(* The access token is issued right before the refresh token is inserted,  *)
(* and is stored nowhere.                                                  *)
AccessExpires(t) == tokens[t].expires - RefreshTTL + AccessTTL

(* ValidateAccessToken of the access token that call t was answered with.  *)
Authorized(t) ==
  pc[t] = "done" /\ tokens[t] # None /\ clock < AccessExpires(t)

-----------------------------------------------------------------------------
(* users_email_key and users_username_key.                                 *)
Taken(account) ==
  \E a \in accounts : a.email = account.email \/ a.username = account.username

(* Register: the account is committed before the token is issued.          *)
Register(c, account) ==
  /\ Start(c, Call("register", account.email, None),
           IF Taken(account) THEN "failed" ELSE "issue")
  /\ accounts' = accounts \cup (IF Taken(account) THEN {} ELSE {account})
  /\ UNCHANGED <<clock, tokens>>

(* Login: the account is looked up and the password compared.              *)
Login(c, user, matches) ==
  /\ Start(c, Call("login", user, None),
           IF matches /\ \E a \in accounts : a.email = user
           THEN "issue" ELSE "failed")
  /\ UNCHANGED <<clock, accounts, tokens>>

IssueToken(c) ==
  /\ pc[c] = "issue"
  /\ tokens' = [tokens EXCEPT ![c] = NewToken(args[c].user, clock + RefreshTTL)]
  /\ Goto(c, "answer")
  /\ UNCHANGED <<clock, args, accounts>>

-----------------------------------------------------------------------------
(* Refresh reads the time, then begins its transaction.                    *)
Refresh(c, token) ==
  /\ Start(c, Call("refresh", None, token), "load")
  /\ UNCHANGED <<clock, accounts, tokens>>

(* SELECT ... FOR UPDATE and what Refresh decides from the row.            *)
LoadToken(c) ==
  LET row == Row(args[c].token)
  IN  /\ pc[c] = "load" /\ ~Locked(args[c].token)
      /\ \/ row = None /\ Goto(c, "failed")
         \/ row # None /\ row.revoked # Never /\ Goto(c, "failed")
         \/ /\ row # None /\ row.revoked = Never
            /\ args[c].now > row.expires /\ Goto(c, "expire")
         \/ /\ row # None /\ row.revoked = Never
            /\ args[c].now <= row.expires /\ Goto(c, "insert")
      /\ UNCHANGED <<clock, args, accounts, tokens>>

(* The expired token is marked revoked and the call returns an error: the  *)
(* deferred Rollback undoes the mark.                                      *)
RejectExpired(c) ==
  /\ pc[c] = "expire"
  /\ Goto(c, "expired")
  /\ UNCHANGED <<clock, args, accounts, tokens>>

InsertToken(c) ==
  /\ pc[c] = "insert"
  /\ args' = [args EXCEPT ![c].expires = clock + RefreshTTL]
  /\ Goto(c, "rotate")
  /\ UNCHANGED <<clock, accounts, tokens>>

RotateToken(c) ==
  /\ pc[c] = "rotate"
  /\ Goto(c, "commit")
  /\ UNCHANGED <<clock, args, accounts, tokens>>

CommitRefresh(c) ==
  LET old == args[c].token
  IN  /\ pc[c] = "commit"
      /\ tokens' = [tokens EXCEPT
           ![old] = [@ EXCEPT !.revoked = args[c].now, !.replacedBy = c],
           ![c] = NewToken(tokens[old].user, args[c].expires)]
      /\ Goto(c, "answer")
      /\ UNCHANGED <<clock, args, accounts>>

-----------------------------------------------------------------------------
Logout(c, token) ==
  /\ Start(c, Call("logout", None, token), "revoke")
  /\ UNCHANGED <<clock, accounts, tokens>>

(* COALESCE(revoked_at, NOW()), the time at which the statement began to   *)
(* wait; a token that is not there is no error.                            *)
RevokeToken(c) ==
  LET t == args[c].token
  IN  /\ pc[c] = "revoke" /\ ~Locked(t)
      /\ IF Row(t) # None /\ Row(t).revoked = Never
         THEN \E now \in args[c].now..clock :
                tokens' = [tokens EXCEPT ![t].revoked = now]
         ELSE UNCHANGED tokens
      /\ Goto(c, "answer")
      /\ UNCHANGED <<clock, args, accounts>>

-----------------------------------------------------------------------------
(* A statement fails, the request is cancelled or the process dies: the    *)
(* transaction of Refresh is rolled back, what has committed stays.        *)
Abort(c) ==
  /\ pc[c] \in Rotating \cup {"issue", "load", "revoke"}
  /\ Goto(c, "failed")
  /\ UNCHANGED <<clock, args, accounts, tokens>>

(* The answer, for Refresh after GetUserByID; a failure from here on is    *)
(* that of a call that took effect.                                        *)
Reply(c) ==
  /\ pc[c] = "answer"
  /\ Goto(c, "done")
  /\ UNCHANGED <<clock, args, accounts, tokens>>

LoseReply(c) ==
  /\ pc[c] = "answer"
  /\ Goto(c, "failed")
  /\ UNCHANGED <<clock, args, accounts, tokens>>

Tick ==
  /\ clock < MaxTime
  /\ clock' = clock + 1
  /\ UNCHANGED <<pc, args, accounts, tokens>>

Begin(c) ==
  \/ \E account \in Account : Register(c, account)
  \/ \E user \in Emails, matches \in BOOLEAN : Login(c, user, matches)
  \/ \E token \in Presentable : Refresh(c, token) \/ Logout(c, token)

Step(c) ==
  \/ IssueToken(c) \/ LoadToken(c) \/ RejectExpired(c) \/ InsertToken(c)
  \/ RotateToken(c) \/ CommitRefresh(c) \/ RevokeToken(c) \/ Reply(c)

Next == Tick \/ \E c \in Calls : Begin(c) \/ Step(c) \/ Abort(c) \/ LoseReply(c)

Spec == Init /\ [][Next]_vars

-----------------------------------------------------------------------------
Issued(t) == tokens[t] # None
Live(t)   == Issued(t) /\ tokens[t].revoked = Never
IsRefresh(c) == pc[c] # "idle" /\ args[c].op = "refresh"

(* The login, or registration, a token descends from.                      *)
Root[t \in Calls] ==
  IF IsRefresh(t) /\ args[t].token # None THEN Root[args[t].token] ELSE t

(* A login has at most one token that can still be used, whatever          *)
(* refreshes and logouts of its tokens overlap (the lock of Refresh).      *)
OneLivePerLogin ==
  \A t, u \in Calls : Live(t) /\ Live(u) /\ Root[t] = Root[u] => t = u

(* A token that came from a refresh replaced exactly the token that was    *)
(* presented: the two rows name each other, belong to one user, and the    *)
(* old one was neither expired nor revoked when the call began; a row that *)
(* names a successor names one that is there.                              *)
RotationLinks ==
  \A t \in Calls : Issued(t) =>
    /\ IsRefresh(t) =>
         LET old == tokens[args[t].token]
         IN  /\ old # None /\ old.replacedBy = t
             /\ old.user = tokens[t].user
             /\ old.revoked = args[t].now /\ args[t].now <= old.expires
    /\ tokens[t].replacedBy # None =>
         Issued(tokens[t].replacedBy) /\ args[tokens[t].replacedBy].token = t

(* A row of refresh_tokens is never taken back: it stays, once revoked it  *)
(* does not change, and until then only being revoked changes it.          *)
RevokedForGood ==
  [][\A t \in Calls : Issued(t) =>
       \/ tokens'[t] = tokens[t]
       \/ Live(t) /\ Issued(t)' /\ ~Live(t)']_vars

(* A token whose logout was answered cannot be used again.                 *)
LogoutRevokes ==
  \A c \in Calls :
    pc[c] = "done" /\ args[c].op = "logout" /\ args[c].token # None =>
      ~Live(args[c].token)

(* The access token that came with a refresh token is accepted, by REST    *)
(* and for a new connection, for at most its lifetime after that refresh   *)
(* token was revoked: logging out, and rotation, end the access that is    *)
(* out there without a look at the database (issueAccessToken of Login and *)
(* Refresh, ValidateAccessToken).                                          *)
AccessEnds ==
  \A t \in Calls :
    Authorized(t) => Live(t) \/ clock < tokens[t].revoked + AccessTTL
=============================================================================
