--------------------------- MODULE SessionsProofs ---------------------------
(* The safety properties of Sessions, for every set of calls and accounts, *)
(* every lifetime of the tokens and any length of the run.                 *)
EXTENDS Sessions, TLAPS

(* Where a call is tells what it is and what it holds.  A token that is    *)
(* presented has been issued; the row of a token that is being rotated is  *)
(* live until the transaction ends; a logout that is done has revoked.     *)
CallInv(c) ==
  /\ args[c].token # None => Issued(args[c].token)
  /\ pc[c] = "issue" => args[c].op \in {"register", "login"} /\ args[c].user \in Emails
  /\ pc[c] = "load" => args[c].op = "refresh"
  /\ pc[c] = "revoke" => args[c].op = "logout"
  /\ pc[c] \in Rotating =>
       args[c].op = "refresh" /\ args[c].token # None /\ Live(args[c].token)
  /\ pc[c] \in {"insert", "rotate", "commit"} =>
       args[c].now <= tokens[args[c].token].expires
  /\ pc[c] \in {"rotate", "commit"} => args[c].expires # Never
  /\ pc[c] \in {"answer", "done"} /\ args[c].op = "logout" /\ args[c].token # None =>
       ~Live(args[c].token)

(* What the row of a token says of the call that issued it.                *)
TokenInv(t) ==
  /\ pc[t] \in {"answer", "done", "failed"}
  /\ args[t].op = "refresh" => args[t].token # None
  /\ Live(t) => tokens[t].replacedBy = None

(* RotationLinks, of one token.                                            *)
LinkInv(t) ==
  /\ IsRefresh(t) => /\ Issued(args[t].token)
                     /\ tokens[args[t].token].replacedBy = t
                     /\ tokens[args[t].token].user = tokens[t].user
                     /\ tokens[args[t].token].revoked = args[t].now
                     /\ args[t].now <= tokens[args[t].token].expires
  /\ tokens[t].replacedBy # None => /\ Issued(tokens[t].replacedBy)
                                    /\ args[tokens[t].replacedBy].token = t

(* FOR UPDATE: one transaction at a time rotates a token.                  *)
LocksInv ==
  \A c, d \in Calls :
    pc[c] \in Rotating /\ pc[d] \in Rotating /\ args[c].token = args[d].token => c = d

SessionsInv ==
  /\ TypeOK
  /\ \A c \in Calls : pc[c] # "idle" => CallInv(c)
  /\ \A t \in Calls : Issued(t) => TokenInv(t)
  /\ LocksInv
  /\ RotationLinks

-----------------------------------------------------------------------------
(* The initial states satisfy the invariant.                               *)
LEMMA InitInv == Init => SessionsInv
BY SessionsAssumption, NoneAssumption
DEF Init, SessionsInv, TypeOK, Time, States, Rotating, LocksInv, RotationLinks,
    Issued, IsRefresh

(* A row of which nothing but the lock matters: a token is one of Token.   *)
LEMMA IssuedTokens ==
  ASSUME TypeOK, NEW t \in Calls, Issued(t)
  PROVE  tokens[t] \in Token
BY DEF TypeOK, Issued

(* RotationLinks, token by token.                                          *)
LEMMA Links == RotationLinks <=> \A t \in Calls : Issued(t) => LinkInv(t)
BY DEF RotationLinks, LinkInv, Issued

(* A call that has begun has arguments.                                    *)
LEMMA BusyArguments ==
  ASSUME TypeOK, NEW c \in Calls, pc[c] # "idle"
  PROVE  args[c] \in Arguments
BY DEF TypeOK

-----------------------------------------------------------------------------
(* A call begins.                                                          *)
LEMMA StartInv ==
  ASSUME SessionsInv, NEW c \in Calls, NEW call \in Arguments, NEW s \in States,
         Start(c, call, s), UNCHANGED <<clock, tokens>>,
         accounts' \subseteq Account,
         s \in {"failed", "issue", "load", "revoke"},
         s = "issue" => call.op \in {"register", "login"} /\ call.user \in Emails,
         s = "load" => call.op = "refresh",
         s = "revoke" => call.op = "logout",
         call.token # None => Issued(call.token)
  PROVE  SessionsInv'
<1>1. /\ pc[c] = "idle" /\ ~Issued(c)
      /\ pc'[c] = s /\ args'[c] = call
      /\ \A d \in Calls : d # c => pc'[d] = pc[d] /\ args'[d] = args[d]
  BY DEF SessionsInv, TypeOK, Start, TokenInv, Issued
<1>2. TypeOK'
  BY <1>1, NoneAssumption DEF SessionsInv, TypeOK, Start
<1>3. ASSUME NEW d \in Calls, pc'[d] # "idle" PROVE CallInv(d)'
  BY <1>1, <1>3 DEF SessionsInv, CallInv, Issued, Live, Rotating
<1>4. ASSUME NEW t \in Calls, Issued(t)' PROVE TokenInv(t)'
  BY <1>1, <1>4 DEF SessionsInv, TokenInv, Issued, Live
<1>5. LocksInv'
  BY <1>1 DEF SessionsInv, LocksInv, Rotating
<1>6. RotationLinks'
  <2>1. ASSUME NEW t \in Calls, Issued(t)
        PROVE  /\ t # c
               /\ tokens[t].replacedBy # None => tokens[t].replacedBy # c
    BY <1>1, <2>1 DEF SessionsInv, RotationLinks
  <2> QED
    BY <1>1, <2>1, IssuedTokens DEF SessionsInv, RotationLinks, IsRefresh, Issued, Token
<1> QED
  BY <1>2, <1>3, <1>4, <1>5, <1>6 DEF SessionsInv

(* A call goes on, ends or fails without a change of the tables: what it   *)
(* must know in its new place is CallInv.                                  *)
LEMMA MoveInv ==
  ASSUME SessionsInv, NEW c \in Calls, pc[c] # "idle", NEW s \in States,
         Goto(c, s), UNCHANGED <<clock, args, accounts, tokens>>,
         s # "idle", CallInv(c)',
         s \in Rotating =>
           pc[c] \in Rotating \/ ~Locked(args[c].token),
         Issued(c) => s \in {"answer", "done", "failed"}
  PROVE  SessionsInv'
<1>1. /\ pc'[c] = s
      /\ \A d \in Calls : d # c => pc'[d] = pc[d]
  BY DEF SessionsInv, TypeOK, Goto
<1>2. TypeOK'
  BY <1>1 DEF SessionsInv, TypeOK, Goto
<1>3. ASSUME NEW d \in Calls, pc'[d] # "idle" PROVE CallInv(d)'
  BY <1>1, <1>3 DEF SessionsInv, CallInv, Issued, Live
<1>4. ASSUME NEW t \in Calls, Issued(t)' PROVE TokenInv(t)'
  BY <1>1, <1>4 DEF SessionsInv, TokenInv, Issued, Live
<1>5. LocksInv'
  BY <1>1 DEF SessionsInv, LocksInv, Locked
<1>6. RotationLinks'
  BY <1>1 DEF SessionsInv, RotationLinks, IsRefresh, Issued
<1> QED
  BY <1>2, <1>3, <1>4, <1>5, <1>6 DEF SessionsInv

(* SELECT ... FOR UPDATE: who goes on holds the row of a live token.       *)
LEMMA LoadTokenInv ==
  ASSUME SessionsInv, NEW c \in Calls, LoadToken(c)
  PROVE  SessionsInv'
<1> DEFINE t == args[c].token
           row == Row(t)
<1>1. /\ pc[c] = "load" /\ ~Locked(t) /\ ~Issued(c) /\ args[c].op = "refresh"
      /\ UNCHANGED <<clock, args, accounts, tokens>>
      /\ t # None => Issued(t)
  BY DEF LoadToken, SessionsInv, CallInv, TokenInv
<1>2. PICK s \in {"failed", "expire", "insert"} :
        /\ Goto(c, s)
        /\ s # "failed" => row # None /\ row.revoked = Never
        /\ s = "insert" => args[c].now <= row.expires
  BY DEF LoadToken
<1>3. s # "failed" => t # None /\ Live(t) /\ row = tokens[t]
  BY <1>1, <1>2 DEF Row, Live
<1>4. pc'[c] = s
  BY <1>2 DEF SessionsInv, TypeOK, Goto
<1>5. CallInv(c)'
  BY <1>1, <1>2, <1>3, <1>4 DEF CallInv, Issued, Live, Rotating
<1> QED
  BY <1>1, <1>2, <1>4, <1>5, MoveInv DEF States, Rotating

-----------------------------------------------------------------------------
(* The steps that write refresh_tokens.                                    *)

(* A new token is one of Token, and not the value of an empty row.         *)
LEMMA NewTokenType ==
  ASSUME NEW user \in Emails, NEW expires \in 0..(MaxTime + RefreshTTL)
  PROVE  /\ NewToken(user, expires) \in Token
         /\ NewToken(user, expires) # None
BY NoneAssumption DEF NewToken, Token

(* Register and Login insert a token that descends from none.              *)
LEMMA IssueTokenInv ==
  ASSUME SessionsInv, NEW c \in Calls, IssueToken(c)
  PROVE  SessionsInv'
<1> DEFINE new == NewToken(args[c].user, clock + RefreshTTL)
<1>1. /\ pc[c] = "issue" /\ ~Issued(c)
      /\ args[c].op \in {"register", "login"} /\ args[c].user \in Emails
      /\ UNCHANGED <<clock, args, accounts>>
  BY DEF IssueToken, SessionsInv, CallInv, TokenInv
<1>2. new \in Token /\ new # None
  BY <1>1, NewTokenType, SessionsAssumption DEF SessionsInv, TypeOK, Time
<1>3. /\ pc'[c] = "answer" /\ tokens'[c] = new
      /\ \A d \in Calls : d # c => pc'[d] = pc[d] /\ tokens'[d] = tokens[d]
  BY DEF IssueToken, Goto, SessionsInv, TypeOK
<1>4. TypeOK'
  BY <1>1, <1>2 DEF SessionsInv, TypeOK, IssueToken, Goto, States
<1>5. \A d \in Calls : Issued(d) => Issued(d)' /\ tokens'[d] = tokens[d] /\ d # c
  BY <1>1, <1>3 DEF Issued
<1>6. \A d \in Calls : pc[d] # "idle" /\ args[d].token # None => args[d].token \in Calls
  BY BusyArguments DEF SessionsInv, Arguments
<1>7. ASSUME NEW d \in Calls, pc'[d] # "idle" PROVE CallInv(d)'
  BY <1>1, <1>3, <1>5, <1>6, <1>7 DEF SessionsInv, CallInv, Live, Issued, Rotating
<1>8. ASSUME NEW t \in Calls, Issued(t)' PROVE TokenInv(t)'
  BY <1>1, <1>3, <1>8 DEF SessionsInv, TokenInv, Issued, Live, NewToken
<1>9. LocksInv'
  BY <1>1, <1>3 DEF SessionsInv, LocksInv, Rotating
<1>10. RotationLinks'
  <2>1. ASSUME NEW t \in Calls, Issued(t), IsRefresh(t)
        PROVE  args[t].token \in Calls /\ Issued(args[t].token)
    BY <2>1, <1>6 DEF SessionsInv, TokenInv, IsRefresh, RotationLinks, Issued
  <2>2. ASSUME NEW t \in Calls, Issued(t), tokens[t].replacedBy # None
        PROVE  tokens[t].replacedBy \in Calls
    BY <2>2, IssuedTokens DEF Token, SessionsInv
  <2> QED
    BY <1>1, <1>3, <1>5, <2>1, <2>2
    DEF SessionsInv, RotationLinks, IsRefresh, Issued, NewToken
<1> QED
  BY <1>4, <1>7, <1>8, <1>9, <1>10 DEF SessionsInv

(* The new token is inserted, and not yet committed.                       *)
LEMMA InsertTokenInv ==
  ASSUME SessionsInv, NEW c \in Calls, InsertToken(c)
  PROVE  SessionsInv'
<1>1. /\ pc[c] = "insert" /\ ~Issued(c) /\ args[c] \in Arguments
      /\ UNCHANGED <<clock, accounts, tokens>>
  BY BusyArguments DEF InsertToken, SessionsInv, TokenInv
<1>2. /\ pc'[c] = "rotate" /\ args'[c] = [args[c] EXCEPT !.expires = clock + RefreshTTL]
      /\ \A d \in Calls : d # c => pc'[d] = pc[d] /\ args'[d] = args[d]
  BY DEF InsertToken, Goto, SessionsInv, TypeOK
<1>3. clock + RefreshTTL \in 0..(MaxTime + RefreshTTL) /\ clock + RefreshTTL # Never
  BY SessionsAssumption DEF SessionsInv, TypeOK, Time, Never
<1>4. /\ args'[c] \in Arguments
      /\ args'[c].expires = clock + RefreshTTL /\ args'[c].op = args[c].op
      /\ args'[c].token = args[c].token /\ args'[c].now = args[c].now
  BY <1>1, <1>2, <1>3 DEF Arguments
<1>5. \A d \in Calls : /\ args'[d].op = args[d].op /\ args'[d].token = args[d].token
                     /\ args'[d].now = args[d].now
  BY <1>2, <1>4 DEF Arguments
<1>6. TypeOK'
  BY <1>1, <1>2, <1>4, NoneAssumption DEF SessionsInv, TypeOK, InsertToken, Goto, States, Rotating
<1>7. ASSUME NEW d \in Calls, pc'[d] # "idle" PROVE CallInv(d)'
  <2>1. CASE d = c
    BY <2>1, <1>1, <1>2, <1>3, <1>4 DEF SessionsInv, CallInv, Issued, Live, Rotating
  <2>2. CASE d # c
    BY <2>2, <1>1, <1>2, <1>7 DEF SessionsInv, CallInv, Issued, Live, Rotating
  <2> QED
    BY <2>1, <2>2
<1>8. ASSUME NEW t \in Calls, Issued(t)' PROVE TokenInv(t)'
  BY <1>1, <1>2, <1>5, <1>8 DEF SessionsInv, TokenInv, Issued, Live
<1>9. LocksInv'
  BY <1>1, <1>2, <1>5 DEF SessionsInv, LocksInv, Rotating
<1>10. RotationLinks'
  BY <1>1, <1>2, <1>5, IssuedTokens DEF SessionsInv, RotationLinks, IsRefresh, Issued, Token
<1> QED
  BY <1>6, <1>7, <1>8, <1>9, <1>10 DEF SessionsInv

(* The old row is live until this commit, and names no successor.          *)
LEMMA CommitRefreshInv ==
  ASSUME SessionsInv, NEW c \in Calls, CommitRefresh(c)
  PROVE  SessionsInv'
<1> DEFINE old == args[c].token
           new == NewToken(tokens[old].user, args[c].expires)
<1>1. /\ pc[c] = "commit" /\ ~Issued(c) /\ args[c] \in Arguments
      /\ args[c].op = "refresh" /\ old \in Calls /\ old # c /\ Live(old)
      /\ args[c].now \in Time /\ args[c].now <= tokens[old].expires
      /\ tokens[old] \in Token /\ tokens[old].replacedBy = None
      /\ args[c].expires \in 0..(MaxTime + RefreshTTL)
      /\ UNCHANGED <<clock, args, accounts>>
  BY BusyArguments, IssuedTokens
  DEF CommitRefresh, SessionsInv, CallInv, TokenInv, Rotating, Arguments, Live
<1>2. new \in Token /\ new # None
  BY <1>1, NewTokenType DEF Token
<1>3. /\ pc'[c] = "answer"
      /\ tokens'[c] = new
      /\ tokens'[old] = [tokens[old] EXCEPT !.revoked = args[c].now, !.replacedBy = c]
      /\ \A d \in Calls : d # c => pc'[d] = pc[d]
      /\ \A d \in Calls \ {c, old} : tokens'[d] = tokens[d]
  BY <1>1 DEF CommitRefresh, Goto, SessionsInv, TypeOK
<1>4. /\ tokens'[old] \in Token /\ tokens'[old] # None
      /\ tokens'[old].revoked = args[c].now /\ tokens'[old].revoked # Never
      /\ tokens'[old].replacedBy = c
      /\ tokens'[old].user = tokens[old].user
      /\ tokens'[old].expires = tokens[old].expires
  <2> DEFINE row == [tokens[old] EXCEPT !.revoked = args[c].now, !.replacedBy = c]
  <2>1. /\ row \in Token /\ row.revoked = args[c].now /\ row.replacedBy = c
        /\ row.user = tokens[old].user /\ row.expires = tokens[old].expires
    BY <1>1 DEF Token
  <2>2. row # None /\ args[c].now # Never
    BY <1>1, <2>1, NoneAssumption, SessionsAssumption DEF Time, Never
  <2> HIDE DEF row
  <2> QED
    BY <1>3, <2>1, <2>2 DEF row
<1>5. TypeOK'
  <2>1. tokens' \in [Calls -> Token \cup {None}]
    <3>1. DOMAIN tokens' = Calls /\ tokens' = [d \in Calls |-> tokens'[d]]
      BY DEF CommitRefresh, SessionsInv, TypeOK
    <3>2. \A d \in Calls : tokens'[d] \in Token \cup {None}
      BY <1>2, <1>3, <1>4 DEF SessionsInv, TypeOK
    <3> QED
      BY <3>1, <3>2
  <2> QED
    BY <2>1, <1>1, <1>3 DEF SessionsInv, TypeOK, CommitRefresh, Goto, States
<1>6. \A d \in Calls : /\ Issued(d) => Issued(d)' /\ d # c
                       /\ Live(d)' => (Live(d) /\ d # old) \/ d = c
  BY <1>1, <1>3, <1>4 DEF Issued, Live
<1>7. \A d \in Calls : pc[d] # "idle" /\ args[d].token # None =>
                         args[d].token \in Calls /\ Issued(args[d].token)
  BY BusyArguments DEF SessionsInv, Arguments, CallInv
<1>8. ASSUME NEW d \in Calls, pc'[d] # "idle" PROVE CallInv(d)'
  <2>1. CASE d = c
    BY <2>1, <1>1, <1>3, <1>4 DEF CallInv, Issued, Rotating
  <2>2. CASE d # c
    <3>1. pc[d] \in Rotating => args[d].token # old /\ args[d].token # None
      BY <2>2, <1>1 DEF SessionsInv, LocksInv, Rotating, CallInv
    <3>2. pc[d] \in Rotating => args[d].token \in Calls \ {c, old}
      BY <3>1, <1>6, <1>7, <2>2 DEF Rotating
    <3> QED
      BY <2>2, <3>2, <1>1, <1>3, <1>6, <1>7, <1>8
      DEF SessionsInv, CallInv, Live, Issued, Rotating
  <2> QED
    BY <2>1, <2>2
<1>9. ASSUME NEW t \in Calls, Issued(t)' PROVE TokenInv(t)'
  <2>1. CASE t = c
    BY <2>1, <1>1, <1>3, SessionsAssumption DEF TokenInv, Live, NewToken
  <2>2. CASE t = old
    BY <2>2, <1>1, <1>3, <1>4 DEF SessionsInv, TokenInv, Live
  <2>3. CASE t \notin {c, old}
    BY <2>3, <1>1, <1>3, <1>9 DEF SessionsInv, TokenInv, Issued, Live
  <2> QED
    BY <2>1, <2>2, <2>3
<1>10. LocksInv'
  BY <1>1, <1>3 DEF SessionsInv, LocksInv, Rotating
<1>11. RotationLinks'
  <2> SUFFICES ASSUME NEW t \in Calls, Issued(t)' PROVE LinkInv(t)'
    BY <1>1 DEF RotationLinks, LinkInv, Issued
  <2>1. CASE t = c
    <3>1. tokens'[c].user = tokens[old].user /\ tokens'[c].replacedBy = None
      BY <1>3 DEF NewToken
    <3> QED
      BY <2>1, <3>1, <1>1, <1>4 DEF LinkInv, Issued
  <2>2. CASE t = old
    <3>1. tokens'[t].replacedBy = c /\ Issued(c)'
      BY <2>2, <1>2, <1>3, <1>4 DEF Issued
    <3>2. ASSUME IsRefresh(t)' PROVE args[t].token \in Calls \ {c, old}
      <4>1. IsRefresh(t) /\ Issued(t) /\ args[t].token # None
        BY <3>2, <2>2, <1>1, <1>3 DEF IsRefresh, SessionsInv, TokenInv, Live
      <4>2. args[t].token \in Calls /\ Issued(args[t].token)
        BY <4>1, <1>7 DEF IsRefresh
      <4>3. tokens[args[t].token].replacedBy # None
        BY <4>1, SessionsAssumption DEF SessionsInv, RotationLinks
      <4> QED
        BY <4>2, <4>3, <1>1, <1>6
    <3> QED
      <4>1. LinkInv(old) /\ IsRefresh(old)' = IsRefresh(old)
        BY <2>2, <1>1, <1>3, Links DEF SessionsInv, Live, IsRefresh
      <4>2. IsRefresh(old) =>
              args[old].token \in Calls /\ tokens'[args[old].token] = tokens[args[old].token]
        BY <2>2, <3>2, <4>1, <1>1, <1>3
      <4> QED
        BY <2>2, <3>1, <4>1, <4>2, <1>1, <1>4 DEF LinkInv, Issued
  <2>3. CASE t \notin {c, old}
    <3>1. Issued(t) /\ tokens'[t] = tokens[t] /\ tokens[t] \in Token /\ IsRefresh(t)' = IsRefresh(t)
      BY <2>3, <1>1, <1>3, IssuedTokens DEF Issued, SessionsInv, IsRefresh
    <3>2. ASSUME IsRefresh(t) PROVE args[t].token \in Calls \ {c, old}
      <4>1. args[t].token \in Calls /\ Issued(args[t].token) /\ args[t].token # None
        BY <3>1, <3>2, <1>7 DEF IsRefresh, SessionsInv, TokenInv
      <4>2. tokens[args[t].token].replacedBy # None
        BY <3>1, <3>2, SessionsAssumption DEF SessionsInv, RotationLinks
      <4> QED
        BY <4>1, <4>2, <1>1, <1>6
    <3>3. tokens[t].replacedBy # None =>
            tokens[t].replacedBy \in Calls /\ Issued(tokens[t].replacedBy)
      BY <3>1 DEF Token, SessionsInv, RotationLinks
    <3> QED
      <4>1. LinkInv(t)
        BY <3>1, Links DEF SessionsInv
      <4>2. IsRefresh(t) => tokens'[args[t].token] = tokens[args[t].token]
        BY <3>2, <1>3
      <4> QED
        BY <3>1, <3>3, <4>1, <4>2, <1>1, <1>6 DEF LinkInv, Issued
  <2> QED
    BY <2>1, <2>2, <2>3
<1> QED
  BY <1>5, <1>8, <1>9, <1>10, <1>11 DEF SessionsInv

(* Revoking takes a token from nobody who holds its lock.                  *)
LEMMA RevokeTokenInv ==
  ASSUME SessionsInv, NEW c \in Calls, RevokeToken(c)
  PROVE  SessionsInv'
<1> DEFINE t == args[c].token
<1>1. /\ pc[c] = "revoke" /\ ~Locked(t) /\ ~Issued(c) /\ args[c] \in Arguments
      /\ args[c].op = "logout" /\ args[c].now \in Time
      /\ t # None => t \in Calls /\ Issued(t) /\ tokens[t] \in Token
      /\ UNCHANGED <<clock, args, accounts>>
  BY BusyArguments, IssuedTokens
  DEF RevokeToken, SessionsInv, CallInv, TokenInv, Arguments
<1>2. /\ pc'[c] = "answer"
      /\ \A d \in Calls : d # c => pc'[d] = pc[d]
  BY DEF RevokeToken, Goto, SessionsInv, TypeOK
<1>3. CASE t # None /\ Live(t)
  <2>1. PICK now \in args[c].now..clock : tokens' = [tokens EXCEPT ![t].revoked = now]
    BY <1>3 DEF RevokeToken, Row, Live, Issued
  <2>2. /\ tokens'[t] = [tokens[t] EXCEPT !.revoked = now]
        /\ \A d \in Calls : d # t => tokens'[d] = tokens[d]
    BY <2>1, <1>1, <1>3 DEF SessionsInv, TypeOK
  <2>3. /\ tokens'[t] \in Token /\ tokens'[t] # None /\ tokens'[t].revoked # Never
        /\ tokens'[t].user = tokens[t].user /\ tokens'[t].expires = tokens[t].expires
        /\ tokens'[t].replacedBy = tokens[t].replacedBy
    BY <2>1, <2>2, <1>1, <1>3, NoneAssumption, SessionsAssumption
    DEF Token, Time, Never, SessionsInv, TypeOK
  <2>4. TypeOK'
    BY <1>1, <2>1, <2>3, <1>3 DEF SessionsInv, TypeOK, RevokeToken, Goto, States
  <2>5. \A d \in Calls : Issued(d)' = Issued(d) /\ (Live(d)' = (Live(d) /\ d # t))
    BY <2>2, <2>3, <1>1, <1>3 DEF Issued, Live
  <2>6. \A d \in Calls : pc[d] # "idle" /\ args[d].token # None => args[d].token \in Calls
    BY BusyArguments DEF SessionsInv, Arguments
  <2>7. ASSUME NEW d \in Calls, pc'[d] # "idle" PROVE CallInv(d)'
    <3>1. pc[d] \in Rotating => args[d].token # t
      BY <1>1 DEF Locked
    <3> QED
      <4>1. args[d].token \in Calls /\ args[d].token # t =>
              tokens'[args[d].token] = tokens[args[d].token]
        BY <2>2
      <4>2. CASE d = c
        BY <4>2, <2>5, <1>1, <1>2 DEF CallInv, Rotating
      <4>3. CASE d # c
        BY <4>1, <4>3, <3>1, <2>5, <2>6, <2>7, <1>1, <1>2
        DEF SessionsInv, CallInv, Rotating
      <4> QED
        BY <4>2, <4>3
  <2>8. ASSUME NEW u \in Calls, Issued(u)' PROVE TokenInv(u)'
    BY <2>2, <2>5, <2>8, <1>1, <1>2 DEF SessionsInv, TokenInv
  <2>9. LocksInv'
    BY <1>1, <1>2 DEF SessionsInv, LocksInv, Rotating
  <2>10. RotationLinks'
    <3> SUFFICES ASSUME NEW u \in Calls, Issued(u) PROVE LinkInv(u)'
      BY <2>5, <1>1 DEF RotationLinks, LinkInv, Issued
    <3>1. /\ tokens'[u].user = tokens[u].user
          /\ tokens'[u].replacedBy = tokens[u].replacedBy
          /\ tokens[u] \in Token
      BY <2>2, <2>3, IssuedTokens DEF SessionsInv
    <3>2. IsRefresh(u) => args[u].token \in Calls \ {t}
      <4> SUFFICES ASSUME IsRefresh(u) PROVE args[u].token \in Calls \ {t}
        OBVIOUS
      <4>1. args[u].token # None /\ args[u].token \in Calls
        BY <2>6 DEF SessionsInv, TokenInv, IsRefresh
      <4>2. tokens[args[u].token].revoked = args[u].now /\ args[u].now \in Time
        BY BusyArguments DEF SessionsInv, RotationLinks, IsRefresh, Arguments
      <4> QED
        BY <4>1, <4>2, <1>3 DEF Live, Time, Never
    <3> QED
      <4>1. LinkInv(u) /\ IsRefresh(u)' = IsRefresh(u)
        BY <1>1, <1>2, Links DEF SessionsInv, IsRefresh
      <4>2. IsRefresh(u) => tokens'[args[u].token] = tokens[args[u].token]
        BY <3>2, <2>2
      <4> QED
        BY <3>1, <3>2, <4>1, <4>2, <2>5, <1>1 DEF LinkInv, Issued, Token
  <2> QED
    BY <2>4, <2>7, <2>8, <2>9, <2>10 DEF SessionsInv
<1>4. CASE ~(t # None /\ Live(t))
  <2>1. UNCHANGED tokens /\ Goto(c, "answer")
    BY <1>4 DEF RevokeToken, Row, Live, Issued
  <2>2. CallInv(c)'
    BY <2>1, <1>1, <1>2, <1>4 DEF CallInv, Issued, Live, Rotating
  <2> QED
    BY <2>1, <2>2, <1>1, MoveInv DEF States, Rotating
<1> QED
  BY <1>3, <1>4

-----------------------------------------------------------------------------
(* What the disjuncts of Begin have in common.                             *)
LEMMA BeginStarts ==
  ASSUME SessionsInv, NEW c \in Calls, Begin(c)
  PROVE  \E call \in Arguments, s \in {"failed", "issue", "load", "revoke"} :
           /\ Start(c, call, s) /\ UNCHANGED <<clock, tokens>>
           /\ accounts' \subseteq Account
           /\ call.now = clock /\ call.expires = Never
           /\ s = "issue" => call.op \in {"register", "login"} /\ call.user \in Emails
           /\ s = "load" => call.op = "refresh"
           /\ s = "revoke" => call.op = "logout"
           /\ call.token # None => call.token \in Presentable
           /\ call.token # None => call.op \in {"refresh", "logout"}
<1> clock \in Time
  BY DEF SessionsInv, TypeOK
<1>1. ASSUME NEW account \in Account, Register(c, account)
      PROVE  /\ Call("register", account.email, None) \in Arguments
             /\ accounts' \subseteq Account
  BY <1>1 DEF Register, Call, Arguments, Account, SessionsInv, TypeOK
<1>2. ASSUME NEW user \in Emails PROVE Call("login", user, None) \in Arguments
  BY DEF Call, Arguments
<1>3. ASSUME NEW token \in Presentable
      PROVE  Call("refresh", None, token) \in Arguments /\ Call("logout", None, token) \in Arguments
  BY DEF Call, Arguments, Presentable
<1>4. CASE \E account \in Account : Register(c, account)
  BY <1>1, <1>4 DEF Register, Call, Account
<1>5. CASE \E user \in Emails, matches \in BOOLEAN : Login(c, user, matches)
  BY <1>2, <1>5 DEF Login, Call, SessionsInv, TypeOK
<1>6. CASE \E token \in Presentable : Refresh(c, token) \/ Logout(c, token)
  BY <1>3, <1>6 DEF Refresh, Logout, Call, SessionsInv, TypeOK
<1> QED
  BY <1>4, <1>5, <1>6 DEF Begin

(* Every step preserves the invariant.                                     *)
LEMMA NextInv == SessionsInv /\ [Next]_vars => SessionsInv'
<1> SUFFICES ASSUME SessionsInv, [Next]_vars PROVE SessionsInv'
  OBVIOUS
<1>1. ASSUME NEW c \in Calls, Begin(c) PROVE SessionsInv'
  <2>1. \A t \in Presentable : t # None => Issued(t)
    BY DEF Presentable, Issued
  <2> QED
    BY <1>1, <2>1, BeginStarts, StartInv DEF States
<1>2. ASSUME NEW c \in Calls, NEW s \in {"expired", "commit", "failed", "done"},
             pc[c] # "idle", Goto(c, s), UNCHANGED <<clock, args, accounts, tokens>>,
             s = "commit" => pc[c] = "rotate",
             s = "done" => pc[c] = "answer",
             s = "expired" => pc[c] = "expire"
      PROVE  SessionsInv'
  <2>1. pc'[c] = s
    BY <1>2 DEF SessionsInv, TypeOK, Goto
  <2>2. CallInv(c)'
    BY <1>2, <2>1 DEF SessionsInv, CallInv, Issued, Live, Rotating
  <2>3. Issued(c) => pc[c] \in {"answer", "done", "failed"}
    BY DEF SessionsInv, TokenInv
  <2> QED
    BY <1>2, <2>2, <2>3, MoveInv DEF States, Rotating
<1>3. ASSUME NEW c \in Calls, RejectExpired(c) \/ RotateToken(c) \/ Abort(c)
                                \/ Reply(c) \/ LoseReply(c)
      PROVE  SessionsInv'
  BY <1>2, <1>3 DEF RejectExpired, RotateToken, Abort, Reply, LoseReply, Rotating
<1>4. CASE Tick
  <2>1. TypeOK'
    BY <1>4, SessionsAssumption DEF Tick, SessionsInv, TypeOK, Time
  <2> QED
    BY <1>4, <2>1 DEF Tick, SessionsInv, CallInv, TokenInv, LocksInv, RotationLinks,
                      Issued, Live, IsRefresh
<1>5. CASE UNCHANGED vars
  BY <1>5 DEF vars, SessionsInv, TypeOK, CallInv, TokenInv, LocksInv, RotationLinks,
              Issued, Live, IsRefresh
<1> QED
  BY <1>1, <1>3, <1>4, <1>5, LoadTokenInv, IssueTokenInv, InsertTokenInv,
     CommitRefreshInv, RevokeTokenInv DEF Next, Step

(* So it holds in every reachable state.                                   *)
LEMMA SpecInv == Spec => []SessionsInv
BY InitInv, NextInv, PTL DEF Spec

(* The rows and the calls have their types: no token without an expiry or  *)
(* an owner, and nothing is asked of a call that has not begun.            *)
THEOREM TypeCorrect == Spec => []TypeOK
<1>1. SessionsInv => TypeOK
  BY DEF SessionsInv
<1> QED
  BY <1>1, SpecInv, PTL

(* Refresh replaces exactly the token it was given, which was good when it *)
(* was called, in one transaction.                                         *)
THEOREM RotationsLinked == Spec => []RotationLinks
<1>1. SessionsInv => RotationLinks
  BY DEF SessionsInv
<1> QED
  BY <1>1, SpecInv, PTL

(* A logout that was answered holds: no Refresh that overlaps it brings    *)
(* the token back.                                                         *)
THEOREM LogoutHolds == Spec => []LogoutRevokes
<1>1. SessionsInv => LogoutRevokes
  BY DEF SessionsInv, CallInv, LogoutRevokes
<1> QED
  BY <1>1, SpecInv, PTL

-----------------------------------------------------------------------------
(* Each step writes at most the row it inserts and the live row it revokes. *)
LEMMA TokenSteps ==
  ASSUME SessionsInv, [Next]_vars
  PROVE  \/ tokens' = tokens
         \/ \E c \in Calls : IssueToken(c)
         \/ \E c \in Calls : CommitRefresh(c)
         \/ \E c \in Calls : /\ RevokeToken(c)
                             /\ args[c].token # None /\ Live(args[c].token)
BY DEF Next, vars, Begin, Register, Login, Refresh, Logout, Step, LoadToken,
       RejectExpired, InsertToken, RotateToken, RevokeToken, Abort, Reply,
       LoseReply, Tick, Row, Live, Issued

(* A login adds its own live token and changes no other.                   *)
LEMMA IssueEffect ==
  ASSUME SessionsInv, NEW c \in Calls, IssueToken(c)
  PROVE  /\ ~Issued(c) /\ Issued(c)' /\ UNCHANGED <<clock, args>>
         /\ args[c].op \in {"register", "login"}
         /\ tokens'[c] = NewToken(args[c].user, clock + RefreshTTL)
         /\ \A d \in Calls : d # c => tokens'[d] = tokens[d]
<1>1. /\ pc[c] = "issue" /\ args[c].op \in {"register", "login"}
      /\ args[c].user \in Emails /\ clock + RefreshTTL \in 0..(MaxTime + RefreshTTL)
  BY SessionsAssumption DEF IssueToken, SessionsInv, CallInv, TypeOK, Time
<1>2. NewToken(args[c].user, clock + RefreshTTL) # None
  BY <1>1, NewTokenType
<1> QED
  BY <1>1, <1>2 DEF IssueToken, SessionsInv, TokenInv, TypeOK, Issued

(* A refresh replaces one live token of its account by another.            *)
LEMMA CommitEffect ==
  ASSUME SessionsInv, NEW c \in Calls, CommitRefresh(c)
  PROVE  LET old == args[c].token
         IN  /\ ~Issued(c) /\ Issued(c)' /\ UNCHANGED <<clock, args>>
             /\ args[c].op = "refresh" /\ pc[c] = "commit"
             /\ old \in Calls /\ old # c /\ old # None
             /\ Live(old) /\ Issued(old)' /\ ~Live(old)'
             /\ tokens'[old].revoked = args[c].now
             /\ tokens'[old].expires = tokens[old].expires
             /\ tokens'[c] = NewToken(tokens[old].user, args[c].expires)
             /\ \A d \in Calls \ {c, old} : tokens'[d] = tokens[d]
<1> DEFINE old == args[c].token
           row == [tokens[old] EXCEPT !.revoked = args[c].now, !.replacedBy = c]
<1>1. /\ pc[c] = "commit" /\ ~Issued(c) /\ args[c].op = "refresh"
      /\ old \in Calls /\ old # c /\ old # None /\ Live(old)
      /\ args[c].now \in Time /\ tokens[old] \in Token
      /\ args[c].expires \in 0..(MaxTime + RefreshTTL)
      /\ UNCHANGED <<clock, args>>
  BY BusyArguments, IssuedTokens
  DEF CommitRefresh, SessionsInv, CallInv, TokenInv, Rotating, Arguments, Live
<1>2. NewToken(tokens[old].user, args[c].expires) # None
  BY <1>1, NewTokenType DEF Token
<1>3. /\ row \in Token /\ row.revoked = args[c].now /\ row.expires = tokens[old].expires
  BY <1>1 DEF Token
<1>4. row # None /\ args[c].now # Never
  BY <1>1, <1>3, NoneAssumption, SessionsAssumption DEF Time, Never
<1>5. /\ tokens'[c] = NewToken(tokens[old].user, args[c].expires)
      /\ tokens'[old] = row
      /\ \A d \in Calls \ {c, old} : tokens'[d] = tokens[d]
  BY <1>1 DEF CommitRefresh, SessionsInv, TypeOK
<1> HIDE DEF row
<1> QED
  BY <1>1, <1>2, <1>3, <1>4, <1>5 DEF Issued, Live

(* A logout revokes a live token and adds none.                            *)
LEMMA RevokeEffect ==
  ASSUME SessionsInv, NEW c \in Calls, RevokeToken(c),
         args[c].token # None, Live(args[c].token)
  PROVE  LET t == args[c].token
         IN  /\ t \in Calls /\ UNCHANGED <<clock, args>>
             /\ Issued(t)' /\ ~Live(t)'
             /\ tokens'[t].revoked \in args[c].now..clock
             /\ tokens'[t].expires = tokens[t].expires
             /\ \A d \in Calls : d # t => tokens'[d] = tokens[d]
<1> DEFINE t == args[c].token
<1>1. /\ t \in Calls /\ tokens[t] \in Token /\ args[c].now \in Time /\ clock \in Time
  BY BusyArguments, IssuedTokens
  DEF RevokeToken, SessionsInv, TypeOK, Arguments, Live
<1>2. PICK now \in args[c].now..clock : tokens' = [tokens EXCEPT ![t].revoked = now]
  BY DEF RevokeToken, Row, Live, Issued
<1>3. /\ tokens'[t] = [tokens[t] EXCEPT !.revoked = now]
      /\ \A d \in Calls : d # t => tokens'[d] = tokens[d]
  BY <1>1, <1>2 DEF SessionsInv, TypeOK
<1>4. /\ tokens'[t] \in Token /\ tokens'[t].revoked = now /\ now # Never
      /\ tokens'[t].expires = tokens[t].expires
  BY <1>1, <1>3, SessionsAssumption DEF Token, Time, Never
<1> QED
  BY <1>1, <1>3, <1>4, NoneAssumption DEF RevokeToken, Issued, Live

(* A row of refresh_tokens changes once, from live to revoked, and is      *)
(* never deleted.                                                          *)
THEOREM RevokedStays == Spec => RevokedForGood
<1>1. ASSUME SessionsInv, [Next]_vars
      PROVE  \A t \in Calls : Issued(t) =>
               \/ tokens'[t] = tokens[t]
               \/ Live(t) /\ Issued(t)' /\ ~Live(t)'
  <2>1. ASSUME NEW c \in Calls, IssueToken(c), NEW t \in Calls, Issued(t)
        PROVE  tokens'[t] = tokens[t]
    BY <1>1, <2>1, IssueEffect
  <2>2. ASSUME NEW c \in Calls, CommitRefresh(c), NEW t \in Calls, Issued(t)
        PROVE  tokens'[t] = tokens[t] \/ (Live(t) /\ Issued(t)' /\ ~Live(t)')
    BY <1>1, <2>2, CommitEffect
  <2>3. ASSUME NEW c \in Calls, RevokeToken(c), args[c].token # None,
               Live(args[c].token), NEW t \in Calls
        PROVE  tokens'[t] = tokens[t] \/ (Live(t) /\ Issued(t)' /\ ~Live(t)')
    BY <1>1, <2>3, RevokeEffect
  <2> QED
    BY <1>1, <2>1, <2>2, <2>3, TokenSteps
<1> QED
  BY <1>1, SpecInv, PTL DEF Spec, RevokedForGood

-----------------------------------------------------------------------------
(* Times.  A refresh token says when it was issued, for it expires a       *)
(* RefreshTTL later; it was presented, and revoked, no earlier.            *)
IssuedAt(t) == tokens[t].expires - RefreshTTL

TimesInv ==
  /\ \A t \in Calls : Issued(t) =>
       /\ IssuedAt(t) <= clock
       /\ tokens[t].revoked # Never => IssuedAt(t) <= tokens[t].revoked
  /\ \A c \in Calls : pc[c] # "idle" =>
       /\ args[c].expires - RefreshTTL <= clock
       /\ args[c].token # None => IssuedAt(args[c].token) <= args[c].now

(* Every step preserves the times.                                         *)
LEMMA TimesNext == SessionsInv /\ TimesInv /\ [Next]_vars => TimesInv'
<1> SUFFICES ASSUME SessionsInv, TimesInv, [Next]_vars PROVE TimesInv'
  OBVIOUS
<1> USE SessionsAssumption DEF Never
<1>0. /\ clock \in Nat
      /\ \A t \in Calls : Issued(t) =>
           /\ tokens[t].expires \in Int /\ tokens[t].revoked \in Int
           /\ IssuedAt(t) \in Int
      /\ \A c \in Calls : pc[c] # "idle" =>
           /\ args[c].now \in Nat /\ args[c].expires \in Int
           /\ args[c].token # None => args[c].token \in Calls /\ Issued(args[c].token)
  BY BusyArguments, IssuedTokens
  DEF SessionsInv, TypeOK, Time, CallInv, Arguments, Token, IssuedAt
<1>1. ASSUME NEW c \in Calls, IssueToken(c) PROVE TimesInv'
  <2>1. /\ \A d \in Calls : Issued(d) => d # c /\ tokens'[d] = tokens[d]
        /\ tokens'[c].expires = clock + RefreshTTL /\ tokens'[c].revoked = Never
        /\ \A d \in Calls : pc'[d] # "idle" => pc[d] # "idle"
        /\ clock' = clock /\ args' = args
        /\ \A d \in Calls : Issued(d)' => Issued(d) \/ d = c
    BY <1>1, IssueEffect DEF NewToken, IssueToken, Goto, SessionsInv, TypeOK, Issued
  <2> QED
    BY <1>0, <2>1 DEF TimesInv, IssuedAt
<1>2. ASSUME NEW c \in Calls, CommitRefresh(c) PROVE TimesInv'
  <2> DEFINE old == args[c].token
  <2>1. /\ pc[c] = "commit" /\ old \in Calls /\ old # c /\ old # None
        /\ clock' = clock /\ args' = args
        /\ tokens'[old].revoked = args[c].now /\ tokens'[old].expires = tokens[old].expires
        /\ tokens'[c].expires = args[c].expires /\ tokens'[c].revoked = Never
        /\ \A d \in Calls \ {c, old} : tokens'[d] = tokens[d]
        /\ \A d \in Calls : Issued(d) => d # c
        /\ \A d \in Calls : Issued(d)' => Issued(d) \/ d = c
        /\ Issued(old)
    <3> HIDE DEF old
    <3>1. /\ pc[c] = "commit" /\ old \in Calls /\ old # c /\ old # None
          /\ clock' = clock /\ args' = args
          /\ tokens'[old].revoked = args[c].now /\ tokens'[old].expires = tokens[old].expires
          /\ tokens'[c] = NewToken(tokens[old].user, args[c].expires)
          /\ \A d \in Calls \ {c, old} : tokens'[d] = tokens[d]
          /\ ~Issued(c) /\ Live(old)
      BY <1>2, CommitEffect DEF old
    <3> QED
      BY <3>1 DEF NewToken, Issued, Live
  <2>2. \A d \in Calls : pc'[d] # "idle" => pc[d] # "idle"
    BY <1>2, <2>1 DEF CommitRefresh, Goto, SessionsInv, TypeOK
  <2>3. \A d \in Calls : Issued(d) => IssuedAt(d)' = IssuedAt(d)
    BY <2>1 DEF IssuedAt
  <2>4. IssuedAt(old) <= args[c].now /\ IssuedAt(c)' = args[c].expires - RefreshTTL
    BY <2>1 DEF TimesInv, IssuedAt
  <2> QED
    BY <1>0, <2>1, <2>2, <2>3, <2>4 DEF TimesInv
<1>3. ASSUME NEW c \in Calls, RevokeToken(c), args[c].token # None, Live(args[c].token)
      PROVE  TimesInv'
  <2> DEFINE t == args[c].token
  <2>1. /\ pc[c] # "idle" /\ t \in Calls /\ clock' = clock /\ args' = args
        /\ tokens'[t].revoked \in args[c].now..clock
        /\ tokens'[t].expires = tokens[t].expires
        /\ \A d \in Calls : d # t => tokens'[d] = tokens[d]
        /\ \A d \in Calls : pc'[d] # "idle" => pc[d] # "idle"
        /\ \A d \in Calls : Issued(d)' => Issued(d)
    BY <1>3, RevokeEffect DEF RevokeToken, Goto, SessionsInv, TypeOK, Issued, Live
  <2>2. \A d \in Calls : IssuedAt(d)' = IssuedAt(d)
    BY <2>1 DEF IssuedAt
  <2> QED
    BY <1>0, <1>3, <2>1, <2>2 DEF TimesInv
<1>4. CASE tokens' = tokens
  <2>1. \A t \in Calls : Issued(t)' = Issued(t) /\ IssuedAt(t)' = IssuedAt(t)
    BY <1>4 DEF Issued, IssuedAt
  <2>2. ASSUME NEW c \in Calls, Begin(c) PROVE TimesInv'
    <3>1. PICK call \in Arguments, s \in States :
            /\ Start(c, call, s) /\ clock' = clock
            /\ call.now = clock /\ call.expires = Never
            /\ call.token # None => call.token \in Presentable
      BY <2>2, BeginStarts DEF States
    <3>2. /\ args'[c] = call
          /\ \A d \in Calls : d # c => pc'[d] = pc[d] /\ args'[d] = args[d]
      BY <3>1 DEF Start, SessionsInv, TypeOK
    <3>3. call.token # None => call.token \in Calls /\ Issued(call.token)
      BY <3>1 DEF Presentable, Issued
    <3> QED
      BY <1>0, <1>4, <2>1, <3>1, <3>2, <3>3 DEF TimesInv
  <2>3. ASSUME NEW c \in Calls, InsertToken(c) PROVE TimesInv'
    <3>1. args[c] \in Arguments /\ pc[c] # "idle"
      BY <2>3, BusyArguments DEF InsertToken, SessionsInv
    <3>2. /\ args'[c] = [args[c] EXCEPT !.expires = clock + RefreshTTL] /\ clock' = clock
          /\ \A d \in Calls : d # c => pc'[d] = pc[d] /\ args'[d] = args[d]
      BY <2>3 DEF InsertToken, Goto, SessionsInv, TypeOK
    <3>3. /\ args'[c].expires = clock + RefreshTTL
          /\ args'[c].token = args[c].token /\ args'[c].now = args[c].now
      BY <3>1, <3>2 DEF Arguments
    <3>4. ASSUME NEW d \in Calls, pc'[d] # "idle"
          PROVE  /\ args'[d].expires - RefreshTTL <= clock
                 /\ args'[d].token # None => IssuedAt(args'[d].token) <= args'[d].now
                 /\ args'[d].token # None => args'[d].token \in Calls
      <4>1. CASE d = c
        BY <1>0, <3>1, <3>3, <4>1 DEF TimesInv
      <4>2. CASE d # c
        BY <1>0, <3>2, <3>4, <4>2 DEF TimesInv
      <4> QED
        BY <4>1, <4>2
    <3> QED
      BY <1>4, <2>1, <3>2, <3>4 DEF TimesInv
  <2>4. CASE /\ args' = args /\ clock' \in {clock, clock + 1}
             /\ \A d \in Calls : pc'[d] # "idle" => pc[d] # "idle"
    BY <1>0, <1>4, <2>1, <2>4 DEF TimesInv
  <2>5. ASSUME NEW c \in Calls, Step(c) \/ Abort(c) \/ LoseReply(c), ~InsertToken(c)
        PROVE  /\ args' = args /\ clock' = clock
               /\ \A d \in Calls : pc'[d] # "idle" => pc[d] # "idle"
    BY <2>5 DEF Step, Abort, LoseReply, IssueToken, LoadToken, RejectExpired,
       RotateToken, CommitRefresh, RevokeToken, Reply, Goto, SessionsInv, TypeOK, Rotating
  <2>6. CASE Tick \/ UNCHANGED vars
    BY <2>4, <2>6 DEF Tick, vars
  <2> QED
    BY <2>2, <2>3, <2>4, <2>5, <2>6 DEF Next
<1> QED
  BY <1>1, <1>2, <1>3, <1>4, TokenSteps

(* An access token outlives the end of its session by its own lifetime at  *)
(* most.                                                                   *)
THEOREM AccessIsBounded == Spec => []AccessEnds
<1>1. Init => TimesInv
  BY DEF Init, TimesInv, Issued
<1>2. SessionsInv /\ TimesInv => AccessEnds
  <2> SUFFICES ASSUME SessionsInv, TimesInv, NEW t \in Calls, Authorized(t), ~Live(t)
               PROVE  clock < tokens[t].revoked + AccessTTL
    BY DEF AccessEnds
  <2>1. /\ Issued(t) /\ tokens[t] \in Token /\ clock \in Nat
        /\ clock < IssuedAt(t) + AccessTTL /\ IssuedAt(t) <= tokens[t].revoked
    BY IssuedTokens DEF Authorized, AccessExpires, IssuedAt, Issued, Live, TimesInv,
                        SessionsInv, TypeOK, Time
  <2> QED
    BY <2>1, SessionsAssumption DEF Token, Time, Never, IssuedAt
<1> QED
  BY <1>1, <1>2, SpecInv, TimesNext, PTL DEF Spec

-----------------------------------------------------------------------------
(* Logins.  A Rooting gives every token the login it descends from; Root   *)
(* is one, if there is any.  That each login has at most one live token is *)
(* kept by every step for every Rooting, and so needs no induction over    *)
(* the chain of rotations.                                                 *)
Rooting(f) ==
  f = [t \in Calls |-> IF IsRefresh(t) /\ args[t].token # None
                       THEN f[args[t].token] ELSE t]

(* Tokens descend from a login whose own token has been issued, and of     *)
(* those of one login at most one is live.                                 *)
OneLive(f) ==
  /\ \A t \in Calls : Issued(t) => f[t] \in Calls /\ Issued(f[t])
  /\ \A t, u \in Calls : Live(t) /\ Live(u) /\ f[t] = f[u] => t = u

RootsInv ==
  /\ \E f : Rooting(f)
  /\ \A f : Rooting(f) => OneLive(f)

(* What a Rooting says of one token.                                       *)
LEMMA RootingAt ==
  ASSUME NEW f, Rooting(f), NEW t \in Calls
  PROVE  f[t] = IF IsRefresh(t) /\ args[t].token # None
                THEN f[args[t].token] ELSE t
<1> DEFINE g == [x \in Calls |-> IF IsRefresh(x) /\ args[x].token # None
                                 THEN f[args[x].token] ELSE x]
<1>1. f = g
  BY DEF Rooting
<1>2. g[t] = IF IsRefresh(t) /\ args[t].token # None THEN f[args[t].token] ELSE t
  OBVIOUS
<1> QED
  BY <1>1, <1>2

(* A call that begins has no descendants.                                  *)
LEMMA BeginRooting ==
  ASSUME SessionsInv, NEW c \in Calls, Begin(c)
  PROVE  /\ \A f : Rooting(f)' => \E g : /\ Rooting(g)
                                         /\ \A t \in Calls \ {c} : g[t] = f[t]
         /\ (\E f : Rooting(f)) => (\E f : Rooting(f)')
         /\ ~Issued(c) /\ tokens' = tokens
<1>1. PICK call \in Arguments, s \in States :
        /\ Start(c, call, s) /\ tokens' = tokens /\ s # "idle"
        /\ call.token # None => call.token \in Presentable
  BY BeginStarts DEF States
<1>2. /\ pc[c] = "idle" /\ ~Issued(c) /\ args'[c] = call /\ pc'[c] # "idle"
      /\ \A d \in Calls : d # c => pc'[d] = pc[d] /\ args'[d] = args[d]
  BY <1>1 DEF Start, SessionsInv, TypeOK, TokenInv
<1>3. ~IsRefresh(c) /\ \A t \in Calls : t # c => IsRefresh(t)' = IsRefresh(t)
  BY <1>2 DEF IsRefresh
<1>4. \A t \in Calls : IsRefresh(t) /\ args[t].token # None =>
        t # c /\ args[t].token \in Calls \ {c}
  BY <1>2, <1>3, BusyArguments DEF SessionsInv, CallInv, IsRefresh, Arguments
<1>5. call.token # None => call.token \in Calls \ {c}
  BY <1>1, <1>2 DEF Presentable
<1>6. ASSUME NEW f, Rooting(f)'
      PROVE  \E g : Rooting(g) /\ \A t \in Calls \ {c} : g[t] = f[t]
  <2> DEFINE g == [t \in Calls |-> IF t = c THEN c ELSE f[t]]
             h == [t \in Calls |-> IF IsRefresh(t)' /\ args'[t].token # None
                                   THEN f[args'[t].token] ELSE t]
             k == [t \in Calls |-> IF IsRefresh(t) /\ args[t].token # None
                                   THEN g[args[t].token] ELSE t]
  <2>1. f = h
    BY <1>6 DEF Rooting
  <2>2. ASSUME NEW t \in Calls PROVE k[t] = g[t]
    <3>1. CASE t = c
      BY <3>1, <1>3
    <3>2. CASE t # c
      <4>1. g[t] = h[t]
        BY <2>1, <3>2
      <4>2. h[t] = IF IsRefresh(t) /\ args[t].token # None THEN f[args[t].token] ELSE t
        BY <3>2, <1>2, <1>3
      <4> QED
        BY <4>1, <4>2, <1>4
    <3> QED
      BY <3>1, <3>2
  <2>3. g = k
    BY <2>2
  <2>4. Rooting(g)
    BY <2>3 DEF Rooting
  <2>5. \A t \in Calls \ {c} : g[t] = f[t]
    OBVIOUS
  <2> QED
    BY <2>4, <2>5
<1>7. ASSUME NEW f, Rooting(f) PROVE \E g : Rooting(g)'
  <2> DEFINE g == [t \in Calls |->
                     IF t = c THEN IF IsRefresh(c)' /\ call.token # None
                                   THEN f[call.token] ELSE c
                     ELSE f[t]]
             k == [t \in Calls |-> IF IsRefresh(t)' /\ args'[t].token # None
                                   THEN g[args'[t].token] ELSE t]
  <2>1. ASSUME NEW t \in Calls PROVE k[t] = g[t]
    <3>1. CASE t = c
      BY <3>1, <1>2, <1>5
    <3>2. CASE t # c
      <4>1. g[t] = IF IsRefresh(t) /\ args[t].token # None THEN f[args[t].token] ELSE t
        BY <3>2, <1>7, RootingAt
      <4> QED
        BY <4>1, <3>2, <1>2, <1>3, <1>4
    <3> QED
      BY <3>1, <3>2
  <2>2. g = k
    BY <2>1
  <2> QED
    BY <2>2 DEF Rooting
<1> QED
  BY <1>1, <1>2, <1>6, <1>7

(* Every step keeps one live token per login.                              *)
LEMMA RootsNext == SessionsInv /\ RootsInv /\ [Next]_vars => RootsInv'
<1> SUFFICES ASSUME SessionsInv, RootsInv, [Next]_vars PROVE RootsInv'
  OBVIOUS
<1>1. ASSUME NEW c \in Calls, Begin(c) PROVE RootsInv'
  <2>1. \E f : Rooting(f)'
    BY <1>1, BeginRooting DEF RootsInv
  <2>2. ASSUME NEW f, Rooting(f)' PROVE OneLive(f)'
    <3>1. PICK g : Rooting(g) /\ \A t \in Calls \ {c} : g[t] = f[t]
      BY <1>1, <2>2, BeginRooting
    <3>2. OneLive(g) /\ ~Issued(c) /\ tokens' = tokens
      BY <3>1, <1>1, BeginRooting DEF RootsInv
    <3> QED
      BY <3>1, <3>2 DEF OneLive, Issued, Live
  <2> QED
    BY <2>1, <2>2 DEF RootsInv
(* Of the other steps none changes what descends from what.                *)
<1>2. ASSUME \A c \in Calls : ~Begin(c) PROVE \A f : Rooting(f)' <=> Rooting(f)
  <2>1. \A t \in Calls : /\ IsRefresh(t)' = IsRefresh(t)
                         /\ IsRefresh(t) => args'[t].token = args[t].token
    <3>1. ASSUME NEW c \in Calls, InsertToken(c)
          PROVE  \A t \in Calls : /\ IsRefresh(t)' = IsRefresh(t)
                                  /\ IsRefresh(t) => args'[t].token = args[t].token
      <4>1. args[c] \in Arguments /\ pc[c] # "idle" /\ pc'[c] # "idle"
        BY <3>1, BusyArguments DEF InsertToken, Goto, SessionsInv, TypeOK
      <4>2. /\ args'[c] = [args[c] EXCEPT !.expires = clock + RefreshTTL]
            /\ \A d \in Calls : d # c => pc'[d] = pc[d] /\ args'[d] = args[d]
        BY <3>1 DEF InsertToken, Goto, SessionsInv, TypeOK
      <4>3. args'[c].op = args[c].op /\ args'[c].token = args[c].token
        BY <4>1, <4>2 DEF Arguments
      <4> QED
        BY <4>1, <4>2, <4>3 DEF IsRefresh
    <3>2. ASSUME NEW c \in Calls, Step(c) \/ Abort(c) \/ LoseReply(c), ~InsertToken(c)
          PROVE  args' = args /\ \A d \in Calls : (pc'[d] # "idle") = (pc[d] # "idle")
      BY <3>2 DEF Step, Abort, LoseReply, IssueToken, LoadToken, RejectExpired,
         RotateToken, CommitRefresh, RevokeToken, Reply, Goto, SessionsInv, TypeOK, Rotating
    <3>3. CASE Tick \/ UNCHANGED vars
      BY <3>3 DEF Tick, vars, IsRefresh
    <3> QED
      BY <1>2, <3>1, <3>2, <3>3 DEF Next, IsRefresh
  <2> TAKE f
  <2> DEFINE old == [t \in Calls |-> IF IsRefresh(t) /\ args[t].token # None
                                     THEN f[args[t].token] ELSE t]
             new == [t \in Calls |-> IF IsRefresh(t)' /\ args'[t].token # None
                                     THEN f[args'[t].token] ELSE t]
  <2>2. old = new
    BY <2>1
  <2> QED
    BY <2>2 DEF Rooting
<1>3. CASE \A c \in Calls : ~Begin(c)
  <2>1. \E f : Rooting(f)'
    BY <1>2, <1>3 DEF RootsInv
  <2>2. ASSUME NEW f, Rooting(f)' PROVE OneLive(f)'
    <3>1. Rooting(f) /\ OneLive(f)
      BY <1>2, <1>3, <2>2 DEF RootsInv
    <3>2. CASE tokens' = tokens
      BY <3>1, <3>2 DEF OneLive, Issued, Live
    (* The token of a login is the first of its descendants.               *)
    <3>3. ASSUME NEW c \in Calls, IssueToken(c) PROVE OneLive(f)'
      <4>1. ~Issued(c) /\ Issued(c)' /\ \A d \in Calls : d # c => tokens'[d] = tokens[d]
        BY <3>3, IssueEffect
      <4>2. f[c] = c
        BY <3>1, <3>3, IssueEffect, RootingAt DEF IsRefresh
      <4>3. \A t \in Calls : Issued(t) => f[t] # c
        BY <3>1, <4>1 DEF OneLive
      <4> QED
        BY <3>1, <4>1, <4>2, <4>3 DEF OneLive, Issued, Live
    (* The new token takes the place of the live one.                      *)
    <3>4. ASSUME NEW c \in Calls, CommitRefresh(c) PROVE OneLive(f)'
      <4> DEFINE old == args[c].token
      <4>1. /\ ~Issued(c) /\ Issued(c)' /\ old \in Calls /\ old # None /\ Live(old)
            /\ args[c].op = "refresh" /\ pc[c] = "commit" /\ args' = args
            /\ Issued(old)' /\ ~Live(old)'
            /\ \A d \in Calls \ {c, old} : tokens'[d] = tokens[d]
        BY <3>4, CommitEffect
      <4>2. f[c] = f[old]
        BY <3>1, <4>1, RootingAt DEF IsRefresh
      <4>3. \A t \in Calls : Issued(t)' => f[t] \in Calls /\ Issued(f[t])
        BY <3>1, <4>1, <4>2 DEF OneLive, Issued, Live
      <4>4. \A t \in Calls : Live(t)' => t = c \/ (Live(t) /\ t # old)
        BY <4>1 DEF Issued, Live
      <4>5. \A t \in Calls : Live(t) /\ f[t] = f[c] => t = old
        BY <3>1, <4>1, <4>2 DEF OneLive
      <4>6. \A t \in Calls : Issued(t) => Issued(t)'
        BY <4>1 DEF Issued
      <4> HIDE DEF old
      <4> QED
        BY <3>1, <4>3, <4>4, <4>5, <4>6 DEF OneLive
    <3>5. ASSUME NEW c \in Calls, RevokeToken(c), args[c].token # None,
                 Live(args[c].token)
          PROVE  OneLive(f)'
      <4>1. \A d \in Calls : Issued(d)' = Issued(d) /\ (Live(d)' => Live(d))
        <5> DEFINE t == args[c].token
        <5>1. /\ args' = args /\ t \in Calls /\ Issued(t) /\ Issued(t)' /\ ~Live(t)'
              /\ \A d \in Calls : d # t => tokens'[d] = tokens[d]
          BY <3>5, RevokeEffect DEF Live
        <5> QED
          BY <5>1 DEF Issued, Live
      <4> QED
        BY <3>1, <4>1 DEF OneLive
    <3> QED
      BY <3>2, <3>3, <3>4, <3>5, TokenSteps
  <2> QED
    BY <2>1, <2>2 DEF RootsInv
<1> QED
  BY <1>1, <1>3

(* However refreshes and logouts overlap, a login has one usable token at  *)
(* most.                                                                   *)
THEOREM OneTokenPerLogin == Spec => []OneLivePerLogin
<1>1. Init => RootsInv
  <2> SUFFICES ASSUME Init PROVE RootsInv
    OBVIOUS
  <2>1. \A t \in Calls : ~IsRefresh(t) /\ ~Issued(t) /\ ~Live(t)
    BY DEF Init, IsRefresh, Issued, Live
  <2> DEFINE g == [t \in Calls |-> t]
             k == [t \in Calls |-> IF IsRefresh(t) /\ args[t].token # None
                                   THEN g[args[t].token] ELSE t]
  <2>2. g = k
    BY <2>1
  <2>3. Rooting(g)
    BY <2>2 DEF Rooting
  <2>4. \E f : Rooting(f)
    BY <2>3
  <2> QED
    BY <2>1, <2>4 DEF RootsInv, OneLive
<1>2. RootsInv => OneLivePerLogin
  <2> SUFFICES ASSUME RootsInv PROVE OneLivePerLogin
    OBVIOUS
  <2>1. Rooting(Root)
    <3>1. PICK f : Rooting(f)
      BY DEF RootsInv
    <3> QED
      BY <3>1 DEF Rooting, Root
  <2> QED
    BY <2>1 DEF RootsInv, OneLive, OneLivePerLogin
<1> QED
  BY <1>1, <1>2, SpecInv, RootsNext, PTL DEF Spec
=============================================================================
