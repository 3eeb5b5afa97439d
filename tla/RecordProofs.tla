----------------------------- MODULE RecordProofs -----------------------------
(***************************************************************************)
(* What requests do to the records of people and assets and to a new       *)
(* organisation: sign-in tokens and links, receipts, custom fields,        *)
(* maintenance series, the manager chain and registration, for any number  *)
(* of requests that interleave.                                            *)
(***************************************************************************)
EXTENDS Sessions, Receipts, CustomFields, Maintenance, ReportingLines,
        Registration, FiniteSetTheorems, TLAPS

-------------------------------------------------------------------------------
(***************************************************************************)
(* Sessions.  A rotation marks the old token in one call and saves the new *)
(* one in another.  In between nobody holds a live token of the family     *)
(* (PendingIsAlone): that is what keeps a second one from being issued.    *)
(***************************************************************************)

\* The family of a token that was issued is named by a token that was issued.
FamiliesIssued == \A t \in Issued : refresh[t].family \in Issued

Rotating(c, f) == task[c].op = "issue" /\ task[c].family = f

\* A request holds tokens and families that were issued.
TasksIssued ==
  \A c \in Clients : /\ task[c].op = "rotate" => task[c].token \in Issued
                     /\ \A f \in RefreshTokens : Rotating(c, f) => f \in Issued

\* While a rotation has marked its token and not saved the next one, its family
\* has no live token and no other such rotation.
PendingIsAlone ==
  \A c \in Clients, f \in RefreshTokens \ forked : Rotating(c, f) =>
    /\ \A t \in RefreshTokens : IsLive(t) => refresh[t].family # f
    /\ \A d \in Clients : Rotating(d, f) => d = c

FamilyInv == FamiliesIssued /\ TasksIssued /\ PendingIsAlone /\ OneLivePerFamily

-----------------------------------------------------------------------------
\* Every variable has its type at the start.
LEMMA SessionsInitType == SessionsInit => SessionsTypeOK
<1> SUFFICES ASSUME SessionsInit PROVE SessionsTypeOK
  OBVIOUS
<1> USE SessionsAssumption
<1>1. account \in Account  BY DEF SessionsInit, Account
<1>2. task \in [Clients -> Task]
  <2>1. NoTask \in Task  BY DEF NoTask, Task
  <2> QED  BY <2>1 DEF SessionsInit
<1>3. refresh \in [RefreshTokens -> RefreshToken \cup {Nobody}]  BY DEF SessionsInit
<1> QED  BY <1>1, <1>2, <1>3 DEF SessionsInit, SessionsTypeOK

\* What a sign-in or a reset reads of the account is a copy.
LEMMA CopyType ==
  ASSUME SessionsTypeOK
  PROVE  CopyOfAccount \in Copy
  BY DEF SessionsTypeOK, Account, CopyOfAccount, Copy

\* A request's copy, link, version, family or token has its type.
LEMMA TaskType ==
  ASSUME SessionsTypeOK, NEW c \in Clients
  PROVE  /\ task[c].op = "login" => task[c].copy \in Copy
         /\ task[c].op = "reset" => task[c].copy \in Copy /\ task[c].link \in Links
         /\ task[c].op = "change" => task[c].version \in 0..MaxVersion
         /\ task[c].op = "rotate" => task[c].token \in RefreshTokens
         /\ task[c].op = "reuse" => task[c].family \in RefreshTokens
         /\ task[c].op = "issue" => /\ task[c].family \in RefreshTokens \cup {Nobody}
                                    /\ task[c].version \in 0..MaxVersion
<1>1. task[c] \in Task  BY DEF SessionsTypeOK
<1> QED  BY <1>1 DEF Task

\* Revoking tokens changes nothing else about them.
LEMMA RevokedAsked ==
  ASSUME SessionsTypeOK, NEW S \in SUBSET RefreshTokens
  PROVE  /\ WithRevoked(S) \in [RefreshTokens -> RefreshToken \cup {Nobody}]
         /\ \A t \in RefreshTokens : /\ t \notin Issued => WithRevoked(S)[t] = Nobody
                                     /\ t \in Issued => /\ WithRevoked(S)[t] \in RefreshToken
                                                        /\ WithRevoked(S)[t].family = refresh[t].family
                                                        /\ WithRevoked(S)[t].rotated = refresh[t].rotated
                                                        /\ refresh[t].revoked => WithRevoked(S)[t].revoked
<1>1. \A t \in Issued : refresh[t] \in RefreshToken  BY DEF Issued, SessionsTypeOK
<1>2. \A t \in RefreshTokens : t \notin Issued => refresh[t] = Nobody  BY DEF Issued
<1> QED  BY <1>1, <1>2, SessionsAssumption DEF WithRevoked, RefreshToken

\* A field that is saved has the type of the field.
LEMMA SavedType ==
  ASSUME SessionsTypeOK, NEW copy \in Copy
  PROVE  /\ \A v \in 0..(MaxFailures - 1) : Saved(copy, "failed", v) \in 0..(MaxFailures - 1)
         /\ \A v \in {"none", "lapsed", "held"} : Saved(copy, "lock", v) \in {"none", "held", "lapsed"}
  BY DEF SessionsTypeOK, Account, Copy, Saved

\* A request that goes on to a task of the type keeps the type of all.
LEMMA BecomeType ==
  ASSUME SessionsTypeOK, NEW c \in Clients, NEW v \in Task, Become(c, v)
  PROVE  task' \in [Clients -> Task]
  BY DEF SessionsTypeOK, Become

\* A step keeps every type.  (A mark is put on a token that was issued.)
LEMMA SessionsNextType == SessionsTypeOK /\ TasksIssued /\ [SessionsNext]_sessionVars => SessionsTypeOK'
<1> SUFFICES ASSUME SessionsTypeOK, TasksIssued, [SessionsNext]_sessionVars PROVE SessionsTypeOK'
  OBVIOUS
<1> USE SessionsAssumption
<1>0. /\ NoTask \in Task /\ [op |-> "forgot"] \in Task /\ [op |-> "sign"] \in Task
      /\ [op |-> "signOut"] \in Task
  BY DEF NoTask, Task
<1>1. ASSUME NEW c \in Clients, FindForLogin(c) PROVE SessionsTypeOK'
  <2>1. [op |-> "login", copy |-> CopyOfAccount] \in Task  BY CopyType DEF Task
  <2> QED  BY <1>1, <2>1, BecomeType DEF FindForLogin, SessionsTypeOK
<1>2. ASSUME NEW c \in Clients, RejectPassword(c) PROVE SessionsTypeOK'
  <2> DEFINE copy == task[c].copy
             locks == copy.failed + 1 >= MaxFailures
  <2>1. copy \in Copy  BY <1>2, TaskType DEF RejectPassword
  <2>2. (IF locks THEN 0 ELSE copy.failed + 1) \in 0..(MaxFailures - 1)  BY <2>1 DEF Copy
  <2>3. Saved(copy, "failed", IF locks THEN 0 ELSE copy.failed + 1) \in 0..(MaxFailures - 1)
    BY <2>1, <2>2, SavedType
  <2>4. account' = [account EXCEPT !.failed = Saved(copy, "failed", IF locks THEN 0 ELSE copy.failed + 1),
                                   !.lock = IF locks THEN "held" ELSE account.lock]
    BY <1>2 DEF RejectPassword
  <2>5. account' \in Account  BY <2>3, <2>4 DEF SessionsTypeOK, Account
  <2>6. task' \in [Clients -> Task]  BY <1>0, <1>2, BecomeType DEF RejectPassword
  <2> QED  BY <1>2, <2>5, <2>6 DEF RejectPassword, SessionsTypeOK
<1>3. ASSUME NEW c \in Clients, AcceptPassword(c) PROVE SessionsTypeOK'
  <2> DEFINE copy == task[c].copy
  <2>1. copy \in Copy  BY <1>3, TaskType DEF AcceptPassword
  <2>2. 0 \in 0..(MaxFailures - 1)  OBVIOUS
  <2>3. /\ Saved(copy, "failed", 0) \in 0..(MaxFailures - 1)
        /\ Saved(copy, "lock", "none") \in {"none", "held", "lapsed"}
    BY <2>1, <2>2, SavedType
  <2>4. account' = [account EXCEPT !.failed = Saved(copy, "failed", 0),
                                   !.lock = Saved(copy, "lock", "none")]
    BY <1>3 DEF AcceptPassword
  <2>5. account' \in Account  BY <2>3, <2>4 DEF SessionsTypeOK, Account
  <2>6. [op |-> "issue", family |-> Nobody, version |-> copy.version] \in Task
    BY <2>1 DEF Task, Copy
  <2>7. task' \in [Clients -> Task]  BY <1>3, <2>6, BecomeType DEF AcceptPassword
  <2> QED  BY <1>3, <2>5, <2>7 DEF AcceptPassword, SessionsTypeOK
<1>4. ASSUME NEW c \in Clients, NEW t \in RefreshTokens, IssueRefreshToken(c, t)
      PROVE  SessionsTypeOK'
  <2> DEFINE family == IF task[c].family = Nobody THEN t ELSE task[c].family
  <2>1. /\ family \in RefreshTokens /\ task[c].version \in 0..MaxVersion
    BY <1>4, TaskType DEF IssueRefreshToken
  <2>2. [family |-> family, rotated |-> FALSE, revoked |-> FALSE] \in RefreshToken
    BY <2>1 DEF RefreshToken
  <2>3. refresh' = [refresh EXCEPT ![t] = [family |-> family, rotated |-> FALSE, revoked |-> FALSE]]
    BY <1>4 DEF IssueRefreshToken
  <2>4. refresh' \in [RefreshTokens -> RefreshToken \cup {Nobody}]
    BY <2>2, <2>3 DEF SessionsTypeOK
  <2>5. task' \in [Clients -> Task]  BY <1>0, <1>4, BecomeType DEF IssueRefreshToken
  <2>6. signed' \subseteq 0..MaxVersion
    BY <1>4, <2>1 DEF IssueRefreshToken, SessionsTypeOK
  <2> QED  BY <1>4, <2>4, <2>5, <2>6 DEF IssueRefreshToken, SessionsTypeOK
<1>5. ASSUME NEW c \in Clients, SignUserToken(c) PROVE SessionsTypeOK'
  <2>1. account.version \in 0..MaxVersion  BY DEF SessionsTypeOK, Account
  <2> QED  BY <1>0, <1>5, <2>1, BecomeType DEF SignUserToken, SessionsTypeOK
<1>6. ASSUME NEW c \in Clients, NEW t \in RefreshTokens, PresentRefreshToken(c, t)
      PROVE  SessionsTypeOK'
  <2>1. refresh[t].family \in RefreshTokens
    BY <1>6 DEF PresentRefreshToken, Issued, SessionsTypeOK, RefreshToken
  <2>2. /\ [op |-> "reuse", family |-> refresh[t].family] \in Task
        /\ [op |-> "rotate", token |-> t] \in Task
    BY <2>1 DEF Task
  <2> QED  BY <1>6, <2>2, BecomeType DEF PresentRefreshToken, SessionsTypeOK
<1>7. ASSUME NEW c \in Clients, RevokeFamily(c) PROVE SessionsTypeOK'
  <2>1. {t \in Issued : refresh[t].family = task[c].family} \subseteq RefreshTokens  BY DEF Issued
  <2> QED  BY <1>0, <1>7, <2>1, RevokedAsked, BecomeType DEF RevokeFamily, SessionsTypeOK
<1>8. ASSUME NEW c \in Clients, MarkRotated(c) PROVE SessionsTypeOK'
  <2> DEFINE t == task[c].token
  <2>1. t \in Issued  BY <1>8 DEF MarkRotated, TasksIssued
  <2>2. t \in RefreshTokens /\ refresh[t] \in RefreshToken  BY <2>1 DEF Issued, SessionsTypeOK
  <2>3. [refresh[t] EXCEPT !.rotated = TRUE] \in RefreshToken /\ refresh[t].family \in RefreshTokens
    BY <2>2 DEF RefreshToken
  <2>4. refresh' = [refresh EXCEPT ![t] = [@ EXCEPT !.rotated = TRUE]]  BY <1>8 DEF MarkRotated
  <2>5. refresh' \in [RefreshTokens -> RefreshToken \cup {Nobody}]
    BY <2>2, <2>3, <2>4 DEF SessionsTypeOK
  <2>6. [op |-> "issue", family |-> refresh[t].family, version |-> 0] \in Task  BY <2>3 DEF Task
  <2>7. task' \in [Clients -> Task]  BY <1>8, <2>6, BecomeType DEF MarkRotated
  <2>8. forked' \subseteq RefreshTokens  BY <1>8, <2>3 DEF MarkRotated, SessionsTypeOK
  <2> QED  BY <1>8, <2>5, <2>7, <2>8 DEF MarkRotated, SessionsTypeOK
<1>9. ASSUME NEW t \in RefreshTokens, Logout(t) PROVE SessionsTypeOK'
  BY <1>9, RevokedAsked DEF Logout, SessionsTypeOK
<1>10. ASSUME NEW c \in Clients, FindForChange(c) PROVE SessionsTypeOK'
  <2>1. [op |-> "change", version |-> account.version] \in Task
    BY DEF Task, SessionsTypeOK, Account
  <2> QED  BY <1>10, <2>1, BecomeType DEF FindForChange, SessionsTypeOK
<1>11. ASSUME NEW c \in Clients, ChangePassword(c) PROVE SessionsTypeOK'
  <2>1. task[c].version + 1 \in 0..MaxVersion  BY <1>11, TaskType DEF ChangePassword
  <2>2. account' \in Account  BY <1>11, <2>1 DEF ChangePassword, SessionsTypeOK, Account
  <2> QED  BY <1>0, <1>11, <2>2, BecomeType DEF ChangePassword, SessionsTypeOK
<1>12. ASSUME NEW c \in Clients, FindForReset(c) PROVE SessionsTypeOK'
  <2>1. account.link \in Links  BY <1>12 DEF FindForReset, SessionsTypeOK, Account
  <2>2. [op |-> "reset", copy |-> CopyOfAccount, link |-> account.link] \in Task
    BY <2>1, CopyType DEF Task
  <2> QED  BY <1>12, <2>2, BecomeType DEF FindForReset, SessionsTypeOK
<1>13. ASSUME NEW c \in Clients, ResetPassword(c) PROVE SessionsTypeOK'
  <2> DEFINE copy == task[c].copy
  <2>1. copy \in Copy /\ task[c].link \in Links  BY <1>13, TaskType DEF ResetPassword
  <2>2. 0 \in 0..(MaxFailures - 1)  OBVIOUS
  <2>3. /\ Saved(copy, "failed", 0) \in 0..(MaxFailures - 1)
        /\ Saved(copy, "lock", "none") \in {"none", "held", "lapsed"}
    BY <2>1, <2>2, SavedType
  <2>4. copy.version + 1 \in 0..MaxVersion  BY <1>13, <2>1 DEF ResetPassword, Copy
  <2>5. account' \in Account  BY <1>13, <2>3, <2>4 DEF ResetPassword, Account
  <2>6. task' \in [Clients -> Task]  BY <1>0, <1>13, BecomeType DEF ResetPassword
  <2> QED  BY <1>13, <2>1, <2>5, <2>6 DEF ResetPassword, SessionsTypeOK
<1>14. ASSUME NEW c \in Clients, RevokeAllSessions(c) PROVE SessionsTypeOK'
  <2>1. Issued \subseteq RefreshTokens  BY DEF Issued
  <2> QED  BY <1>0, <1>14, <2>1, RevokedAsked, BecomeType DEF RevokeAllSessions, SessionsTypeOK
<1>15. ASSUME NEW c \in Clients, FindForForgotten(c) PROVE SessionsTypeOK'
  BY <1>0, <1>15, BecomeType DEF FindForForgotten, SessionsTypeOK
<1>16. ASSUME NEW c \in Clients, NEW l \in Links, SendPasswordReset(c, l) PROVE SessionsTypeOK'
  <2>1. account' \in Account  BY <1>16 DEF SendPasswordReset, SessionsTypeOK, Account
  <2> QED  BY <1>0, <1>16, <2>1, BecomeType DEF SendPasswordReset, SessionsTypeOK
<1>17. ASSUME LockLapses PROVE SessionsTypeOK'
  BY <1>17 DEF LockLapses, SessionsTypeOK, Account
<1>18. ASSUME NEW c \in Clients, RequestFails(c) PROVE SessionsTypeOK'
  BY <1>0, <1>18, BecomeType DEF RequestFails, SessionsTypeOK
<1>19. CASE UNCHANGED sessionVars  BY <1>19 DEF sessionVars, SessionsTypeOK
<1> QED  BY <1>1, <1>2, <1>3, <1>4, <1>5, <1>6, <1>7, <1>8, <1>9, <1>10, <1>11, <1>12, <1>13,
            <1>14, <1>15, <1>16, <1>17, <1>18, <1>19 DEF SessionsNext

-----------------------------------------------------------------------------
\* What a request does next concerns no family it did not concern before, unless
\* it starts one or presents a token that was issued.
Innocent(c) == \/ task'[c] = task[c]
               \/ task'[c].op \notin {"rotate", "issue"}
               \/ task'[c].op = "issue" /\ task'[c].family = Nobody
               \/ task'[c].op = "rotate" /\ task'[c].token \in Issued

\* A step that at most revokes tokens, and starts no issue in a known family,
\* keeps the families in order.
LEMMA RevokingKeeps ==
  ASSUME SessionsTypeOK, FamilyInv,
         \A c \in Clients : Innocent(c),
         forked' = forked,
         refresh' = refresh \/ \E S \in SUBSET RefreshTokens : refresh' = WithRevoked(S)
  PROVE  FamilyInv'
<1>1. \A t \in RefreshTokens : /\ t \in Issued <=> t \in Issued'
                               /\ t \in Issued => refresh'[t].family = refresh[t].family
                               /\ IsLive(t)' => IsLive(t)
  <2>1. CASE refresh' = refresh  BY <2>1 DEF Issued, IsLive
  <2>2. ASSUME NEW S \in SUBSET RefreshTokens, refresh' = WithRevoked(S)
        PROVE  \A t \in RefreshTokens : /\ t \in Issued <=> t \in Issued'
                                        /\ t \in Issued => refresh'[t].family = refresh[t].family
                                        /\ IsLive(t)' => IsLive(t)
    BY <2>2, RevokedAsked, NoTokenAssumption DEF Issued, IsLive
  <2> QED  BY <2>1, <2>2
<1>2. Issued' = Issued  BY <1>1 DEF Issued
<1>3. \A c \in Clients, f \in RefreshTokens : Rotating(c, f)' => Rotating(c, f)
  BY SessionsAssumption DEF Rotating, Innocent
<1>4. FamiliesIssued'  BY <1>1, <1>2 DEF FamilyInv, FamiliesIssued, Issued
<1>5. TasksIssued'
  <2> SUFFICES ASSUME NEW c \in Clients
               PROVE  /\ task'[c].op = "rotate" => task'[c].token \in Issued
                      /\ \A f \in RefreshTokens : Rotating(c, f)' => f \in Issued
    BY <1>2 DEF TasksIssued
  <2>1. task'[c].op = "rotate" => task'[c].token \in Issued
    BY DEF FamilyInv, TasksIssued, Innocent
  <2> QED  BY <1>3, <2>1 DEF FamilyInv, TasksIssued
<1>6. PendingIsAlone'
  BY <1>1, <1>3 DEF FamilyInv, PendingIsAlone, IsLive, Issued
<1>7. OneLivePerFamily'
  BY <1>1 DEF FamilyInv, OneLivePerFamily, IsLive, Issued
<1> QED  BY <1>4, <1>5, <1>6, <1>7 DEF FamilyInv

\* The token that is saved is the only live one of its family.
LEMMA IssueKeeps ==
  ASSUME SessionsTypeOK, FamilyInv, NEW c \in Clients, NEW t \in RefreshTokens,
         IssueRefreshToken(c, t)
  PROVE  FamilyInv'
<1> USE SessionsAssumption, NoTokenAssumption
<1> DEFINE family == IF task[c].family = Nobody THEN t ELSE task[c].family
<1>1. /\ task[c].op = "issue" /\ t \notin Issued /\ forked' = forked
      /\ family \in RefreshTokens
  BY TaskType DEF IssueRefreshToken
<1>2. task[c].family # Nobody => Rotating(c, family) /\ family \in Issued
  BY <1>1 DEF Rotating, FamilyInv, TasksIssued
<1>3. [family |-> family, rotated |-> FALSE, revoked |-> FALSE] \in RefreshToken
  BY <1>1 DEF RefreshToken
<1>4. refresh' = [refresh EXCEPT ![t] = [family |-> family, rotated |-> FALSE, revoked |-> FALSE]]
  BY DEF IssueRefreshToken
<1>5. /\ refresh'[t] = [family |-> family, rotated |-> FALSE, revoked |-> FALSE]
      /\ \A u \in RefreshTokens : u # t => refresh'[u] = refresh[u]
  BY <1>4 DEF SessionsTypeOK
<1>6. Issued' = Issued \cup {t}  BY <1>3, <1>5 DEF Issued
<1>7. \A u \in RefreshTokens : u # t => (IsLive(u)' <=> IsLive(u))  BY <1>5 DEF IsLive
<1>8. /\ task'[c].op \notin {"issue", "rotate"}
      /\ \A d \in Clients : d # c => task'[d] = task[d]
  BY DEF IssueRefreshToken, Become, NoTask, SessionsTypeOK
<1>9. \A d \in Clients, f \in RefreshTokens : Rotating(d, f)' => Rotating(d, f) /\ d # c
  BY <1>8 DEF Rotating
<1>10. \A u \in Issued : u # t /\ u \in RefreshTokens /\ refresh'[u] = refresh[u]
  BY <1>1, <1>5 DEF Issued
<1>11. FamiliesIssued'
  <2>1. refresh'[t].family \in Issued'  BY <1>2, <1>5, <1>6
  <2>2. \A u \in Issued : refresh'[u].family \in Issued'
    BY <1>6, <1>10 DEF FamilyInv, FamiliesIssued
  <2> QED  BY <1>6, <2>1, <2>2 DEF FamiliesIssued
<1>12. TasksIssued'
  <2> SUFFICES ASSUME NEW d \in Clients
               PROVE  /\ task'[d].op = "rotate" => task'[d].token \in Issued'
                      /\ \A f \in RefreshTokens : Rotating(d, f)' => f \in Issued'
    BY DEF TasksIssued
  <2>1. task'[d].op = "rotate" => d # c /\ task'[d] = task[d]  BY <1>8
  <2> QED  BY <1>6, <1>9, <2>1 DEF FamilyInv, TasksIssued
<1>13. PendingIsAlone'
  <2> SUFFICES ASSUME NEW d \in Clients, NEW f \in RefreshTokens \ forked, Rotating(d, f)'
               PROVE  /\ \A u \in RefreshTokens : IsLive(u)' => refresh'[u].family # f
                      /\ \A e \in Clients : Rotating(e, f)' => e = d
    BY <1>1 DEF PendingIsAlone
  <2>1. Rotating(d, f) /\ d # c /\ f \in Issued  BY <1>9 DEF FamilyInv, TasksIssued
  <2>2. f # family
    <3>1. ~Rotating(c, f)  BY <2>1 DEF FamilyInv, PendingIsAlone
    <3> QED  BY <1>1, <1>2, <2>1, <3>1
  <2>3. \A u \in RefreshTokens : IsLive(u)' => refresh'[u].family # f
    BY <1>5, <1>7, <2>1, <2>2 DEF FamilyInv, PendingIsAlone
  <2> QED  BY <1>9, <2>1, <2>3 DEF FamilyInv, PendingIsAlone
<1>14. \A u \in RefreshTokens : (u # t /\ IsLive(u) /\ refresh[u].family = family) => family \in forked
  <2> SUFFICES ASSUME NEW u \in RefreshTokens, IsLive(u), refresh[u].family = family
               PROVE  family \in forked
    OBVIOUS
  <2>1. u \in Issued  BY DEF IsLive, Issued
  <2>2. family \in Issued  BY <2>1 DEF FamilyInv, FamiliesIssued
  <2>3. Rotating(c, family)  BY <1>1, <1>2, <2>2
  <2> QED  BY <1>1, <2>3 DEF FamilyInv, PendingIsAlone
<1>15. OneLivePerFamily'
  <2> SUFFICES ASSUME NEW u \in RefreshTokens, NEW v \in RefreshTokens, IsLive(u)', IsLive(v)', u # v,
                      refresh'[u].family = refresh'[v].family
               PROVE  refresh'[u].family \in forked
    BY <1>1 DEF OneLivePerFamily
  <2>1. CASE u # t /\ v # t
    BY <1>5, <1>7, <2>1 DEF FamilyInv, OneLivePerFamily
  <2>2. CASE u = t  BY <1>5, <1>7, <1>14, <2>2
  <2>3. CASE v = t  BY <1>5, <1>7, <1>14, <2>3
  <2> QED  BY <2>1, <2>2, <2>3
<1> QED  BY <1>11, <1>12, <1>13, <1>15 DEF FamilyInv

\* A token that is marked was the only live one of its family, or was dead: then
\* its family is a forked one.
LEMMA MarkKeeps ==
  ASSUME SessionsTypeOK, FamilyInv, NEW c \in Clients, MarkRotated(c)
  PROVE  FamilyInv'
<1> USE SessionsAssumption, NoTokenAssumption
<1> DEFINE t == task[c].token
           family == refresh[t].family
<1>1. t \in Issued  BY DEF MarkRotated, FamilyInv, TasksIssued
<1>2. /\ t \in RefreshTokens /\ refresh[t] \in RefreshToken
      /\ family \in RefreshTokens /\ family \in Issued
  BY <1>1 DEF Issued, SessionsTypeOK, RefreshToken, FamilyInv, FamiliesIssued
<1>3. /\ refresh' = [refresh EXCEPT ![t] = [@ EXCEPT !.rotated = TRUE]]
      /\ forked' = IF IsLive(t) THEN forked ELSE forked \cup {family}
      /\ task' = [task EXCEPT ![c] = [op |-> "issue", family |-> family, version |-> 0]]
  BY DEF MarkRotated, Become
<1>4. \A u \in RefreshTokens : u # t => refresh'[u] = refresh[u]
  BY <1>3 DEF SessionsTypeOK
<1>5. /\ refresh'[t] \in RefreshToken /\ refresh'[t].family = family
      /\ refresh'[t].rotated
  BY <1>2, <1>3 DEF SessionsTypeOK, RefreshToken
<1>6. Issued' = Issued  BY <1>1, <1>2, <1>4, <1>5 DEF Issued
<1>7. \A u \in RefreshTokens : /\ IsLive(u)' => IsLive(u) /\ u # t
                               /\ u \in Issued => refresh'[u].family = refresh[u].family
  BY <1>2, <1>4, <1>5 DEF IsLive
<1>8. /\ task'[c] = [op |-> "issue", family |-> family, version |-> 0]
      /\ \A d \in Clients : d # c => task'[d] = task[d]
  BY <1>3 DEF SessionsTypeOK
<1>9. \A d \in Clients, f \in RefreshTokens :
        Rotating(d, f)' => IF d = c THEN f = family ELSE Rotating(d, f)
  BY <1>8 DEF Rotating
<1>10. FamiliesIssued'
  BY <1>6, <1>7 DEF FamilyInv, FamiliesIssued, Issued
<1>11. TasksIssued'
  <2> SUFFICES ASSUME NEW d \in Clients
               PROVE  /\ task'[d].op = "rotate" => task'[d].token \in Issued
                      /\ \A f \in RefreshTokens : Rotating(d, f)' => f \in Issued
    BY <1>6 DEF TasksIssued
  <2>1. task'[d].op = "rotate" => d # c /\ task'[d] = task[d]  BY <1>8
  <2> QED  BY <1>2, <1>9, <2>1 DEF FamilyInv, TasksIssued
<1>12. PendingIsAlone'
  <2> SUFFICES ASSUME NEW d \in Clients, NEW f \in RefreshTokens \ forked', Rotating(d, f)'
               PROVE  /\ \A u \in RefreshTokens : IsLive(u)' => refresh'[u].family # f
                      /\ \A e \in Clients : Rotating(e, f)' => e = d
    BY DEF PendingIsAlone
  <2>1. f \notin forked  BY <1>3
  <2>2. CASE f = family
    <3>1. IsLive(t)  BY <1>3, <2>2
    <3>2. \A e \in Clients : ~Rotating(e, family)
      BY <1>2, <2>1, <2>2, <3>1 DEF FamilyInv, PendingIsAlone
    <3>3. \A u \in RefreshTokens : IsLive(u) /\ u # t => refresh[u].family # family
      BY <1>2, <2>1, <2>2, <3>1 DEF FamilyInv, OneLivePerFamily
    <3>4. \A u \in RefreshTokens : IsLive(u)' => refresh'[u].family # family
      BY <1>4, <1>7, <3>3
    <3> QED  BY <1>9, <2>2, <3>2, <3>4
  <2>3. CASE f # family
    <3>1. Rotating(d, f) /\ d # c  BY <1>9, <2>3
    <3>2. \A u \in RefreshTokens : IsLive(u)' => refresh'[u].family # f
      BY <1>4, <1>7, <2>1, <3>1 DEF FamilyInv, PendingIsAlone
    <3>3. \A e \in Clients : Rotating(e, f)' => e = d
      BY <1>9, <2>1, <2>3, <3>1 DEF FamilyInv, PendingIsAlone
    <3> QED  BY <3>2, <3>3
  <2> QED  BY <2>2, <2>3
<1>13. OneLivePerFamily'
  BY <1>3, <1>4, <1>7 DEF FamilyInv, OneLivePerFamily
<1> QED  BY <1>10, <1>11, <1>12, <1>13 DEF FamilyInv

-----------------------------------------------------------------------------
\* A step keeps the families in order.
LEMMA SessionsNextFamily == SessionsTypeOK /\ FamilyInv /\ [SessionsNext]_sessionVars => FamilyInv'
<1> SUFFICES ASSUME SessionsTypeOK, FamilyInv, [SessionsNext]_sessionVars PROVE FamilyInv'
  OBVIOUS
<1>1. ASSUME NEW c \in Clients, NEW v, Become(c, v),
             \/ v.op \notin {"rotate", "issue"}
             \/ v.op = "issue" /\ v.family = Nobody
             \/ v.op = "rotate" /\ v.token \in Issued
      PROVE  \A d \in Clients : Innocent(d)
  BY <1>1 DEF Become, Innocent, SessionsTypeOK
<1>2. ASSUME NEW c \in Clients,
             \/ FindForLogin(c) \/ RejectPassword(c) \/ AcceptPassword(c) \/ SignUserToken(c)
             \/ FindForChange(c) \/ ChangePassword(c) \/ FindForReset(c) \/ ResetPassword(c)
             \/ FindForForgotten(c) \/ RequestFails(c)
             \/ \E l \in Links : SendPasswordReset(c, l)
      PROVE  FamilyInv'
  <2>1. UNCHANGED <<refresh, forked>>
    BY <1>2 DEF FindForLogin, RejectPassword, AcceptPassword, SignUserToken, FindForChange,
       ChangePassword, FindForReset, ResetPassword, FindForForgotten, RequestFails, SendPasswordReset
  <2>2. \A d \in Clients : Innocent(d)
    BY <1>1, <1>2 DEF FindForLogin, RejectPassword, AcceptPassword, SignUserToken, FindForChange,
       ChangePassword, FindForReset, ResetPassword, FindForForgotten, RequestFails, SendPasswordReset,
       NoTask
  <2> QED  BY <2>1, <2>2, RevokingKeeps
<1>3. ASSUME NEW c \in Clients, NEW t \in RefreshTokens, PresentRefreshToken(c, t)
      PROVE  FamilyInv'
  <2>1. \A d \in Clients : Innocent(d)  BY <1>1, <1>3 DEF PresentRefreshToken
  <2> QED  BY <1>3, <2>1, RevokingKeeps DEF PresentRefreshToken
<1>4. ASSUME NEW c \in Clients, RevokeFamily(c) \/ RevokeAllSessions(c) PROVE FamilyInv'
  <2>1. \A d \in Clients : Innocent(d)
    BY <1>1, <1>4 DEF RevokeFamily, RevokeAllSessions, NoTask
  <2>2. /\ Issued \in SUBSET RefreshTokens
        /\ {t \in Issued : refresh[t].family = task[c].family} \in SUBSET RefreshTokens
    BY DEF Issued
  <2> QED  BY <1>4, <2>1, <2>2, RevokingKeeps DEF RevokeFamily, RevokeAllSessions
<1>5. ASSUME NEW t \in RefreshTokens, Logout(t) PROVE FamilyInv'
  <2>1. {t} \in SUBSET RefreshTokens /\ \A d \in Clients : Innocent(d)
    BY <1>5 DEF Logout, Innocent
  <2> QED  BY <1>5, <2>1, RevokingKeeps DEF Logout
<1>6. ASSUME LockLapses \/ UNCHANGED sessionVars PROVE FamilyInv'
  BY <1>6, RevokingKeeps DEF LockLapses, sessionVars, Innocent
<1> QED  BY <1>2, <1>3, <1>4, <1>5, <1>6, IssueKeeps, MarkKeeps DEF SessionsNext

\* There are no families at the start.
LEMMA SessionsInitFamily == SessionsInit => FamilyInv
  BY DEF SessionsInit, FamilyInv, FamiliesIssued, TasksIssued, PendingIsAlone, OneLivePerFamily,
     Issued, IsLive, Rotating, NoTask

SessionsInv == SessionsTypeOK /\ FamilyInv

\* The invariant is inductive.
LEMMA SessionsInductive == SessionsInv /\ [SessionsNext]_sessionVars => SessionsInv'
  BY SessionsNextType, SessionsNextFamily DEF SessionsInv, FamilyInv

\* A step leaves no spent link in the account.
LEMMA SessionsNextSpent == SessionsTypeOK /\ SpentLinksStaySpent /\ [SessionsNext]_sessionVars => SpentLinksStaySpent'
<1> SUFFICES ASSUME SessionsTypeOK, SpentLinksStaySpent, [SessionsNext]_sessionVars
             PROVE  SpentLinksStaySpent'
  OBVIOUS
<1> USE DEF SpentLinksStaySpent
<1>1. ASSUME NEW c \in Clients,
             RejectPassword(c) \/ AcceptPassword(c) \/ ChangePassword(c) \/ LockLapses
      PROVE  SpentLinksStaySpent'
  <2>1. account'.link = account.link
    BY <1>1 DEF RejectPassword, AcceptPassword, ChangePassword, LockLapses, SessionsTypeOK, Account
  <2> QED  BY <1>1, <2>1 DEF RejectPassword, AcceptPassword, ChangePassword, LockLapses
<1>2. ASSUME NEW c \in Clients, ResetPassword(c) PROVE SpentLinksStaySpent'
  <2>1. account'.link = Nobody /\ spent' = spent \cup {task[c].link}  BY <1>2 DEF ResetPassword
  <2>2. task[c].link \in Links  BY <1>2, TaskType DEF ResetPassword
  <2> QED  BY <2>1, <2>2, SessionsAssumption DEF SessionsTypeOK
<1>3. ASSUME NEW c \in Clients, NEW l \in Links, SendPasswordReset(c, l) PROVE SpentLinksStaySpent'
  <2>1. account'.link = l  BY <1>3 DEF SendPasswordReset, SessionsTypeOK, Account
  <2> QED  BY <1>3, <2>1 DEF SendPasswordReset
<1>4. ASSUME LockLapses PROVE SpentLinksStaySpent'
  BY <1>4 DEF LockLapses, SessionsTypeOK, Account
<1>5. ASSUME UNCHANGED <<account, spent>> PROVE SpentLinksStaySpent'  BY <1>5
<1>6. CASE UNCHANGED sessionVars  BY <1>5, <1>6 DEF sessionVars
<1> QED
  BY <1>1, <1>2, <1>3, <1>4, <1>5, <1>6
     DEF SessionsNext, FindForLogin, SignUserToken, RevokeFamily, MarkRotated, RevokeAllSessions,
         FindForChange, FindForReset, FindForForgotten, RequestFails, IssueRefreshToken,
         PresentRefreshToken, Logout

-----------------------------------------------------------------------------
\* Every variable keeps its type (user.model.ts, refreshToken.model.ts).
THEOREM SessionsTypeCorrect == SessionsSpec => []SessionsTypeOK
<1>1. SessionsInit => SessionsInv  BY SessionsInitType, SessionsInitFamily DEF SessionsInv
<1>2. SessionsInv => SessionsTypeOK  BY DEF SessionsInv
<1> QED  BY <1>1, <1>2, SessionsInductive, PTL DEF SessionsSpec

\* "Rotation with reuse detection" (identity.service.ts:125): a family has two live
\* tokens only if one of its tokens was rotated from an overtaken read.
THEOREM FamiliesHaveOneLive == SessionsSpec => []OneLivePerFamily
<1>1. SessionsInit => SessionsInv  BY SessionsInitType, SessionsInitFamily DEF SessionsInv
<1>2. SessionsInv => OneLivePerFamily  BY DEF SessionsInv, FamilyInv
<1> QED  BY <1>1, <1>2, SessionsInductive, PTL DEF SessionsSpec

\* "The link works once" (identity.service.ts:309): a link that set a password never
\* becomes the outstanding one again, whichever copies are saved after it.
THEOREM LinksWorkOnce == SessionsSpec => []SpentLinksStaySpent
<1>1. SessionsInit => SpentLinksStaySpent  BY DEF SessionsInit, SpentLinksStaySpent
<1> QED  BY <1>1, SessionsNextSpent, SessionsTypeCorrect, PTL DEF SessionsSpec

-------------------------------------------------------------------------------
(***************************************************************************)
(* Receipts.  A link that is in the row was mailed or is being mailed      *)
(* (SavesWereMailed), and one is replaced only once it was assigned.       *)
(***************************************************************************)

\* A request that is to save a new link has had its mail queued.
SavesWereMailed == \A d \in Desks : errand[d].op = "save" => errand[d].token \in mailed

\* A link is replaced in a row that has been assigned.
RemindersFollow == \A d \in Desks : errand[d].op \in {"remind", "save"} => receipt.status # "none"

\* A row that has not been assigned yet names no token.
UnassignedUnasked == receipt.status = "none" => receipt.token = Unasked

ReceiptsInv == ReceiptsTypeOK /\ SavesWereMailed /\ RemindersFollow /\ UnassignedUnasked

-----------------------------------------------------------------------------
\* Nothing is assigned and no request is under way at the start.
LEMMA ReceiptsInitInv == ReceiptsInit => ReceiptsInv
<1> SUFFICES ASSUME ReceiptsInit PROVE ReceiptsInv
  OBVIOUS
<1>1. NoErrand \in Errand /\ NoErrand.op = "none"  BY DEF Errand, NoErrand
<1>2. receipt \in Receipt  BY DEF ReceiptsInit, Receipt
<1>3. 0 \in 0..LastDay  BY ReceiptsAssumption
<1> QED  BY <1>1, <1>2, <1>3
  DEF ReceiptsInit, ReceiptsInv, ReceiptsTypeOK, SavesWereMailed, RemindersFollow, UnassignedUnasked

\* A request that sends, reminds or saves holds a token.
LEMMA ErrandType ==
  ASSUME ReceiptsTypeOK, NEW d \in Desks, errand[d].op \in {"send", "remind", "save"}
  PROVE  errand[d].token \in Tokens
<1>1. errand[d] \in Errand  BY DEF ReceiptsTypeOK
<1> QED  BY <1>1 DEF Errand, NoErrand

\* A request that goes on, without having to save what was not mailed, keeps what
\* is true of requests.
LEMMA TakeKeeps ==
  ASSUME ReceiptsInv, NEW d \in Desks, NEW e \in Errand, Take(d, e), mailed \subseteq mailed',
         e.op = "save" => e.token \in mailed',
         e.op \in {"remind", "save"} => receipt'.status # "none",
         receipt.status # "none" => receipt'.status # "none"
  PROVE  errand' \in [Desks -> Errand] /\ SavesWereMailed' /\ RemindersFollow'
  BY DEF ReceiptsInv, ReceiptsTypeOK, SavesWereMailed, RemindersFollow, Take

\* A step keeps the invariant.
LEMMA ReceiptsInductive == ReceiptsInv /\ [ReceiptsNext]_receiptVars => ReceiptsInv'
<1> SUFFICES ASSUME ReceiptsInv, [ReceiptsNext]_receiptVars PROVE ReceiptsInv'
  OBVIOUS
<1>0. /\ NoErrand \in Errand /\ NoErrand.op = "none" /\ [op |-> "confirm"] \in Errand
      /\ \A t \in Tokens, op \in {"send", "remind", "save"} : [op |-> op, token |-> t] \in Errand
  BY DEF Errand, NoErrand
<1> USE DEF ReceiptsInv
<1>1. ASSUME NEW d \in Desks, NEW t \in Tokens, AssignWithReceipt(d, t) PROVE ReceiptsInv'
  <2>1. errand' \in [Desks -> Errand] /\ SavesWereMailed' /\ RemindersFollow'
    BY <1>0, <1>1, TakeKeeps DEF AssignWithReceipt
  <2> QED  BY <1>1, <2>1 DEF AssignWithReceipt, ReceiptsTypeOK, Receipt, UnassignedUnasked
<1>2. ASSUME NEW d \in Desks, SendReceiptRequest(d) PROVE ReceiptsInv'
  <2>1. errand[d].token \in Tokens  BY <1>2, ErrandType DEF SendReceiptRequest, OnErrand
  <2>2. mailed \subseteq mailed' /\ mailed' \subseteq Tokens
    BY <1>2, <2>1 DEF SendReceiptRequest, ReceiptsTypeOK
  <2>3. errand' \in [Desks -> Errand] /\ SavesWereMailed' /\ RemindersFollow'
    BY <1>0, <1>2, <2>2, TakeKeeps DEF SendReceiptRequest
  <2> QED  BY <1>2, <2>2, <2>3 DEF SendReceiptRequest, ReceiptsTypeOK, UnassignedUnasked
<1>3. ASSUME NEW d \in Desks, NEW t \in Tokens, FindForReminder(d, t) PROVE ReceiptsInv'
  <2>1. errand' \in [Desks -> Errand] /\ SavesWereMailed' /\ RemindersFollow'
    BY <1>0, <1>3, TakeKeeps DEF FindForReminder
  <2> QED  BY <1>3, <2>1 DEF FindForReminder, ReceiptsTypeOK, UnassignedUnasked
<1>4. ASSUME NEW d \in Desks, SendReminder(d) PROVE ReceiptsInv'
  <2>1. errand[d].token \in Tokens  BY <1>4, ErrandType DEF SendReminder, OnErrand
  <2>2. mailed \subseteq mailed' /\ mailed' \subseteq Tokens
    BY <1>4, <2>1 DEF SendReminder, ReceiptsTypeOK
  <2>3. errand' \in [Desks -> Errand] /\ SavesWereMailed' /\ RemindersFollow'
    <3>1. receipt.status # "none" /\ UNCHANGED receipt
      BY <1>4 DEF SendReminder, OnErrand, RemindersFollow
    <3>2. CASE today \in reminders \/ blocked
      BY <1>0, <1>4, <2>2, <3>1, <3>2, TakeKeeps DEF SendReminder
    <3>3. CASE ~(today \in reminders \/ blocked)
      <4> DEFINE save == [op |-> "save", token |-> errand[d].token]
      <4>1. Take(d, save) /\ save.token \in mailed'
        BY <1>4, <3>3 DEF SendReminder
      <4>2. save \in Errand  BY <1>0, <2>1
      <4> HIDE DEF save
      <4> QED  BY <2>2, <3>1, <4>1, <4>2, TakeKeeps
    <3> QED  BY <3>2, <3>3
  <2> QED  BY <1>4, <2>2, <2>3 DEF SendReminder, ReceiptsTypeOK, UnassignedUnasked
<1>5. ASSUME NEW d \in Desks, SaveReminder(d) PROVE ReceiptsInv'
  <2>1. errand[d].token \in Tokens /\ errand[d].token \in mailed
    BY <1>5, ErrandType DEF SaveReminder, OnErrand, SavesWereMailed
  <2>2. errand' \in [Desks -> Errand] /\ SavesWereMailed' /\ RemindersFollow'
    BY <1>0, <1>5, TakeKeeps DEF SaveReminder
  <2>3. receipt.status # "none"  BY <1>5 DEF SaveReminder, OnErrand, RemindersFollow
  <2> QED  BY <1>5, <2>1, <2>2, <2>3 DEF SaveReminder, ReceiptsTypeOK, Receipt, UnassignedUnasked
<1>6. ASSUME NEW d \in Desks, NEW t \in Tokens, FindForConfirmation(d, t) PROVE ReceiptsInv'
  <2>1. errand' \in [Desks -> Errand] /\ SavesWereMailed' /\ RemindersFollow'
    BY <1>0, <1>6, TakeKeeps DEF FindForConfirmation
  <2> QED  BY <1>6, <2>1 DEF FindForConfirmation, ReceiptsTypeOK, UnassignedUnasked
<1>7. ASSUME NEW d \in Desks, ConfirmReceipt(d) PROVE ReceiptsInv'
  <2>1. errand' \in [Desks -> Errand] /\ SavesWereMailed' /\ RemindersFollow'
    BY <1>0, <1>7, TakeKeeps DEF ConfirmReceipt
  <2> QED  BY <1>7, <2>1 DEF ConfirmReceipt, ReceiptsTypeOK, Receipt, UnassignedUnasked
<1>8. ASSUME NEW d \in Desks, ErrandEnds(d) PROVE ReceiptsInv'
  <2>1. errand' \in [Desks -> Errand] /\ SavesWereMailed' /\ RemindersFollow'
    BY <1>0, <1>8, TakeKeeps DEF ErrandEnds
  <2> QED  BY <1>8, <2>1 DEF ErrandEnds, ReceiptsTypeOK, UnassignedUnasked
<1>9. ASSUME ReturnItem PROVE ReceiptsInv'
  BY <1>9 DEF ReturnItem, ReceiptsTypeOK, Receipt, SavesWereMailed, RemindersFollow, UnassignedUnasked
<1>11. ASSUME DayPasses \/ AddressBlocked PROVE ReceiptsInv'
  <2>1. today' \in 0..LastDay /\ blocked' \in BOOLEAN /\ UNCHANGED <<receipt, reminders, mailed, errand>>
    <3>1. today' \in 0..LastDay  BY <1>11, ReceiptsAssumption DEF DayPasses, AddressBlocked, ReceiptsTypeOK
    <3>2. blocked' \in BOOLEAN  BY <1>11, Zenon DEF DayPasses, AddressBlocked, ReceiptsTypeOK
    <3> QED  BY <1>11, <3>1, <3>2 DEF DayPasses, AddressBlocked
  <2> QED  BY <2>1 DEF ReceiptsTypeOK, SavesWereMailed, RemindersFollow, UnassignedUnasked
<1>10. CASE UNCHANGED receiptVars
  BY <1>10 DEF receiptVars, ReceiptsTypeOK, SavesWereMailed, RemindersFollow, UnassignedUnasked
<1> QED
  BY <1>1, <1>2, <1>3, <1>4, <1>5, <1>6, <1>7, <1>8, <1>9, <1>10, <1>11 DEF ReceiptsNext

\* A step that finds a mailed link in the row leaves one there.
LEMMA ReceiptsStep ==
  ASSUME ReceiptsInv, [ReceiptsNext]_receiptVars, receipt.token \in mailed
  PROVE  receipt'.token \in mailed'
<1> USE DEF ReceiptsInv
<1>1. ASSUME NEW d \in Desks, NEW t \in Tokens, AssignWithReceipt(d, t) PROVE FALSE
  BY <1>1, ReceiptsAssumption DEF AssignWithReceipt, UnassignedUnasked, ReceiptsTypeOK
<1>2. ASSUME NEW d \in Desks, SaveReminder(d) PROVE receipt'.token \in mailed'
  BY <1>2 DEF SaveReminder, OnErrand, SavesWereMailed, ReceiptsTypeOK, Receipt
<1>3. mailed \subseteq mailed' \/ UNCHANGED mailed
  BY DEF ReceiptsNext, receiptVars, AssignWithReceipt, SendReceiptRequest, FindForReminder, SendReminder,
         SaveReminder, FindForConfirmation, ConfirmReceipt, ErrandEnds, ReturnItem, DayPasses, AddressBlocked
<1>4. \/ receipt'.token = receipt.token
      \/ \E d \in Desks : SaveReminder(d) \/ \E t \in Tokens : AssignWithReceipt(d, t)
  <2>1. ASSUME NEW d \in Desks, ConfirmReceipt(d) PROVE receipt'.token = receipt.token
    BY <2>1 DEF ConfirmReceipt, ReceiptsTypeOK, Receipt
  <2>2. ASSUME ReturnItem PROVE receipt'.token = receipt.token
    BY <2>2 DEF ReturnItem, ReceiptsTypeOK, Receipt
  <2>3. ASSUME NEW d \in Desks,
               \/ SendReceiptRequest(d) \/ SendReminder(d) \/ ErrandEnds(d)
               \/ \E t \in Tokens : FindForReminder(d, t) \/ FindForConfirmation(d, t)
        PROVE  UNCHANGED receipt
    BY <2>3 DEF SendReceiptRequest, SendReminder, ErrandEnds, FindForReminder, FindForConfirmation
  <2>4. ASSUME DayPasses \/ AddressBlocked \/ UNCHANGED receiptVars PROVE UNCHANGED receipt
    BY <2>4 DEF DayPasses, AddressBlocked, receiptVars
  <2> QED  BY <2>1, <2>2, <2>3, <2>4 DEF ReceiptsNext
<1> QED  BY <1>1, <1>2, <1>3, <1>4

\* Every variable keeps its type (assignment.model.ts).
THEOREM ReceiptsTypeCorrect == ReceiptsSpec => []ReceiptsTypeOK
<1>1. ReceiptsInv => ReceiptsTypeOK  BY DEF ReceiptsInv
<1> QED  BY <1>1, ReceiptsInitInv, ReceiptsInductive, PTL DEF ReceiptsSpec

\* "A refused reminder must not invalidate the link they already have"
\* (receipts.service.ts:104): for any number of requests and of links, once the row holds
\* a link that was mailed, every step leaves it with one that was.
THEOREM LinksStayGood == ReceiptsSpec => ALinkStaysGood
<1>1. ReceiptsInv /\ [ReceiptsNext]_receiptVars => [receipt.token \in mailed => receipt'.token \in mailed']_receiptVars
  BY ReceiptsStep
<1> QED  BY <1>1, ReceiptsInitInv, ReceiptsInductive, PTL DEF ReceiptsSpec, ALinkStaysGood

-------------------------------------------------------------------------------
(***************************************************************************)
(* CustomFields.  A save writes what its request read, but for the one key it*)
(* parsed (SavesCarry), and a definition that is edited is never removed.  *)
(***************************************************************************)

\* A definition that is being edited is there: none is ever removed.
EditsDefined == \A r \in FieldRequests : ask[r].op = "edit" => ask[r].key \in Defined

\* A request that goes through a record was begun before there was one, or holds
\* what the record's values were.
SeenIsRecord ==
  \A r \in FieldRequests :
    /\ ask[r].op = "create" => ask[r].seen = NoValue
    /\ ask[r].op = "update" => ask[r].seen \in Values /\ cf \in Values
    /\ (ask[r].op = "save" /\ ask[r].seen # NoValue) => ask[r].seen \in Values /\ cf \in Values

\* What is to be saved has every value that was read, but the one under the key the
\* request names.
SavesCarry ==
  \A r \in FieldRequests :
    (ask[r].op = "save" /\ ask[r].seen # NoValue) =>
      \A k \in Keys : (k # ask[r].key /\ ask[r].seen[k] # NoValue) => ask[r].parsed[k] = ask[r].seen[k]

FieldsInv == FieldsTypeOK /\ EditsDefined /\ SeenIsRecord /\ SavesCarry

-----------------------------------------------------------------------------
\* The invariant holds at first.
LEMMA FieldsInitInv == FieldsInit => FieldsInv
<1> SUFFICES ASSUME FieldsInit PROVE FieldsInv
  OBVIOUS
<1>1. ask = [r \in FieldRequests |-> NoAsk] /\ NoAsk.op = "none" /\ NoAsk \in Ask
  BY DEF FieldsInit, NoAsk, Ask
<1>2. EditsDefined /\ SeenIsRecord /\ SavesCarry
  BY <1>1 DEF EditsDefined, SeenIsRecord, SavesCarry
<1>3. FieldsTypeOK
  <2>1. asks \in 0..MaxAsks  BY CustomFieldsAssumption DEF FieldsInit
  <2>2. PICK live \in SUBSET FieldOptions \ {{}} :
          field = [k \in Keys |-> IF k = 1 THEN [active |-> TRUE, covers |-> TRUE, required |-> FALSE,
                                                 live |-> live, shelved |-> {}] ELSE NoValue]
    BY DEF FieldsInit
  <2>3. [active |-> TRUE, covers |-> TRUE, required |-> FALSE, live |-> live, shelved |-> {}] \in Definition
    BY DEF Definition
  <2>4. field \in [Keys -> Definition \cup {NoValue}]  BY <2>2, <2>3
  <2> QED  BY <1>1, <2>1, <2>4 DEF FieldsInit, FieldsTypeOK
<1> QED  BY <1>2, <1>3 DEF FieldsInv

\* What a request holds between two calls.
LEMMA AskType ==
  ASSUME FieldsTypeOK, NEW r \in FieldRequests
  PROVE  /\ ask[r].op \in {"make", "edit"} => ask[r].key \in Keys
         /\ ask[r].op \in {"create", "update"} =>
              ask[r] \in [op : {"create", "update"}, key : Keys, value : FieldOptions \cup {NoValue},
                          seen : Values \cup {NoValue}]
         /\ ask[r].op = "save" =>
              ask[r] \in [op : {"save"}, key : Keys, value : FieldOptions \cup {NoValue},
                          seen : Values \cup {NoValue}, parsed : Values]
<1>1. ask[r] \in Ask  BY DEF FieldsTypeOK
<1> QED  BY <1>1 DEF Ask, NoAsk

\* A request's call that changes neither the record nor any definition for the worse
\* and after which the request is idle or holds what is true of its kind.
LEMMA AskKeeps ==
  ASSUME FieldsInv, NEW r \in FieldRequests, NEW o \in Ask, ask' = [ask EXCEPT ![r] = o],
         UNCHANGED <<appliesTo, cf, fieldSlipped>>, asks' \in 0..MaxAsks,
         field' \in [Keys -> Definition \cup {NoValue}], Defined \subseteq Defined',
         o.op = "edit" => o.key \in Defined',
         o.op = "create" => o.seen = NoValue,
         o.op = "update" => o.seen \in Values /\ cf \in Values,
         (o.op = "save" /\ o.seen # NoValue) =>
            /\ o.seen \in Values /\ cf \in Values
            /\ \A k \in Keys : (k # o.key /\ o.seen[k] # NoValue) => o.parsed[k] = o.seen[k]
  PROVE  FieldsInv'
<1>1. FieldsTypeOK'  BY DEF FieldsInv, FieldsTypeOK
<1>2. \A q \in FieldRequests : ask'[q] = IF q = r THEN o ELSE ask[q]
  BY DEF FieldsInv, FieldsTypeOK
<1>3. EditsDefined'  BY <1>2 DEF FieldsInv, EditsDefined
<1>4. SeenIsRecord'  BY <1>2 DEF FieldsInv, SeenIsRecord
<1>5. SavesCarry'  BY <1>2 DEF FieldsInv, SavesCarry
<1> QED  BY <1>1, <1>3, <1>4, <1>5 DEF FieldsInv

\* An idle request holds nothing.
LEMMA NoAskKeeps ==
  ASSUME FieldsInv, NEW r \in FieldRequests, ask' = [ask EXCEPT ![r] = NoAsk],
         UNCHANGED <<appliesTo, cf, fieldSlipped>>, asks' \in 0..MaxAsks,
         field' \in [Keys -> Definition \cup {NoValue}], Defined \subseteq Defined'
  PROVE  FieldsInv'
<1>1. NoAsk \in Ask /\ NoAsk.op = "none"  BY DEF NoAsk, Ask
<1> QED  BY <1>1, AskKeeps

\* A definition that is changed is there afterwards.
LEMMA ChangeKeepsDefined ==
  ASSUME FieldsTypeOK, NEW k \in Keys, NEW d \in Definition, field' = [field EXCEPT ![k] = d]
  PROVE  field' \in [Keys -> Definition \cup {NoValue}] /\ Defined \subseteq Defined'
  BY NoDefinitionAssumption DEF FieldsTypeOK, Defined

\* The operations on definitions keep the invariant.
LEMMA DefinitionStepKeeps ==
  ASSUME FieldsInv, NEW r \in FieldRequests,
         \/ GenerateFieldKey(r) \/ CreateDefinition(r) \/ UpdateDefinition(r) \/ SetDefinitionStatus(r)
         \/ \E k \in Keys : FindDefinition(r, k)
  PROVE  FieldsInv'
<1> USE DEF FieldsInv
<1>0. /\ asks \in 0..MaxAsks /\ (asks < MaxAsks => asks + 1 \in 0..MaxAsks)
      /\ field \in [Keys -> Definition \cup {NoValue}]
  BY CustomFieldsAssumption DEF FieldsTypeOK
<1>1. ASSUME GenerateFieldKey(r) PROVE FieldsInv'
  <2>1. PICK k \in Keys : Asks(r, [op |-> "make", key |-> k])  BY <1>1 DEF GenerateFieldKey
  <2>2. [op |-> "make", key |-> k] \in Ask  BY DEF Ask
  <2>3. Defined' = Defined  BY <1>1 DEF GenerateFieldKey, Defined
  <2> QED  BY <1>0, <1>1, <2>1, <2>2, <2>3, AskKeeps DEF GenerateFieldKey, Asks
<1>2. ASSUME CreateDefinition(r) PROVE FieldsInv'
  <2>1. ask[r].key \in Keys  BY <1>2, AskType DEF CreateDefinition, Answers
  <2>2. PICK required \in BOOLEAN, live \in SUBSET FieldOptions \ {{}} :
          field' = [field EXCEPT ![ask[r].key] = [active |-> TRUE, covers |-> TRUE, required |-> required,
                                                  live |-> live, shelved |-> {}]]
    BY <1>2 DEF CreateDefinition
  <2>3. [active |-> TRUE, covers |-> TRUE, required |-> required, live |-> live, shelved |-> {}] \in Definition
    BY DEF Definition
  <2>4. field' \in [Keys -> Definition \cup {NoValue}] /\ Defined \subseteq Defined'
    BY <2>1, <2>2, <2>3, ChangeKeepsDefined
  <2> QED  BY <1>0, <1>2, <2>4, NoAskKeeps DEF CreateDefinition, Answers
<1>3. ASSUME UpdateDefinition(r) PROVE FieldsInv'
  <2> DEFINE k == ask[r].key
  <2>1. k \in Keys /\ field[k] \in Definition
    BY <1>3, AskType DEF UpdateDefinition, Answers, EditsDefined, Defined, FieldsTypeOK
  <2>2. PICK covers \in BOOLEAN, required \in BOOLEAN :
          field' = [field EXCEPT ![k].covers = covers, ![k].required = required]
    BY <1>3 DEF UpdateDefinition
  <2>3. field' = [field EXCEPT ![k] = [field[k] EXCEPT !.covers = covers, !.required = required]]
    BY <2>1, <2>2 DEF FieldsTypeOK
  <2>4. [field[k] EXCEPT !.covers = covers, !.required = required] \in Definition
    BY <2>1 DEF Definition
  <2>5. field' \in [Keys -> Definition \cup {NoValue}] /\ Defined \subseteq Defined'
    BY <2>1, <2>3, <2>4, ChangeKeepsDefined
  <2> QED  BY <1>0, <1>3, <2>5, NoAskKeeps DEF UpdateDefinition, Answers
<1>4. ASSUME SetDefinitionStatus(r) PROVE FieldsInv'
  <2> DEFINE k == ask[r].key
  <2>1. k \in Keys /\ field[k] \in Definition
    BY <1>4, AskType DEF SetDefinitionStatus, Answers, EditsDefined, Defined, FieldsTypeOK
  <2>2. PICK active \in BOOLEAN : field' = [field EXCEPT ![k].active = active]
    BY <1>4 DEF SetDefinitionStatus
  <2>3. field' = [field EXCEPT ![k] = [field[k] EXCEPT !.active = active]]  BY <2>2
  <2>4. [field[k] EXCEPT !.active = active] \in Definition  BY <2>1 DEF Definition
  <2>5. field' \in [Keys -> Definition \cup {NoValue}] /\ Defined \subseteq Defined'
    BY <2>1, <2>3, <2>4, ChangeKeepsDefined
  <2> QED  BY <1>0, <1>4, <2>5, NoAskKeeps DEF SetDefinitionStatus, Answers
<1>5. ASSUME NEW k \in Keys, FindDefinition(r, k) PROVE FieldsInv'
  <2>1. [op |-> "edit", key |-> k] \in Ask  BY DEF Ask
  <2>2. Defined' = Defined  BY <1>5 DEF FindDefinition, Defined
  <2> QED  BY <1>0, <1>5, <2>1, <2>2, AskKeeps DEF FindDefinition, Asks
<1> QED  BY <1>1, <1>2, <1>3, <1>4, <1>5

\* New options end the other edits that replace them.
LEMMA OptionsKeep ==
  ASSUME FieldsInv, NEW r \in FieldRequests, UpdateOptions(r)
  PROVE  FieldsInv'
<1> USE DEF FieldsInv
<1> DEFINE k == ask[r].key
<1>1. k \in Keys /\ field[k] \in Definition
  BY AskType DEF UpdateOptions, EditsDefined, Defined, FieldsTypeOK
<1>2. PICK live \in SUBSET FieldOptions : \E shelved \in SUBSET (FieldOptions \ live) :
        field' = [field EXCEPT ![k].live = live, ![k].shelved = shelved]
  BY DEF UpdateOptions
<1>20. PICK shelved \in SUBSET (FieldOptions \ live) :
        field' = [field EXCEPT ![k].live = live, ![k].shelved = shelved]
  BY <1>2
<1>3. field' = [field EXCEPT ![k] = [field[k] EXCEPT !.live = live, !.shelved = shelved]]
  BY <1>1, <1>20 DEF FieldsTypeOK
<1>4. [field[k] EXCEPT !.live = live, !.shelved = shelved] \in Definition
  BY <1>1 DEF Definition
<1>5. field' \in [Keys -> Definition \cup {NoValue}] /\ Defined \subseteq Defined'
  BY <1>1, <1>3, <1>4, ChangeKeepsDefined
<1>6. \A q \in FieldRequests : ask'[q] = NoAsk \/ ask'[q] = ask[q]
  BY DEF UpdateOptions, Overtakes
<1>7. NoAsk.op = "none" /\ NoAsk \in Ask  BY DEF NoAsk, Ask
<1>8. ask' \in [FieldRequests -> Ask]  BY <1>7 DEF UpdateOptions, Overtakes, FieldsTypeOK
<1>9. FieldsTypeOK'  BY <1>5, <1>8 DEF UpdateOptions, FieldsTypeOK
<1>10. EditsDefined'  BY <1>5, <1>6, <1>7 DEF EditsDefined
<1>11. SeenIsRecord' /\ SavesCarry'
  BY <1>6, <1>7 DEF UpdateOptions, SeenIsRecord, SavesCarry
<1> QED  BY <1>9, <1>10, <1>11

\* What is parsed is the values of the record and the new one.
LEMMA ParsedType ==
  ASSUME NEW o \in [op : {"create", "update"}, key : Keys, value : FieldOptions \cup {NoValue},
                    seen : Values \cup {NoValue}],
         o.op = "update" => o.seen \in Values
  PROVE  /\ Merged(o) \in Values /\ Parsed(o) \in Values
         /\ o.op = "update" => \A k \in Keys : k # o.key => Merged(o)[k] = o.seen[k]
<1>1. Merged(o) = IF o.op = "update" THEN [o.seen EXCEPT ![o.key] = o.value]
                  ELSE [[k \in Keys |-> NoValue] EXCEPT ![o.key] = o.value]
  BY DEF Merged
<1>2. Merged(o) \in Values  BY <1>1 DEF Values
<1>3. Parsed(o) \in Values  BY <1>2 DEF Parsed, Values
<1> QED  BY <1>1, <1>2, <1>3 DEF Values

\* The operations on a record up to its save keep the invariant.
LEMMA ValueStepKeeps ==
  ASSUME FieldsInv, NEW r \in FieldRequests, FindRecord(r) \/ ApplyCustomFields(r) \/ AskEnds(r)
  PROVE  FieldsInv'
<1> USE DEF FieldsInv
<1>0. /\ asks \in 0..MaxAsks /\ (asks < MaxAsks => asks + 1 \in 0..MaxAsks)
      /\ field \in [Keys -> Definition \cup {NoValue}]
      /\ UNCHANGED field
  BY CustomFieldsAssumption DEF FieldsTypeOK, FindRecord, ApplyCustomFields, AskEnds
<1>1. Defined' = Defined  BY <1>0 DEF Defined
<1>2. ASSUME FindRecord(r) PROVE FieldsInv'
  <2>1. PICK k \in Keys, v \in FieldOptions \cup {NoValue} :
          Asks(r, [op |-> IF cf = NoValue THEN "create" ELSE "update", key |-> k, value |-> v, seen |-> cf])
    BY <1>2 DEF FindRecord
  <2> DEFINE o == [op |-> IF cf = NoValue THEN "create" ELSE "update", key |-> k, value |-> v, seen |-> cf]
  <2>2. o \in Ask  BY DEF Ask, FieldsTypeOK
  <2>3. /\ o.op = "create" => o.seen = NoValue
        /\ o.op = "update" => o.seen \in Values /\ cf \in Values
        /\ o.op # "edit" /\ o.op # "save"
    BY DEF FieldsTypeOK
  <2>4. ask' = [ask EXCEPT ![r] = o] /\ asks' \in 0..MaxAsks  BY <1>0, <2>1 DEF Asks
  <2> HIDE DEF o
  <2> QED  BY <1>0, <1>1, <1>2, <2>2, <2>3, <2>4, AskKeeps DEF FindRecord
<1>3. ASSUME ApplyCustomFields(r) PROVE FieldsInv'
  <2> DEFINE o == ask[r]
             save == [op |-> "save", key |-> o.key, value |-> o.value, seen |-> o.seen, parsed |-> Parsed(o)]
  <2>1. /\ o \in [op : {"create", "update"}, key : Keys, value : FieldOptions \cup {NoValue},
                  seen : Values \cup {NoValue}]
        /\ o.op = "update" => o.seen \in Values /\ cf \in Values
        /\ o.op = "create" => o.seen = NoValue
    BY <1>3, AskType DEF ApplyCustomFields, SeenIsRecord
  <2>2. CASE ~Accepted(o)
    BY <1>0, <1>1, <1>3, <2>2, NoAskKeeps DEF ApplyCustomFields
  <2>3. CASE Accepted(o)
    <3>1. ask' = [ask EXCEPT ![r] = save]  BY <1>3, <2>3 DEF ApplyCustomFields
    <3>2. Parsed(o) \in Values /\ Merged(o) \in Values  BY <2>1, ParsedType
    <3>3. save \in Ask  BY <2>1, <3>2 DEF Ask
    <3>4. ASSUME save.seen # NoValue PROVE o.op = "update"  BY <2>1, <3>4
    <3>5. ASSUME save.seen # NoValue, NEW k \in Keys, k # o.key, o.seen[k] # NoValue
          PROVE  Parsed(o)[k] = o.seen[k]
      <4>1. Merged(o)[k] = o.seen[k]  BY <2>1, <3>4, <3>5, ParsedType
      <4>2. k \in DefinitionsFor  BY <2>3, <3>5, <4>1 DEF Accepted, Provided
      <4> QED  BY <4>1, <4>2 DEF Parsed
    <3>6. /\ save.op = "save" /\ save.seen = o.seen /\ save.key = o.key
          /\ save.parsed = Parsed(o)
      OBVIOUS
    <3> HIDE DEF save
    <3>7. (save.op = "save" /\ save.seen # NoValue) =>
            /\ save.seen \in Values /\ cf \in Values
            /\ \A k \in Keys : (k # save.key /\ save.seen[k] # NoValue) => save.parsed[k] = save.seen[k]
      BY <2>1, <3>4, <3>5, <3>6
    <3>8. UNCHANGED <<appliesTo, cf, fieldSlipped, asks>>  BY <1>3 DEF ApplyCustomFields
    <3> HIDE DEF o
    <3> QED  BY <1>0, <1>1, <3>1, <3>3, <3>6, <3>7, <3>8, AskKeeps
  <2> QED  BY <2>2, <2>3
<1>4. ASSUME AskEnds(r) PROVE FieldsInv'
  BY <1>0, <1>1, <1>4, NoAskKeeps DEF AskEnds
<1> QED  BY <1>2, <1>3, <1>4

\* A save sets the whole of the record or starts again.
LEMMA SaveKeeps ==
  ASSUME FieldsInv, NEW r \in FieldRequests, SaveRecord(r)
  PROVE  FieldsInv'
<1> USE DEF FieldsInv
<1> DEFINE o == ask[r]
           again == cf # o.seen /\ (appliesTo = "asset" \/ o.seen = NoValue)
           update == [op |-> "update", key |-> o.key, value |-> o.value, seen |-> cf]
           next == IF again /\ o.seen # NoValue THEN update ELSE NoAsk
<1>1. /\ o \in [op : {"save"}, key : Keys, value : FieldOptions \cup {NoValue},
                seen : Values \cup {NoValue}, parsed : Values]
      /\ o.seen # NoValue => o.seen \in Values /\ cf \in Values
  BY AskType DEF SaveRecord, SeenIsRecord
<1>2. cf' \in Values \cup {NoValue} /\ (cf \in Values => cf' \in Values)
      /\ (again => cf' = cf)
  BY <1>1 DEF SaveRecord, FieldsTypeOK
<1>3. /\ ask' = [ask EXCEPT ![r] = next] /\ UNCHANGED <<appliesTo, field, asks>>
  BY DEF SaveRecord
<1>4. NoAsk \in Ask /\ NoAsk.op = "none"  BY DEF NoAsk, Ask
<1>5. next \in Ask /\ next.op \in {"update", "none"}
  BY <1>1, <1>4 DEF Ask
<1>6. next.op = "update" => next.seen \in Values /\ cf' \in Values
  BY <1>1, <1>2, <1>4
<1> HIDE DEF next
<1>7. \A q \in FieldRequests : ask'[q] = IF q = r THEN next ELSE ask[q]
  BY <1>3 DEF FieldsTypeOK
<1>8. fieldSlipped' \in BOOLEAN  BY DEF SaveRecord, FieldsTypeOK
<1>9. FieldsTypeOK'  BY <1>2, <1>3, <1>5, <1>8 DEF FieldsTypeOK
<1>10. Defined' = Defined  BY <1>3 DEF Defined
<1>11. EditsDefined'  BY <1>5, <1>7, <1>10 DEF EditsDefined
<1>12. SeenIsRecord'  BY <1>2, <1>5, <1>6, <1>7 DEF SeenIsRecord
<1>13. SavesCarry'  BY <1>5, <1>7 DEF SavesCarry
<1> QED  BY <1>9, <1>11, <1>12, <1>13

\* The invariant is inductive.
LEMMA FieldsInductive == FieldsInv /\ [FieldsNext]_fieldVars => FieldsInv'
<1> SUFFICES ASSUME FieldsInv, [FieldsNext]_fieldVars PROVE FieldsInv'
  OBVIOUS
<1>1. CASE UNCHANGED fieldVars
  BY <1>1 DEF fieldVars, FieldsInv, FieldsTypeOK, EditsDefined, SeenIsRecord, SavesCarry, Defined
<1> QED  BY <1>1, DefinitionStepKeeps, OptionsKeep, ValueStepKeeps, SaveKeeps DEF FieldsNext

\* A step that changes a value is the save of a request that names its key.
LEMMA FieldsStep ==
  ASSUME FieldsInv, [FieldsNext]_fieldVars, NEW k \in Keys, cf # NoValue, cf[k] # NoValue,
         cf' # cf, cf'[k] # cf[k], ~fieldSlipped'
  PROVE  \E r \in FieldRequests : ask[r].op = "save" /\ ask[r].key = k /\ ask'[r] = NoAsk
<1> USE DEF FieldsInv
<1>1. PICK r \in FieldRequests : SaveRecord(r)
  BY DEF FieldsNext, fieldVars, GenerateFieldKey, CreateDefinition, FindDefinition, UpdateOptions,
         UpdateDefinition, SetDefinitionStatus, FindRecord, ApplyCustomFields, AskEnds
<1> DEFINE o == ask[r]
           again == cf # o.seen /\ (appliesTo = "asset" \/ o.seen = NoValue)
<1>2. o.op = "save" /\ ~again /\ cf' = o.parsed /\ ask' = [ask EXCEPT ![r] = NoAsk]
  BY <1>1 DEF SaveRecord
<1>3. cf = o.seen  BY <1>1, <1>2 DEF SaveRecord
<1>4. o.key = k  BY <1>2, <1>3 DEF SavesCarry
<1>5. ask'[r] = NoAsk  BY <1>2 DEF FieldsTypeOK
<1> QED  BY <1>2, <1>4, <1>5

\* Every variable keeps its type (customFieldDefinition.model.ts).
THEOREM FieldsTypeCorrect == FieldsSpec => []FieldsTypeOK
<1>1. FieldsInv => FieldsTypeOK  BY DEF FieldsInv
<1> QED  BY <1>1, FieldsInitInv, FieldsInductive, PTL DEF FieldsSpec

\* A value on a record changes only when a request that names its key is saved, whatever
\* happens to the field's definition meanwhile, unless one was written from an overtaken
\* read: for any number of requests, keys and options (customFieldValues.ts).
THEOREM ValuesKept == FieldsSpec => ValuesAreKept
<1> DEFINE A == \A k \in Keys :
       (cf # NoValue /\ cf[k] # NoValue /\ cf' # cf /\ cf'[k] # cf[k] /\ ~fieldSlipped')
         => \E r \in FieldRequests :
              ask[r].op = "save" /\ ask[r].key = k /\ ask'[r] = NoAsk
<1>1. FieldsInv /\ [FieldsNext]_fieldVars => [A]_fieldVars
  BY FieldsStep
<1> QED  BY <1>1, FieldsInitInv, FieldsInductive, PTL DEF FieldsSpec, ValuesAreKept

-------------------------------------------------------------------------------
(***************************************************************************)
(* Maintenance.  A record and the visit that follows it name each other    *)
(* (Series), so that two visits cannot follow the same one.                *)
(***************************************************************************)

\* Naming goes both ways, and what a record names is there.
Series ==
  \A w \in Works : work[w] # NoWork =>
    /\ work[w].next # NoWork =>
         work[work[w].next] # NoWork /\ work[work[w].next].previous = w
    /\ work[w].previous # NoWork =>
         work[work[w].previous] # NoWork /\ work[work[w].previous].next = w

\* What is to be deleted has been made: no record is ever removed.
DeletesFound ==
  \A t \in Technicians : visit[t].op = "delete" => work[visit[t].work] # NoWork

MaintenanceInv == MaintenanceTypeOK /\ Series /\ DeletesFound

-----------------------------------------------------------------------------
\* The invariant holds at first.
LEMMA MaintenanceInitInv == MaintenanceInit => MaintenanceInv
<1> SUFFICES ASSUME MaintenanceInit PROVE MaintenanceInv
  OBVIOUS
<1>1. NoVisit \in Visit /\ NoVisit.op = "none"  BY DEF NoVisit, Visit
<1>2. MaintenanceTypeOK
  BY <1>1, MaintenanceAssumption DEF MaintenanceInit, MaintenanceTypeOK, AssetStates
<1>3. Series /\ DeletesFound
  BY <1>1 DEF MaintenanceInit, Series, DeletesFound
<1> QED  BY <1>2, <1>3 DEF MaintenanceInv

\* What a request holds between two calls.
LEMMA VisitType ==
  ASSUME MaintenanceTypeOK, NEW t \in Technicians
  PROVE  /\ visit[t] \in Visit
         /\ visit[t] # NoVisit => visit[t].work \in Works
         /\ visit[t].op \in {"plan", "commit", "write"} =>
              \/ visit[t] \in [op : {"plan", "commit", "write"}, for : {"create", "start"}, work : Works,
                               from : AssetStates \cup {Nowhere}, to : {"maintenance"}]
              \/ visit[t] \in [op : {"plan", "commit"}, for : {"complete"}, work : Works,
                               from : {"maintenance"}, to : {"in_stock", "deployed"}]
         /\ visit[t].op \in {"look", "count"} =>
              visit[t] \in [op : {"complete", "cancel", "delete", "look", "count"}, work : Works]
<1>1. visit[t] \in Visit  BY DEF MaintenanceTypeOK
<1> QED  BY <1>1 DEF Visit, NoVisit

\* Every visit but the one of t stays what it was.
LEMMA CarryKeeps ==
  ASSUME MaintenanceInv, NEW t \in Technicians, NEW o \in Visit, visit' = [visit EXCEPT ![t] = o],
         \A w \in Works : work[w] # NoWork => work'[w] # NoWork,
         o.op = "delete" => work'[o.work] # NoWork
  PROVE  visit' \in [Technicians -> Visit] /\ DeletesFound'
<1>1. visit' \in [Technicians -> Visit]  BY DEF MaintenanceInv, MaintenanceTypeOK
<1>2. ASSUME NEW q \in Technicians, visit'[q].op = "delete" PROVE work'[visit'[q].work] # NoWork
  <2>1. CASE q = t  BY <1>2, <2>1 DEF MaintenanceInv, MaintenanceTypeOK
  <2>2. CASE q # t
    <3>1. visit'[q] = visit[q]  BY <2>2 DEF MaintenanceInv, MaintenanceTypeOK
    <3>2. visit[q] # NoVisit  BY <1>2, <3>1 DEF NoVisit
    <3>3. visit[q].work \in Works  BY <3>2, VisitType DEF MaintenanceInv
    <3> QED  BY <1>2, <3>1, <3>3 DEF MaintenanceInv, DeletesFound
  <2> QED  BY <2>1, <2>2
<1> QED  BY <1>1, <1>2 DEF DeletesFound

\* A step that leaves the records as they are.
LEMMA VisitKeeps ==
  ASSUME MaintenanceInv, NEW t \in Technicians, NEW o \in Visit, visit' = [visit EXCEPT ![t] = o],
         o.op = "delete" => work[o.work] # NoWork,
         UNCHANGED work, assetState' \in AssetStates, visits' \in 0..MaxVisits
  PROVE  MaintenanceInv'
<1>1. visit' \in [Technicians -> Visit] /\ DeletesFound'  BY CarryKeeps
<1>2. Series'  BY DEF MaintenanceInv, Series
<1> QED  BY <1>1, <1>2 DEF MaintenanceInv, MaintenanceTypeOK

\* A record that is made or changed, and keeps its place in the series.
LEMMA WorkKeeps ==
  ASSUME MaintenanceInv, NEW w \in Works, NEW r \in Work, work' = [work EXCEPT ![w] = r],
         IF work[w] = NoWork THEN r.next = NoWork /\ r.previous = NoWork
                             ELSE r.next = work[w].next /\ r.previous = work[w].previous
  PROVE  /\ work' \in [Works -> Work \cup {NoWork}] /\ Series'
         /\ \A v \in Works : work[v] # NoWork => work'[v] # NoWork
<1>1. r # NoWork  BY NoWorkAssumption
<1>2. \A v \in Works : work'[v] = IF v = w THEN r ELSE work[v]
  BY DEF MaintenanceInv, MaintenanceTypeOK
<1>3. \A v \in Works : work[v] # NoWork =>
        work[v].next \in Works \cup {NoWork} /\ work[v].previous \in Works \cup {NoWork}
  BY DEF MaintenanceInv, MaintenanceTypeOK, Work
<1>4. Series'
  <2> SUFFICES ASSUME NEW v \in Works, work'[v] # NoWork
               PROVE  /\ work'[v].next # NoWork =>
                           work'[work'[v].next] # NoWork /\ work'[work'[v].next].previous = v
                      /\ work'[v].previous # NoWork =>
                           work'[work'[v].previous] # NoWork /\ work'[work'[v].previous].next = v
    BY DEF Series
  <2>1. CASE v = w /\ work[w] = NoWork  BY <2>1, <1>2
  <2>2. CASE ~(v = w /\ work[w] = NoWork)
    <3>1. /\ work[v] # NoWork
          /\ work'[v].next = work[v].next /\ work'[v].previous = work[v].previous
      BY <1>2, <2>2
    <3>2. work[v].next # NoWork =>
            work'[work[v].next] # NoWork /\ work'[work[v].next].previous = v
      BY <1>1, <1>2, <1>3, <3>1 DEF MaintenanceInv, Series
    <3>3. work[v].previous # NoWork =>
            work'[work[v].previous] # NoWork /\ work'[work[v].previous].next = v
      BY <1>1, <1>2, <1>3, <3>1 DEF MaintenanceInv, Series
    <3> QED  BY <3>1, <3>2, <3>3
  <2> QED  BY <2>1, <2>2
<1> QED  BY <1>1, <1>2, <1>4 DEF MaintenanceInv, MaintenanceTypeOK

\* Booking the next visit of a series that has none.
LEMMA BookingKeeps ==
  ASSUME MaintenanceInv, NEW w \in Works, NEW v \in Works, work[w] # NoWork, work[v] = NoWork,
         NEW r \in Work, NEW n \in Work, work' = [work EXCEPT ![w] = r, ![v] = n],
         work[w].next = NoWork, r.next = v, r.previous = work[w].previous,
         n.next = NoWork, n.previous = w
  PROVE  /\ work' \in [Works -> Work \cup {NoWork}] /\ Series'
         /\ \A x \in Works : work[x] # NoWork => work'[x] # NoWork
<1>1. r # NoWork /\ n # NoWork /\ w # NoWork /\ v # NoWork /\ v # w  BY NoWorkAssumption
<1>2. \A x \in Works : work'[x] = IF x = v THEN n ELSE IF x = w THEN r ELSE work[x]
  BY DEF MaintenanceInv, MaintenanceTypeOK
<1>3. \A x \in Works : work[x] # NoWork =>
        work[x].next \in Works \cup {NoWork} /\ work[x].previous \in Works \cup {NoWork}
  BY DEF MaintenanceInv, MaintenanceTypeOK, Work
<1>30. \A x \in Works : work[x] # NoWork =>
         /\ work[x].next # NoWork =>
              work[work[x].next] # NoWork /\ work[work[x].next].previous = x
         /\ work[x].previous # NoWork =>
              work[work[x].previous] # NoWork /\ work[work[x].previous].next = x
  BY DEF MaintenanceInv, Series
<1>4. Series'
  <2> SUFFICES ASSUME NEW x \in Works, work'[x] # NoWork
               PROVE  /\ work'[x].next # NoWork =>
                           work'[work'[x].next] # NoWork /\ work'[work'[x].next].previous = x
                      /\ work'[x].previous # NoWork =>
                           work'[work'[x].previous] # NoWork /\ work'[work'[x].previous].next = x
    BY DEF Series
  <2>1. CASE x = v  BY <2>1, <1>1, <1>2
  <2>2. CASE x = w
    <3>1. work'[x].next = v /\ work'[v].previous = w /\ work'[v] # NoWork  BY <1>1, <1>2, <2>2
    <3>2. work'[x].previous = work[x].previous  BY <1>1, <1>2, <2>2
    <3>3. ASSUME work[x].previous # NoWork
          PROVE  work'[work[x].previous] # NoWork /\ work'[work[x].previous].next = x
      <4>1. work[x].previous # w  BY <1>1, <1>30, <2>2, <3>3
      <4>2. work[x].previous \in Works /\ work[x].previous # v  BY <1>3, <1>30, <2>2, <3>3
      <4>3. work'[work[x].previous] = work[work[x].previous]  BY <1>2, <2>2, <4>1, <4>2
      <4>4. work[work[x].previous] # NoWork /\ work[work[x].previous].next = x  BY <1>30, <2>2, <3>3
      <4> QED  BY <4>3, <4>4
    <3> QED  BY <2>2, <3>1, <3>2, <3>3
  <2>3. CASE x # v /\ x # w
    <3>1. work[x] # NoWork /\ work'[x] = work[x]  BY <1>2, <2>3
    <3>2. ASSUME work[x].next # NoWork
          PROVE  work'[work[x].next] # NoWork /\ work'[work[x].next].previous = x
      <4>1. work[x].next \in Works /\ work[x].next # v  BY <1>3, <1>30, <3>1, <3>2
      <4>2. work[work[x].next] # NoWork /\ work[work[x].next].previous = x  BY <1>30, <3>1, <3>2
      <4>3. work'[work[x].next] \in {r, work[work[x].next]}  BY <1>2, <4>1
      <4>4. work'[work[x].next] = r => work'[work[x].next].previous = x
        <5>1. CASE work[x].next = w  BY <4>2, <5>1
        <5>2. CASE work[x].next # w  BY <1>2, <4>1, <4>2, <5>2
        <5> QED  BY <5>1, <5>2
      <4> QED  BY <1>1, <4>2, <4>3, <4>4
    <3>3. ASSUME work[x].previous # NoWork
          PROVE  work'[work[x].previous] # NoWork /\ work'[work[x].previous].next = x
      <4>1. x # NoWork  BY NoWorkAssumption
      <4>2. work[x].previous \in Works /\ work[x].previous # v /\ work[x].previous # w
        BY <1>3, <1>30, <3>1, <3>3, <4>1
      <4>3. work'[work[x].previous] = work[work[x].previous]  BY <1>2, <4>2
      <4>4. work[work[x].previous] # NoWork /\ work[work[x].previous].next = x  BY <1>30, <3>1, <3>3
      <4> QED  BY <4>3, <4>4
    <3> QED  BY <3>1, <3>2, <3>3
  <2> QED  BY <2>1, <2>2, <2>3
<1> QED  BY <1>1, <1>2, <1>4 DEF MaintenanceInv, MaintenanceTypeOK

\* The types, from the invariant.
LEMMA MaintenanceTypes ==
  ASSUME MaintenanceInv
  PROVE  /\ visits \in 0..MaxVisits /\ (visits < MaxVisits => visits + 1 \in 0..MaxVisits)
         /\ assetState \in AssetStates
         /\ NoVisit \in Visit /\ NoVisit.op = "none"
  BY MaintenanceAssumption DEF MaintenanceInv, MaintenanceTypeOK, NoVisit, Visit

\* Requests that arrive, read, or move the asset.
LEMMA MoveKeeps ==
  ASSUME MaintenanceInv, NEW t \in Technicians,
         \/ PlanMove(t) \/ CommitMove(t) \/ FindAssetAfter(t) \/ VisitEnds(t)
         \/ \E back \in {"in_stock", "deployed"} : CountOthers(t, back)
         \/ \E w \in Works : \/ \E op \in {"complete", "cancel"} : FindOpen(t, w, op)
                             \/ FindForDeletion(t, w)
                             \/ \E moveAsset \in BOOLEAN :
                                  BeginCreate(t, w, moveAsset) \/ FindForStart(t, w, moveAsset)
  PROVE  MaintenanceInv'
<1>0. MaintenanceTypeOK  BY DEF MaintenanceInv
<1> DEFINE o == visit[t]
<1>1. ASSUME PlanMove(t) PROVE MaintenanceInv'
  <2>1. visit' = [visit EXCEPT ![t] = [o EXCEPT !.op = "commit"]]  BY <1>1 DEF PlanMove
  <2>2. [o EXCEPT !.op = "commit"] \in Visit /\ [o EXCEPT !.op = "commit"].op # "delete"
    BY <1>0, <1>1, VisitType DEF PlanMove, Visiting, Visit
  <2> QED  BY <1>1, <2>1, <2>2, MaintenanceTypes, VisitKeeps DEF PlanMove
<1>2. ASSUME CommitMove(t) PROVE MaintenanceInv'
  <2>1. o.op = "commit" /\ assetState' = o.to  BY <1>2 DEF CommitMove, Visiting
  <2>2. assetState' \in AssetStates  BY <1>0, <2>1, VisitType DEF AssetStates
  <2>3. CASE o.for = "complete"
    BY <1>2, <2>2, <2>3, MaintenanceTypes, VisitKeeps DEF CommitMove, Carry
  <2>4. CASE o.for # "complete"
    <3>1. visit' = [visit EXCEPT ![t] = [o EXCEPT !.op = "write"]]  BY <1>2, <2>4 DEF CommitMove
    <3>2. [o EXCEPT !.op = "write"] \in Visit /\ [o EXCEPT !.op = "write"].op # "delete"
      BY <1>0, <2>1, <2>4, VisitType DEF Visit
    <3> QED  BY <1>2, <2>2, <3>1, <3>2, MaintenanceTypes, VisitKeeps DEF CommitMove
  <2> QED  BY <2>3, <2>4
<1>3. ASSUME FindAssetAfter(t) PROVE MaintenanceInv'
  <2>1. o \in [op : {"complete", "cancel", "delete", "look", "count"}, work : Works]
    BY <1>0, <1>3, VisitType DEF FindAssetAfter, Visiting
  <2>2. [o EXCEPT !.op = "count"] \in Visit /\ [o EXCEPT !.op = "count"].op = "count"
    BY <2>1 DEF Visit
  <2> QED  BY <1>3, <2>2, MaintenanceTypes, VisitKeeps DEF FindAssetAfter, Carry
<1>4. ASSUME VisitEnds(t) PROVE MaintenanceInv'
  BY <1>4, MaintenanceTypes, VisitKeeps DEF VisitEnds, Carry
<1>5. ASSUME NEW back \in {"in_stock", "deployed"}, CountOthers(t, back) PROVE MaintenanceInv'
  <2> DEFINE plan == [op |-> "plan", for |-> "complete", work |-> o.work,
                      from |-> "maintenance", to |-> back]
  <2>1. o.work \in Works  BY <1>0, <1>5, VisitType DEF CountOthers, Visiting
  <2>2. plan \in Visit /\ plan.op = "plan"  BY <2>1 DEF Visit
  <2>3. visit' = [visit EXCEPT ![t] = plan] \/ visit' = [visit EXCEPT ![t] = NoVisit]
    BY <1>5 DEF CountOthers, Carry
  <2> HIDE DEF plan
  <2> QED  BY <1>5, <2>2, <2>3, MaintenanceTypes, VisitKeeps DEF CountOthers
<1>6. ASSUME NEW w \in Works, NEW op \in {"complete", "cancel"}, FindOpen(t, w, op) PROVE MaintenanceInv'
  <2>1. [op |-> op, work |-> w] \in Visit  BY DEF Visit
  <2> QED  BY <1>6, <2>1, MaintenanceTypes, VisitKeeps DEF FindOpen, Arrive, Carry
<1>7. ASSUME NEW w \in Works, FindForDeletion(t, w) PROVE MaintenanceInv'
  <2>1. [op |-> "delete", work |-> w] \in Visit /\ work[w] # NoWork
    BY <1>7 DEF Visit, FindForDeletion, Visible
  <2> QED  BY <1>7, <2>1, MaintenanceTypes, VisitKeeps DEF FindForDeletion, Arrive, Carry
<1>8. ASSUME NEW w \in Works, NEW moveAsset \in BOOLEAN,
             BeginCreate(t, w, moveAsset) \/ FindForStart(t, w, moveAsset)
      PROVE  MaintenanceInv'
  <2>1. PICK for \in {"create", "start"} : Enter(t, for, w, moveAsset)
    BY <1>8 DEF BeginCreate, FindForStart
  <2> DEFINE moves == moveAsset /\ assetState # "maintenance"
             p == [op |-> IF moves THEN "plan" ELSE "write", for |-> for, work |-> w,
                   from |-> IF moves THEN assetState ELSE Nowhere, to |-> "maintenance"]
  <2>2. visit' = [visit EXCEPT ![t] = p]  BY <2>1 DEF Enter, Carry
  <2>3. p \in Visit /\ p.op # "delete"  BY MaintenanceTypes DEF Visit
  <2>4. visits < MaxVisits /\ visits' = visits + 1 /\ UNCHANGED <<work, assetState>>
    BY <1>8 DEF BeginCreate, FindForStart, Arrive
  <2> HIDE DEF p
  <2> QED  BY <2>2, <2>3, <2>4, MaintenanceTypes, VisitKeeps
<1> QED  BY <1>1, <1>2, <1>3, <1>4, <1>5, <1>6, <1>7, <1>8

\* Requests that make a record, or change one and leave its place in the series.
LEMMA RecordKeeps ==
  ASSUME MaintenanceInv, NEW t \in Technicians,
         \/ StartMaintenance(t) \/ CancelMaintenance(t) \/ DeleteMaintenance(t)
         \/ \E recurs \in BOOLEAN : CreateMaintenance(t, recurs)
  PROVE  MaintenanceInv'
<1>0. MaintenanceTypeOK  BY DEF MaintenanceInv
<1> DEFINE o == visit[t]
           w == o.work
<1>1. w \in Works /\ visit' = [visit EXCEPT ![t] = NoVisit] /\ UNCHANGED <<assetState, visits>>
  BY <1>0, VisitType DEF StartMaintenance, CancelMaintenance, DeleteMaintenance, CreateMaintenance,
                         Visiting, Carry
<1>2. PICK r \in Work : /\ work' = [work EXCEPT ![w] = r]
                        /\ IF work[w] = NoWork THEN r.next = NoWork /\ r.previous = NoWork
                           ELSE r.next = work[w].next /\ r.previous = work[w].previous
  <2>1. ASSUME StartMaintenance(t)
        PROVE  \E r \in Work : /\ work' = [work EXCEPT ![w] = r] /\ work[w] # NoWork
                               /\ r.next = work[w].next /\ r.previous = work[w].previous
    <3>1. work[w] \in Work /\ work[w] # NoWork
      BY <1>0, <1>1, <2>1 DEF StartMaintenance, Visible, MaintenanceTypeOK
    <3>2. o.from \in AssetStates \cup {Nowhere}
      BY <1>0, <2>1, VisitType DEF StartMaintenance, Visiting
    <3> DEFINE r == [work[w] EXCEPT !.status = "in_progress", !.before = o.from]
    <3>3. r \in Work /\ r.next = work[w].next /\ r.previous = work[w].previous
      BY <3>1, <3>2 DEF Work
    <3>4. work' = [work EXCEPT ![w] = r]  BY <1>0, <1>1, <2>1 DEF StartMaintenance, MaintenanceTypeOK
    <3> QED  BY <3>1, <3>3, <3>4
  <2>2. ASSUME CancelMaintenance(t)
        PROVE  \E r \in Work : /\ work' = [work EXCEPT ![w] = r] /\ work[w] # NoWork
                               /\ r.next = work[w].next /\ r.previous = work[w].previous
    <3>1. work[w] \in Work /\ work[w] # NoWork
      BY <1>0, <1>1, <2>2 DEF CancelMaintenance, Visible, MaintenanceTypeOK
    <3> DEFINE r == [work[w] EXCEPT !.status = "cancelled"]
    <3>2. r \in Work /\ r.next = work[w].next /\ r.previous = work[w].previous
      BY <3>1 DEF Work
    <3>3. work' = [work EXCEPT ![w] = r]  BY <2>2 DEF CancelMaintenance
    <3> QED  BY <3>1, <3>2, <3>3
  <2>3. ASSUME DeleteMaintenance(t)
        PROVE  \E r \in Work : /\ work' = [work EXCEPT ![w] = r] /\ work[w] # NoWork
                               /\ r.next = work[w].next /\ r.previous = work[w].previous
    <3>1. work[w] # NoWork
      BY <2>3 DEF DeleteMaintenance, Visiting, MaintenanceInv, DeletesFound
    <3>2. work[w] \in Work  BY <1>0, <1>1, <3>1 DEF MaintenanceTypeOK
    <3> DEFINE r == [work[w] EXCEPT !.deleted = TRUE]
    <3>3. r \in Work /\ r.next = work[w].next /\ r.previous = work[w].previous
      BY <3>2 DEF Work
    <3>4. work' = [work EXCEPT ![w] = r]  BY <2>3 DEF DeleteMaintenance
    <3> QED  BY <3>1, <3>3, <3>4
  <2>4. ASSUME NEW recurs \in BOOLEAN, CreateMaintenance(t, recurs)
        PROVE  \E r \in Work : /\ work' = [work EXCEPT ![w] = r] /\ work[w] = NoWork
                               /\ r.next = NoWork /\ r.previous = NoWork
    <3>1. o.from \in AssetStates \cup {Nowhere}
      BY <1>0, <2>4, VisitType DEF CreateMaintenance, Visiting
    <3> DEFINE r == NewWork("in_progress", recurs, o.from, NoWork)
    <3>2. r \in Work /\ r.next = NoWork /\ r.previous = NoWork  BY <3>1 DEF Work, NewWork
    <3>3. work' = [work EXCEPT ![w] = r] /\ work[w] = NoWork  BY <2>4 DEF CreateMaintenance
    <3> HIDE DEF r
    <3> QED  BY <3>2, <3>3
  <2> QED  BY <2>1, <2>2, <2>3, <2>4
<1>3. /\ work' \in [Works -> Work \cup {NoWork}] /\ Series'
      /\ \A v \in Works : work[v] # NoWork => work'[v] # NoWork
  BY <1>1, <1>2, WorkKeeps
<1>4. visit' \in [Technicians -> Visit] /\ DeletesFound'
  BY <1>1, <1>3, MaintenanceTypes, CarryKeeps
<1> QED  BY <1>1, <1>3, <1>4 DEF MaintenanceInv, MaintenanceTypeOK

\* A completion, with the visit that follows, keeps the invariant.
LEMMA CompletionKeeps ==
  ASSUME MaintenanceInv, NEW t \in Technicians, CompleteMaintenance(t)
  PROVE  MaintenanceInv'
<1>0. MaintenanceTypeOK  BY DEF MaintenanceInv
<1> DEFINE w == visit[t].work
           done == [work[w] EXCEPT !.status = "completed"]
           look == [op |-> "look", work |-> w]
<1>1. w \in Works /\ work[w] \in Work /\ work[w] # NoWork
  BY <1>0, VisitType DEF CompleteMaintenance, Visiting, Visible, MaintenanceTypeOK
<1>2. /\ done \in Work /\ done.next = work[w].next /\ done.previous = work[w].previous
  BY <1>1 DEF Work
<1>3. /\ work' \in [Works -> Work \cup {NoWork}] /\ Series'
      /\ \A v \in Works : work[v] # NoWork => work'[v] # NoWork
  <2>1. CASE done.recurs /\ done.next = NoWork
    <3>1. PICK v \in Works : /\ work[v] = NoWork
                             /\ work' = [work EXCEPT ![w] = [done EXCEPT !.next = v],
                                                     ![v] = NewWork("scheduled", TRUE, Nowhere, w)]
      BY <2>1 DEF CompleteMaintenance
    <3> DEFINE r == [done EXCEPT !.next = v]
               n == NewWork("scheduled", TRUE, Nowhere, w)
    <3>2. r \in Work /\ r.next = v /\ r.previous = work[w].previous  BY <1>2 DEF Work
    <3>3. n \in Work /\ n.next = NoWork /\ n.previous = w  BY <1>1 DEF Work, NewWork
    <3>4. work' = [work EXCEPT ![w] = r, ![v] = n]  BY <3>1
    <3>5. work[w].next = NoWork /\ work[v] = NoWork  BY <1>2, <2>1, <3>1
    <3> HIDE DEF r, n, done, w
    <3> QED  BY <1>1, <3>2, <3>3, <3>4, <3>5, BookingKeeps
  <2>2. CASE ~(done.recurs /\ done.next = NoWork)
    <3>1. work' = [work EXCEPT ![w] = done]  BY <2>2 DEF CompleteMaintenance
    <3> HIDE DEF done
    <3> QED  BY <1>1, <1>2, <3>1, WorkKeeps
  <2> QED  BY <2>1, <2>2
<1>4. look \in Visit /\ look.op = "look"  BY <1>1 DEF Visit
<1>5. /\ visit' = [visit EXCEPT ![t] = look] \/ visit' = [visit EXCEPT ![t] = NoVisit]
      /\ UNCHANGED <<assetState, visits>>
  BY DEF CompleteMaintenance, Carry
<1> HIDE DEF look
<1>6. visit' \in [Technicians -> Visit] /\ DeletesFound'
  BY <1>3, <1>4, <1>5, MaintenanceTypes, CarryKeeps
<1> QED  BY <1>3, <1>5, <1>6 DEF MaintenanceInv, MaintenanceTypeOK

\* Steps of nobody's request.
LEMMA DeskKeeps ==
  ASSUME MaintenanceInv,
         \/ \E w \in Works : UpdateMaintenance(w) \/ \E recurs \in BOOLEAN : ScheduleMaintenance(w, recurs)
         \/ \E to \in AssetStates : AssetMoves(to)
  PROVE  MaintenanceInv'
<1>0. MaintenanceTypeOK  BY DEF MaintenanceInv
<1>1. ASSUME NEW w \in Works, NEW r \in Work, work' = [work EXCEPT ![w] = r],
             IF work[w] = NoWork THEN r.next = NoWork /\ r.previous = NoWork
                                 ELSE r.next = work[w].next /\ r.previous = work[w].previous,
             UNCHANGED <<assetState, visit>>, visits' \in 0..MaxVisits
      PROVE  MaintenanceInv'
  <2>1. /\ work' \in [Works -> Work \cup {NoWork}] /\ Series'
        /\ \A v \in Works : work[v] # NoWork => work'[v] # NoWork
    BY <1>1, WorkKeeps
  <2>2. \A q \in Technicians : visit[q].op = "delete" => visit[q].work \in Works
    BY <1>0, VisitType DEF NoVisit
  <2>3. DeletesFound'  BY <1>1, <2>1, <2>2 DEF MaintenanceInv, DeletesFound
  <2> QED  BY <1>1, <2>1, <2>3 DEF MaintenanceInv, MaintenanceTypeOK
<1>2. ASSUME NEW w \in Works, UpdateMaintenance(w) PROVE MaintenanceInv'
  <2>1. work[w] # NoWork /\ work[w] \in Work
    BY <1>0, <1>2 DEF UpdateMaintenance, Visible, MaintenanceTypeOK
  <2> DEFINE r == [work[w] EXCEPT !.recurs = ~@]
  <2>2. r \in Work /\ r.next = work[w].next /\ r.previous = work[w].previous
    BY <2>1 DEF Work
  <2>3. work' = [work EXCEPT ![w] = r]  BY <1>2 DEF UpdateMaintenance
  <2> QED  BY <1>1, <1>2, <2>1, <2>2, <2>3, MaintenanceTypes DEF UpdateMaintenance
<1>3. ASSUME NEW w \in Works, NEW recurs \in BOOLEAN, ScheduleMaintenance(w, recurs) PROVE MaintenanceInv'
  <2> DEFINE r == NewWork("scheduled", recurs, Nowhere, NoWork)
  <2>1. r \in Work /\ r.next = NoWork /\ r.previous = NoWork  BY DEF Work, NewWork
  <2>2. work' = [work EXCEPT ![w] = r]  BY <1>3 DEF ScheduleMaintenance
  <2> HIDE DEF r
  <2> QED  BY <1>1, <1>3, <2>1, <2>2, MaintenanceTypes DEF ScheduleMaintenance
<1>4. ASSUME NEW to \in AssetStates, AssetMoves(to) PROVE MaintenanceInv'
  BY <1>4 DEF AssetMoves, MaintenanceInv, MaintenanceTypeOK, Series, DeletesFound
<1> QED  BY <1>2, <1>3, <1>4

\* Every step keeps what is said of the series.
LEMMA MaintenanceInductive == MaintenanceInv /\ [MaintenanceNext]_maintenanceVars => MaintenanceInv'
<1> SUFFICES ASSUME MaintenanceInv, [MaintenanceNext]_maintenanceVars PROVE MaintenanceInv'
  OBVIOUS
<1>1. CASE UNCHANGED maintenanceVars
  BY <1>1 DEF maintenanceVars, MaintenanceInv, MaintenanceTypeOK, Series, DeletesFound
<1> QED  BY <1>1, MoveKeeps, RecordKeeps, CompletionKeeps, DeskKeeps DEF MaintenanceNext

\* Every step keeps the types of the records of one asset, its state and what each visit carries.
THEOREM MaintenanceTypeCorrect == MaintenanceSpec => []MaintenanceTypeOK
<1>1. MaintenanceInv => MaintenanceTypeOK  BY DEF MaintenanceInv
<1> QED  BY <1>1, MaintenanceInitInv, MaintenanceInductive, PTL DEF MaintenanceSpec

\* Recurring work is one series: however many requests finish, start late or cancel the same
\* work, no two visits follow one, and a follow-up is named exactly by what it follows
\* (maintenance.service.ts:238).
THEOREM OneVisitFollows == MaintenanceSpec => []OneFollowUp
<1>1. ASSUME MaintenanceInv PROVE OneFollowUp
  <2> SUFFICES ASSUME NEW w \in Works, NEW v \in Works, work[w] # NoWork, work[v] # NoWork
               PROVE  work[w].next = v <=> work[v].previous = w
    BY DEF OneFollowUp
  <2>1. w # NoWork /\ v # NoWork  BY NoWorkAssumption
  <2> QED  BY <1>1, <2>1 DEF MaintenanceInv, Series
<1> QED  BY <1>1, MaintenanceInitInv, MaintenanceInductive, PTL DEF MaintenanceSpec

-------------------------------------------------------------------------------
(***************************************************************************)
(* ReportingLines.  A walk that has gone up from a new manager knows who   *)
(* cannot be above it (WalkHolds); with that, no group of people that is   *)
(* no larger than a walk is long manages itself (NoShortCycle).            *)
(***************************************************************************)

\* No group of at most MaxWalk of the people P manage each other under M.
NoShortCycle(M, P) ==
  \A group \in SUBSET P :
    group # {} /\ Cardinality(group) <= MaxWalk => \E p \in group : M[p] \notin group

\* The people V are one line from m up to at: whatever part of them has m and is not
\* all of them leads on to another.
OneLine(V, M, m, at) ==
  /\ V # {} => m \in V /\ \E v \in V : M[v] = at
  /\ \A part \in SUBSET V : m \in part /\ part # V => \E v \in part : M[v] \in V \ part

\* What a walk knows: V are the people it went past, M are the managers as they were when
\* it began.  Nobody was given a manager since, unless a write slipped in.
WalkKnows(w, V, M) ==
  /\ V \subseteq Present /\ Cardinality(V) = w.depth /\ w.person \notin V
  /\ NoShortCycle(M, Present)
  /\ \A x \in Staff : managerOf[x] \in {M[x], NoOne}
  /\ w.at # NoOne => /\ w.at \in Present \ V /\ w.manager \in V \cup {w.at}
                     /\ \A v \in V : M[v] \in V \cup {w.at}
                     /\ OneLine(V, M, w.manager, w.at)
  /\ w.at = NoOne => /\ w.manager \in V
                     /\ \A v \in V : managerOf[v] \in V \cup {NoOne}

WalkHolds(w) ==
  /\ w.op \in {"walk", "save"} =>
       /\ {w.person, w.manager} \subseteq Present
       /\ \E V \in SUBSET Staff, M \in [Staff -> Staff \cup {NoOne}] : WalkKnows(w, V, M)
  /\ w.op = "save" => WalkedEnough(w)
  /\ w.op = "delete" => w.person \in Present /\ \A q \in Present : managerOf[q] # w.person
  /\ w.op = "restore" => w.person \in gone /\ (w.orphaned <=> managerOf[w.person] \notin Present)

ManagersPresent == \A p \in Present : managerOf[p] \in Present \cup {NoOne}

LinesInv ==
  /\ ReportingTypeOK
  /\ ~linesSlipped => /\ ManagersPresent /\ NoShortCycle(managerOf, Present)
                      /\ \A o \in Officers : WalkHolds(walk[o])

-----------------------------------------------------------------------------
\* What a walk carries, by what it is about to do.
LEMMA WalkTypes ==
  ASSUME NEW w \in Walk
  PROVE  /\ w.op \in {"none", "walk", "save", "delete", "restore"}
         /\ w.op = "none" <=> w = NoWalk
         /\ w.op \in {"walk", "save"} =>
              /\ w \in [op : {"walk", "save"}, person : Staff, manager : Staff, at : Staff \cup {NoOne},
                        depth : 0..MaxWalk]
              /\ w.person \in Staff /\ w.manager \in Staff /\ w.at \in Staff \cup {NoOne}
              /\ w.depth \in 0..MaxWalk
         /\ w.op \in {"delete", "restore"} => w.person \in Staff
         /\ w.op = "restore" => w.orphaned \in BOOLEAN
<1>0. NoWalk.op = "none"  BY DEF NoWalk
<1>1. CASE w = NoWalk  BY <1>0, <1>1
<1>2. CASE w \in [op : {"walk", "save"}, person : Staff, manager : Staff, at : Staff \cup {NoOne},
                  depth : 0..MaxWalk]
  <2>1. w.op \in {"walk", "save"}  BY <1>2
  <2> QED  BY <1>0, <1>2, <2>1
<1>3. CASE w \in [op : {"delete"}, person : Staff]
  <2>1. w.op = "delete" /\ w.person \in Staff  BY <1>3
  <2> QED  BY <1>0, <2>1
<1>4. CASE w \in [op : {"restore"}, person : Staff, orphaned : BOOLEAN]
  <2>1. w.op = "restore" /\ w.person \in Staff /\ w.orphaned \in BOOLEAN  BY <1>4
  <2> QED  BY <1>0, <2>1
<1> QED  BY <1>1, <1>2, <1>3, <1>4 DEF Walk

\* A desk without a request knows nothing.
LEMMA NoWalkHolds == NoWalk \in Walk /\ NoWalk.op = "none" /\ WalkHolds(NoWalk)
<1>1. NoWalk \in Walk /\ NoWalk.op = "none"  BY DEF NoWalk, Walk
<1> QED  BY <1>1 DEF WalkHolds

\* The types, from the invariant.
LEMMA LinesFacts ==
  ASSUME LinesInv
  PROVE  /\ managerOf \in [Staff -> Staff \cup {NoOne}] /\ gone \subseteq Staff
         /\ walk \in [Officers -> Walk] /\ linesSlipped \in BOOLEAN
         /\ Present \subseteq Staff /\ NoOne \notin Staff /\ MaxWalk \in Nat /\ IsFiniteSet(Staff)
BY ReportingLinesAssumption DEF LinesInv, ReportingTypeOK, Present

\* A request that reads goes on as it may.
LEMMA ReadsKeep ==
  ASSUME LinesInv, NEW o \in Officers, NEW v \in Walk, Reads(o, v),
         ~linesSlipped => WalkHolds(v)
  PROVE  LinesInv'
<1>1. UNCHANGED <<managerOf, gone, linesSlipped>> /\ walk' = [walk EXCEPT ![o] = v]
  BY DEF Reads, Stride
<1>2. \A q \in Officers : walk'[q] = IF q = o THEN v ELSE walk[q]  BY <1>1, LinesFacts
<1>3. ReportingTypeOK'  BY <1>1, LinesFacts DEF ReportingTypeOK
<1>4. Present' = Present  BY <1>1 DEF Present
<1>5. ASSUME NEW w PROVE WalkHolds(w)' <=> WalkHolds(w)
  BY <1>1, <1>4 DEF WalkHolds, WalkKnows, NoShortCycle
<1>6. ASSUME ~linesSlipped, NEW q \in Officers PROVE WalkHolds(walk[q])'
  <2>1. PICK w : w = walk'[q]  OBVIOUS
  <2>2. WalkHolds(w)  BY <1>2, <1>6, <2>1 DEF LinesInv
  <2>3. WalkHolds(w)'  BY <1>5, <2>2
  <2> QED  BY <2>1, <2>3 DEF WalkHolds, WalkKnows
<1> QED  BY <1>1, <1>3, <1>4, <1>6 DEF LinesInv, ManagersPresent, NoShortCycle

\* A request that writes beside nobody leaves lines that lead up.
LEMMA WritesKeep ==
  ASSUME LinesInv, NEW o \in Officers, Writes(o),
         managerOf' \in [Staff -> Staff \cup {NoOne}], gone' \subseteq Staff,
         ~linesSlipped => ManagersPresent' /\ NoShortCycle(managerOf, Present)'
  PROVE  LinesInv'
<1>1. walk' = [walk EXCEPT ![o] = NoWalk]
      /\ linesSlipped' = (linesSlipped \/ \E q \in Officers \ {o} : walk[q] # NoWalk)
  BY DEF Writes, Stride
<1>2. ReportingTypeOK'
  <2>1. linesSlipped' \in BOOLEAN  BY <1>1
  <2> QED  BY <1>1, <2>1, LinesFacts, NoWalkHolds DEF ReportingTypeOK
<1>3. ASSUME ~linesSlipped', NEW q \in Officers PROVE WalkHolds(walk[q])'
  <2>1. walk'[q] = NoWalk  BY <1>1, <1>3, LinesFacts
  <2> QED  BY <2>1, NoWalkHolds DEF WalkHolds
<1> QED  BY <1>1, <1>2, <1>3 DEF LinesInv

\* A manager who is taken from somebody leaves every request what it knows.
LEMMA ClearKeeps ==
  ASSUME LinesInv, NEW p \in Staff, ClearManager(p)
  PROVE  LinesInv'
<1>1. /\ p \in Present /\ managerOf' = [managerOf EXCEPT ![p] = NoOne]
      /\ UNCHANGED <<gone, walk, linesSlipped>>
  BY DEF ClearManager
<1>2. ReportingTypeOK'  BY <1>1, LinesFacts DEF ReportingTypeOK
<1>3. Present' = Present /\ p \notin gone  BY <1>1 DEF Present
<1>4. \A x \in Staff : managerOf'[x] = IF x = p THEN NoOne ELSE managerOf[x]  BY <1>1, LinesFacts
<1>5. ManagersPresent => ManagersPresent'  BY <1>3, <1>4, LinesFacts DEF ManagersPresent
<1>6. ASSUME NoShortCycle(managerOf, Present) PROVE NoShortCycle(managerOf, Present)'
  <2> SUFFICES ASSUME NEW group \in SUBSET Present, group # {}, Cardinality(group) <= MaxWalk
               PROVE  \E x \in group : managerOf'[x] \notin group
    BY <1>3 DEF NoShortCycle
  <2>1. PICK x \in group : managerOf[x] \notin group  BY <1>6 DEF NoShortCycle
  <2>2. managerOf'[x] \notin group  BY <1>4, <2>1, LinesFacts
  <2> QED  BY <2>2
<1>7. ASSUME NEW w \in Walk, WalkHolds(w) PROVE WalkHolds(w)'
  <2>1. ASSUME NEW V \in SUBSET Staff, NEW M \in [Staff -> Staff \cup {NoOne}], WalkKnows(w, V, M)
        PROVE  WalkKnows(w, V, M)'
    <3>1. \A x \in Staff : managerOf'[x] \in {M[x], NoOne}  BY <1>4, <2>1 DEF WalkKnows
    <3>2. w.at = NoOne => \A v \in V : managerOf'[v] \in V \cup {NoOne}  BY <1>4, <2>1 DEF WalkKnows
    <3>3. NoShortCycle(M, Present)'  BY <1>3, <2>1 DEF WalkKnows, NoShortCycle
    <3> QED  BY <1>3, <2>1, <3>1, <3>2, <3>3 DEF WalkKnows
  <2>2. w.op \in {"walk", "save"} =>
          /\ {w.person, w.manager} \subseteq Present'
          /\ \E V \in SUBSET Staff, M \in [Staff -> Staff \cup {NoOne}] : WalkKnows(w, V, M)'
    BY <1>3, <1>7, <2>1 DEF WalkHolds
  <2>3. w.op = "delete" => w.person \in Present' /\ \A q \in Present' : managerOf'[q] # w.person
    BY <1>3, <1>4, <1>7, LinesFacts DEF WalkHolds
  <2>4. w.op = "restore" => w.person \in gone' /\ (w.orphaned <=> managerOf'[w.person] \notin Present')
    <3>1. w.op = "restore" => w.person # p /\ w.person \in Staff  BY <1>3, <1>7, LinesFacts DEF WalkHolds
    <3> QED  BY <1>1, <1>3, <1>4, <1>7, <3>1 DEF WalkHolds
  <2> QED  BY <1>7, <2>2, <2>3, <2>4 DEF WalkHolds
<1>8. ASSUME ~linesSlipped, NEW q \in Officers PROVE WalkHolds(walk[q])'
  <2>1. PICK w \in Walk : w = walk[q]  BY LinesFacts
  <2>2. WalkHolds(w)'  BY <1>7, <1>8, <2>1 DEF LinesInv
  <2>3. walk'[q] = w  BY <1>1, <2>1
  <2> QED  BY <2>2, <2>3 DEF WalkHolds, WalkKnows
<1> QED  BY <1>1, <1>2, <1>5, <1>6, <1>8 DEF LinesInv

\* What a request finds, it may go on with.
LEMMA FindsKeep ==
  ASSUME LinesInv, NEW o \in Officers, NEW p \in Staff,
         \/ CountReports(o, p) \/ FindDeletedPerson(o, p) \/ OfficerLeaves(o)
         \/ \E m \in Staff : FindForManager(o, p, m)
  PROVE  LinesInv'
<1>1. ASSUME CountReports(o, p) PROVE LinesInv'
  <2> DEFINE v == [op |-> "delete", person |-> p]
  <2>1. v \in Walk /\ v.op = "delete" /\ v.person = p  BY DEF Walk
  <2>2. p \in Present /\ (\A q \in Present : managerOf[q] # p) /\ Reads(o, v)
    BY <1>1 DEF CountReports
  <2> HIDE DEF v
  <2>3. WalkHolds(v)  BY <2>1, <2>2 DEF WalkHolds
  <2> QED  BY <2>1, <2>2, <2>3, ReadsKeep
<1>2. ASSUME FindDeletedPerson(o, p) PROVE LinesInv'
  <2>1. PICK b \in BOOLEAN : b = (managerOf[p] \notin Present)  OBVIOUS
  <2>2. PICK v : v = [op |-> "restore", person |-> p, orphaned |-> b]  OBVIOUS
  <2>3. v \in Walk /\ v.op = "restore" /\ v.person = p /\ v.orphaned = b  BY <2>2 DEF Walk
  <2>4. p \in gone /\ Reads(o, [op |-> "restore", person |-> p, orphaned |-> managerOf[p] \notin Present])
    BY <1>2 DEF FindDeletedPerson
  <2>5. v = [op |-> "restore", person |-> p, orphaned |-> managerOf[p] \notin Present]  BY <2>1, <2>2
  <2>6. WalkHolds(v)  BY <2>1, <2>3, <2>4 DEF WalkHolds
  <2> QED  BY <2>3, <2>4, <2>5, <2>6, ReadsKeep
<1>3. ASSUME OfficerLeaves(o) PROVE LinesInv'
  BY <1>3, NoWalkHolds, ReadsKeep DEF OfficerLeaves
<1>4. ASSUME NEW m \in Staff, FindForManager(o, p, m) PROVE LinesInv'
  <2>1. PICK v : v = [op |-> "walk", person |-> p, manager |-> m, at |-> m, depth |-> 0]  OBVIOUS
  <2>2. /\ v \in Walk /\ v.op = "walk" /\ v.person = p /\ v.manager = m /\ v.at = m /\ v.depth = 0
    BY <2>1, ReportingLinesAssumption DEF Walk
  <2>3. Reads(o, v) /\ {p, m} \subseteq Present /\ p # m  BY <1>4, <2>1 DEF FindForManager
  <2>4. m # NoOne  BY ReportingLinesAssumption
  <2>5. ~linesSlipped => NoShortCycle(managerOf, Present)  BY DEF LinesInv
  <2>6. ASSUME ~linesSlipped PROVE WalkHolds(v)
    <3>1. OneLine({}, managerOf, m, m)  BY DEF OneLine
    <3>2. WalkKnows(v, {}, managerOf)  BY <2>2, <2>3, <2>4, <2>5, <2>6, <3>1, FS_EmptySet DEF WalkKnows
    <3>3. managerOf \in [Staff -> Staff \cup {NoOne}] /\ {} \in SUBSET Staff  BY LinesFacts
    <3> QED  BY <2>2, <2>3, <3>2, <3>3 DEF WalkHolds
  <2> QED  BY <2>2, <2>3, <2>6, ReadsKeep
<1> QED  BY <1>1, <1>2, <1>3, <1>4

\* One level up: either the top is near, or somebody new is met.
LEMMA WalkUpKeeps ==
  ASSUME LinesInv, NEW o \in Officers, WalkUp(o)
  PROVE  LinesInv'
<1>1. PICK w \in Walk : w = walk[o]  BY LinesFacts
<1>2. w.op = "walk"  BY <1>1 DEF WalkUp
<1>3. /\ w \in [op : {"walk", "save"}, person : Staff, manager : Staff, at : Staff \cup {NoOne},
                 depth : 0..MaxWalk]
      /\ w.person \in Staff /\ w.manager \in Staff /\ w.at \in Staff \cup {NoOne}
      /\ w.depth \in 0..MaxWalk
  BY <1>2, WalkTypes
<1>4. ~linesSlipped => WalkHolds(w)  BY <1>1 DEF LinesInv
<1>5. CASE w.at = NoOne \/ w.depth = MaxWalk
  <2>1. PICK v : v = [w EXCEPT !.op = "save"]  OBVIOUS
  <2>2. Reads(o, v)  BY <1>1, <1>5, <2>1 DEF WalkUp, WalkedEnough
  <2>3. /\ v \in [op : {"walk", "save"}, person : Staff, manager : Staff, at : Staff \cup {NoOne},
                  depth : 0..MaxWalk]
        /\ v.op = "save" /\ v.person = w.person /\ v.manager = w.manager /\ v.at = w.at /\ v.depth = w.depth
    BY <1>3, <2>1
  <2>4. v \in Walk  BY <2>3 DEF Walk
  <2>5. ASSUME ~linesSlipped PROVE WalkHolds(v)
    <3>1. PICK V \in SUBSET Staff, M \in [Staff -> Staff \cup {NoOne}] : WalkKnows(w, V, M)
      BY <1>2, <1>4, <2>5 DEF WalkHolds
    <3>2. WalkKnows(v, V, M)  BY <2>3, <3>1 DEF WalkKnows
    <3>3. WalkedEnough(v)  BY <1>5, <2>3 DEF WalkedEnough
    <3>4. {w.person, w.manager} \subseteq Present  BY <1>2, <1>4, <2>5 DEF WalkHolds
    <3> QED  BY <2>3, <3>1, <3>2, <3>3, <3>4 DEF WalkHolds
  <2> QED  BY <2>2, <2>4, <2>5, ReadsKeep
<1>6. CASE w.at # NoOne /\ w.depth # MaxWalk /\ w.at = w.person
  <2>1. Reads(o, NoWalk)  BY <1>1, <1>6 DEF WalkUp, WalkedEnough
  <2> QED  BY <2>1, NoWalkHolds, ReadsKeep
<1>7. CASE w.at # NoOne /\ w.depth # MaxWalk /\ w.at # w.person
  <2>1. PICK a : a = IF w.at \in Present THEN managerOf[w.at] ELSE NoOne  OBVIOUS
  <2>2. a \in Staff \cup {NoOne}  BY <2>1, LinesFacts
  <2>3. w.depth + 1 \in 0..MaxWalk  BY <1>3, <1>7, LinesFacts
  <2>4. PICK v : v = [w EXCEPT !.at = a, !.depth = w.depth + 1]  OBVIOUS
  <2>5. Reads(o, v)  BY <1>1, <1>7, <2>1, <2>4 DEF WalkUp, WalkedEnough
  <2>6. /\ v \in [op : {"walk", "save"}, person : Staff, manager : Staff, at : Staff \cup {NoOne},
                  depth : 0..MaxWalk]
        /\ v.op = "walk" /\ v.person = w.person /\ v.manager = w.manager /\ v.at = a
        /\ v.depth = w.depth + 1
    BY <1>2, <1>3, <2>2, <2>3, <2>4
  <2>7. v \in Walk  BY <2>6 DEF Walk
  <2>8. ASSUME ~linesSlipped PROVE WalkHolds(v)
    <3>1. PICK V \in SUBSET Staff, M \in [Staff -> Staff \cup {NoOne}] : WalkKnows(w, V, M)
      BY <1>2, <1>4, <2>8 DEF WalkHolds
    <3>2. PICK U \in SUBSET Staff : U = V \cup {w.at}  BY <1>3, <1>7
    <3>3. /\ w.at \in Present /\ w.at \notin V /\ U \subseteq Present /\ w.person \notin U
          /\ w.manager \in U /\ \A u \in V : M[u] \in U
      BY <1>7, <3>1, <3>2 DEF WalkKnows
    <3>4. a = managerOf[w.at] /\ a \in {M[w.at], NoOne} /\ a \in Present \cup {NoOne}
      BY <1>3, <1>7, <2>1, <2>8, <3>1, <3>3 DEF WalkKnows, LinesInv, ManagersPresent
    <3>5. Cardinality(U) = w.depth + 1
      <4>1. IsFiniteSet(V) /\ Cardinality(V) = w.depth  BY <3>1, FS_Subset, LinesFacts DEF WalkKnows
      <4> QED  BY <3>2, <3>3, <4>1, FS_AddElement
    <3>6. ASSUME a # NoOne PROVE a \notin U /\ \A u \in U : M[u] \in U \cup {a}
      <4>1. \A u \in U : M[u] \in U \cup {a}  BY <3>2, <3>3, <3>4, <3>6
      <4>2. U # {} /\ NoShortCycle(M, Present)  BY <3>1, <3>2 DEF WalkKnows
      <4>3. Cardinality(U) <= MaxWalk  BY <2>3, <3>5, LinesFacts
      <4>4. a \in U => \A u \in U : M[u] \in U  BY <4>1
      <4> QED  BY <3>3, <4>1, <4>2, <4>3, <4>4 DEF NoShortCycle
    <3>7. ASSUME a # NoOne PROVE OneLine(U, M, w.manager, a)
      <4>1. OneLine(V, M, w.manager, w.at) /\ w.manager \in V \cup {w.at}
        BY <1>7, <3>1 DEF WalkKnows
      <4>2. M[w.at] = a  BY <3>4, <3>7
      <4>3. ASSUME NEW part \in SUBSET U, w.manager \in part, part # U
            PROVE  \E x \in part : M[x] \in U \ part
        <5>1. PICK old \in SUBSET V : old = part \cap V  OBVIOUS
        <5>2. CASE old = V
          <6>1. V # {}  BY <3>2, <4>1, <4>3
          <6>2. PICK x \in V : M[x] = w.at  BY <4>1, <6>1 DEF OneLine
          <6>3. w.at \notin part  BY <3>2, <4>3, <5>1, <5>2
          <6> QED  BY <3>2, <5>1, <5>2, <6>2, <6>3
        <5>3. CASE old # V
          <6>1. w.manager \in old
            <7>1. V # {}  BY <5>3
            <7> QED  BY <4>1, <4>3, <5>1, <7>1 DEF OneLine
          <6>2. PICK x \in old : M[x] \in V \ old  BY <4>1, <5>3, <6>1 DEF OneLine
          <6> QED  BY <3>2, <5>1, <6>2
        <5> QED  BY <5>2, <5>3
      <4> QED  BY <3>2, <3>3, <4>2, <4>3 DEF OneLine
    <3>8. ASSUME a = NoOne PROVE \A u \in U : managerOf[u] \in U \cup {NoOne}
      BY <3>1, <3>2, <3>3, <3>4, <3>8 DEF WalkKnows
    <3>9. NoShortCycle(M, Present) /\ \A x \in Staff : managerOf[x] \in {M[x], NoOne}
      BY <3>1 DEF WalkKnows
    <3>10. WalkKnows(v, U, M)  BY <2>6, <3>3, <3>4, <3>5, <3>6, <3>7, <3>8, <3>9 DEF WalkKnows
    <3>11. {w.person, w.manager} \subseteq Present  BY <1>2, <1>4, <2>8 DEF WalkHolds
    <3> QED  BY <2>6, <3>10, <3>11 DEF WalkHolds
  <2> QED  BY <2>5, <2>7, <2>8, ReadsKeep
<1> QED  BY <1>5, <1>6, <1>7

\* A line to a manager whose walk did not meet the person closes no group.
LEMMA UpdateKeeps ==
  ASSUME LinesInv, NEW o \in Officers, UpdateManager(o)
  PROVE  LinesInv'
<1>1. PICK w \in Walk : w = walk[o]  BY LinesFacts
<1>2. /\ w.op = "save" /\ managerOf' = [managerOf EXCEPT ![w.person] = w.manager] /\ Writes(o)
      /\ gone' = gone
  BY <1>1 DEF UpdateManager
<1>3. w.person \in Staff /\ w.manager \in Staff  BY <1>2, WalkTypes
<1>4. \A x \in Staff : managerOf'[x] = IF x = w.person THEN w.manager ELSE managerOf[x]
  BY <1>2, LinesFacts
<1>5. Present' = Present  BY <1>2 DEF Present
<1>6. ASSUME ~linesSlipped PROVE ManagersPresent' /\ NoShortCycle(managerOf, Present)'
  <2>1. WalkHolds(w) /\ ManagersPresent /\ NoShortCycle(managerOf, Present)  BY <1>1, <1>6 DEF LinesInv
  <2>2. PICK V \in SUBSET Staff, M \in [Staff -> Staff \cup {NoOne}] : WalkKnows(w, V, M)
    BY <1>2, <2>1 DEF WalkHolds
  <2>3. WalkedEnough(w) /\ {w.person, w.manager} \subseteq Present  BY <1>2, <2>1 DEF WalkHolds
  <2>4. /\ V \subseteq Present /\ w.person \notin V
        /\ \A x \in Staff : managerOf[x] \in {M[x], NoOne}
    BY <2>2 DEF WalkKnows
  <2>5. ManagersPresent'  BY <1>4, <1>5, <2>1, <2>3, LinesFacts DEF ManagersPresent
  <2>6. ASSUME NEW group \in SUBSET Present, group # {}, Cardinality(group) <= MaxWalk,
               \A x \in group : managerOf'[x] \in group
        PROVE  FALSE
    <3>1. IsFiniteSet(group) /\ Cardinality(group) \in Nat /\ MaxWalk \in Nat
      BY FS_Subset, FS_CardinalityType, LinesFacts
    <3>2. CASE w.person \notin group
      <4>1. \A x \in group : managerOf[x] \in group  BY <1>4, <2>6, <3>2, LinesFacts
      <4> QED  BY <2>1, <2>6, <4>1 DEF NoShortCycle
    <3>3. CASE w.person \in group
      <4>1. PICK part \in SUBSET Present : part = group \cap V  OBVIOUS
      <4>2. w.manager \in group  BY <1>3, <1>4, <2>6, <3>3
      <4>3. ASSUME NEW x \in part
            PROVE  x \in V /\ managerOf[x] \in group /\ managerOf[x] = M[x] /\ managerOf[x] # NoOne
        <5>1. x \in Staff /\ x # w.person /\ x \in V /\ x \in group  BY <2>4, <4>1, LinesFacts
        <5>2. managerOf[x] = managerOf'[x] /\ managerOf'[x] \in group  BY <1>4, <2>6, <5>1
        <5>3. managerOf[x] # NoOne  BY <5>2, LinesFacts
        <5> QED  BY <2>4, <5>1, <5>2, <5>3
      <4>4. CASE w.at = NoOne
        <5>1. w.manager \in part /\ \A v \in V : managerOf[v] \in V \cup {NoOne}
          BY <2>2, <4>1, <4>2, <4>4 DEF WalkKnows
        <5>2. \A x \in part : managerOf[x] \in part  BY <4>1, <4>3, <5>1
        <5>3. Cardinality(part) <= MaxWalk
          <6>1. Cardinality(part) <= Cardinality(group) /\ Cardinality(part) \in Nat
            <7>1. part \subseteq group  BY <4>1
            <7> QED  BY ONLY <3>1, <7>1, FS_Subset, FS_CardinalityType
          <6> QED  BY <2>6, <3>1, <6>1
        <5> QED  BY <2>1, <5>1, <5>2, <5>3 DEF NoShortCycle
      <4>5. CASE w.at # NoOne
        <5>1. Cardinality(V) = MaxWalk /\ OneLine(V, M, w.manager, w.at) /\ IsFiniteSet(V)
          BY <2>2, <2>3, <4>5, FS_Subset, LinesFacts DEF WalkKnows, WalkedEnough
        <5>2. V # {}
          <6>1. V = {} => Cardinality(V) = 0  BY FS_EmptySet
          <6>2. Cardinality(group) # 0  BY <2>6, <3>1, FS_EmptySet
          <6> QED  BY <2>6, <3>1, <5>1, <6>1, <6>2
        <5>3. part = V
          <6>1. w.manager \in part  BY <4>1, <4>2, <5>1, <5>2 DEF OneLine
          <6>2. ~ \E x \in part : M[x] \in V \ part  BY <4>1, <4>3
          <6> QED  BY <4>1, <5>1, <6>1, <6>2 DEF OneLine
        <5>4. Cardinality(V \cup {w.person}) = MaxWalk + 1  BY <2>4, <5>1, FS_AddElement
        <5>5. Cardinality(V \cup {w.person}) <= Cardinality(group)
          <6>1. V \cup {w.person} \subseteq group  BY <3>3, <4>1, <5>3
          <6> QED  BY ONLY <3>1, <6>1, FS_Subset
        <5> QED  BY <2>6, <3>1, <5>4, <5>5
      <4> QED  BY <4>4, <4>5
    <3> QED  BY <3>2, <3>3
  <2> QED  BY <1>5, <2>5, <2>6 DEF NoShortCycle
<1>7. managerOf' \in [Staff -> Staff \cup {NoOne}]  BY <1>2, <1>3, LinesFacts
<1> QED  BY <1>2, <1>6, <1>7, LinesFacts, WritesKeep

\* A deletion keeps the invariant: nobody has this manager any more.
LEMMA DeleteKeeps ==
  ASSUME LinesInv, NEW o \in Officers, DeleteManager(o)
  PROVE  LinesInv'
<1>1. PICK w \in Walk : w = walk[o]  BY LinesFacts
<1>2. w.op = "delete" /\ gone' = gone \cup {w.person} /\ Writes(o) /\ managerOf' = managerOf
  BY <1>1 DEF DeleteManager
<1>3. w.person \in Staff  BY <1>2, WalkTypes
<1>4. Present' = Present \ {w.person}  BY <1>2 DEF Present
<1>5. ASSUME ~linesSlipped PROVE ManagersPresent' /\ NoShortCycle(managerOf, Present)'
  <2>1. WalkHolds(w) /\ ManagersPresent /\ NoShortCycle(managerOf, Present)  BY <1>1, <1>5 DEF LinesInv
  <2>2. \A q \in Present : managerOf[q] # w.person  BY <1>2, <2>1 DEF WalkHolds
  <2> QED  BY <1>2, <1>4, <2>1, <2>2 DEF ManagersPresent, NoShortCycle
<1> QED  BY <1>2, <1>3, <1>5, LinesFacts, WritesKeep

\* Whoever comes back finds a manager who is there, or has none.
LEMMA RestoreKeeps ==
  ASSUME LinesInv, NEW o \in Officers, RestoreManaged(o)
  PROVE  LinesInv'
<1>1. PICK w \in Walk : w = walk[o]  BY LinesFacts
<1>2. /\ w.op = "restore" /\ gone' = gone \ {w.person} /\ Writes(o)
      /\ managerOf' = IF w.orphaned THEN [managerOf EXCEPT ![w.person] = NoOne] ELSE managerOf
  BY <1>1 DEF RestoreManaged
<1>3. w.person \in Staff  BY <1>2, WalkTypes
<1>4. Present' = Present \cup {w.person}  BY <1>2, <1>3 DEF Present
<1>5. managerOf' \in [Staff -> Staff \cup {NoOne}] /\ \A x \in Staff : x # w.person => managerOf'[x] = managerOf[x]
  BY <1>2, LinesFacts
<1>6. ASSUME ~linesSlipped PROVE ManagersPresent' /\ NoShortCycle(managerOf, Present)'
  <2>1. WalkHolds(w) /\ ManagersPresent /\ NoShortCycle(managerOf, Present)  BY <1>1, <1>6 DEF LinesInv
  <2>2. w.person \notin Present /\ (w.orphaned <=> managerOf[w.person] \notin Present)
    BY <1>2, <2>1 DEF WalkHolds, Present
  <2>3. managerOf'[w.person] \in Present \cup {NoOne}  BY <1>2, <1>3, <2>2, LinesFacts
  <2>4. ManagersPresent'  BY <1>4, <1>5, <2>1, <2>3, LinesFacts DEF ManagersPresent
  <2>5. ASSUME NEW group \in SUBSET Present', group # {}, Cardinality(group) <= MaxWalk,
               \A x \in group : managerOf'[x] \in group
        PROVE  FALSE
    <3>0. Cardinality(group \ {w.person}) <= MaxWalk
      <4>1. IsFiniteSet(group) /\ MaxWalk \in Nat /\ group \ {w.person} \subseteq group
        <5>1. group \subseteq Staff  BY <1>3, <1>4, LinesFacts
        <5> QED  BY <5>1, FS_Subset, LinesFacts
      <4>2. /\ Cardinality(group \ {w.person}) <= Cardinality(group)
            /\ Cardinality(group \ {w.person}) \in Nat /\ Cardinality(group) \in Nat
        BY ONLY <4>1, FS_Subset, FS_CardinalityType
      <4> QED  BY <2>5, <4>1, <4>2
    <3>1. PICK rest \in SUBSET Present : rest = group \ {w.person}  BY <1>4
    <3>2. NoOne \notin group  BY <1>3, <1>4, <2>5, LinesFacts
    <3>3. ASSUME NEW x \in rest PROVE managerOf[x] \in rest
      <4>1. x \in Present /\ x \in Staff /\ x # w.person /\ x \in group  BY <2>2, <3>1, LinesFacts
      <4>2. managerOf[x] = managerOf'[x] /\ managerOf'[x] \in group  BY <1>5, <2>5, <4>1
      <4>3. managerOf[x] \in Present  BY <2>1, <3>2, <4>1, <4>2 DEF ManagersPresent
      <4> QED  BY <2>2, <3>1, <4>2, <4>3
    <3>4. rest = {}  BY <2>1, <3>0, <3>1, <3>3 DEF NoShortCycle
    <3>5. w.person \in group  BY <2>5, <3>1, <3>4
    <3>6. managerOf'[w.person] \in group /\ managerOf'[w.person] \in Present
      BY <2>3, <2>5, <3>2, <3>5
    <3> QED  BY <2>2, <3>1, <3>4, <3>6
  <2> QED  BY <2>4, <2>5 DEF NoShortCycle
<1>7. gone' \subseteq Staff  BY <1>2, LinesFacts
<1> QED  BY <1>2, <1>5, <1>6, <1>7, WritesKeep

\* The invariant holds at first.
LEMMA LinesInitInv == ReportingInit => LinesInv
<1> SUFFICES ASSUME ReportingInit PROVE LinesInv  OBVIOUS
<1>1. ReportingTypeOK
  <2>1. linesSlipped = FALSE  BY DEF ReportingInit
  <2>2. linesSlipped \in BOOLEAN  BY <2>1
  <2>3. walk \in [Officers -> Walk]  BY NoWalkHolds DEF ReportingInit
  <2>4. managerOf \in [Staff -> Staff \cup {NoOne}] /\ gone \subseteq Staff  BY DEF ReportingInit
  <2> QED  BY <2>2, <2>3, <2>4 DEF ReportingTypeOK
<1>2. \A x \in Staff : managerOf[x] = NoOne  BY DEF ReportingInit
<1>3. Present \subseteq Staff /\ NoOne \notin Staff  BY ReportingLinesAssumption DEF Present
<1>4. ManagersPresent /\ NoShortCycle(managerOf, Present)  BY <1>2, <1>3 DEF ManagersPresent, NoShortCycle
<1>5. \A o \in Officers : walk[o] = NoWalk  BY DEF ReportingInit
<1> QED  BY <1>1, <1>4, <1>5, NoWalkHolds DEF LinesInv

\* The invariant is inductive.
LEMMA LinesInductive == LinesInv /\ [ReportingNext]_reportingVars => LinesInv'
<1> SUFFICES ASSUME LinesInv, [ReportingNext]_reportingVars PROVE LinesInv'  OBVIOUS
<1>1. CASE UNCHANGED reportingVars
  <2>1. /\ managerOf' = managerOf /\ gone' = gone /\ walk' = walk /\ linesSlipped' = linesSlipped
        /\ Present' = Present
    BY <1>1 DEF reportingVars, Present
  <2>2. ReportingTypeOK'  BY <2>1, LinesFacts DEF ReportingTypeOK
  <2>3. ASSUME NEW o \in Officers, WalkHolds(walk[o]) PROVE WalkHolds(walk[o])'
    BY <2>1, <2>3 DEF WalkHolds, WalkKnows, OneLine, NoShortCycle
  <2> QED  BY <2>1, <2>2, <2>3 DEF LinesInv, ManagersPresent, NoShortCycle
<1>2. ASSUME NEW o \in Officers, OfficerLeaves(o) PROVE LinesInv'
  BY <1>2, NoWalkHolds, ReadsKeep DEF OfficerLeaves
<1>3. CASE ReportingNext
  BY <1>2, <1>3, FindsKeep, WalkUpKeeps, UpdateKeeps, DeleteKeeps, RestoreKeeps, ClearKeeps DEF ReportingNext
<1> QED  BY <1>1, <1>3

\* "A cycle makes every org-chart query hang" (people.service.ts:259): however many people
\* and requests there are and however long a walk may be, everybody's manager is there and
\* no group of people that is no larger than a walk is long manages itself, as long as no
\* write fell between the reads and the write of another request.  A larger group may: a
\* chain that is longer is saved unseen (line 265).
THEOREM LinesStayUp == ReportingSpec => []LinesLeadUp
<1>1. LinesInv => LinesLeadUp  BY DEF LinesInv, LinesLeadUp, ManagersPresent, NoShortCycle
<1> QED  BY <1>1, LinesInductive, LinesInitInv, PTL DEF ReportingSpec

\* A read keeps the types, when what it leaves its request with is a walk.
LEMMA StepReadsTyped ==
  ASSUME ReportingTypeOK, NEW o \in Officers, NEW v \in Walk, Reads(o, v)
  PROVE  ReportingTypeOK'
BY DEF Reads, Stride, ReportingTypeOK

\* So does a write, when it leaves a manager or nobody to everybody.
LEMMA WritesTyped ==
  ASSUME ReportingTypeOK, NEW o \in Officers, Writes(o),
         managerOf' \in [Staff -> Staff \cup {NoOne}], gone' \subseteq Staff
  PROVE  ReportingTypeOK'
<1>1. walk' = [walk EXCEPT ![o] = NoWalk]
      /\ linesSlipped' = (linesSlipped \/ \E q \in Officers \ {o} : walk[q] # NoWalk)
  BY DEF Writes, Stride
<1>2. linesSlipped' \in BOOLEAN  BY <1>1
<1> QED  BY <1>1, <1>2, NoWalkHolds DEF ReportingTypeOK

LEMMA WalkUpTyped ==
  ASSUME ReportingTypeOK, NEW o \in Officers, WalkUp(o)
  PROVE  ReportingTypeOK'
<1>1. PICK w : w = walk[o]  OBVIOUS
<1>2. w \in Walk /\ w.op = "walk"  BY <1>1 DEF WalkUp, ReportingTypeOK
<1>3. /\ w \in [op : {"walk", "save"}, person : Staff, manager : Staff, at : Staff \cup {NoOne},
               depth : 0..MaxWalk]
      /\ w.at \in Staff \cup {NoOne} /\ w.depth \in 0..MaxWalk
  BY <1>2, WalkTypes
<1>4. Reads(o, IF w.at = NoOne \/ w.depth = MaxWalk THEN [w EXCEPT !.op = "save"]
               ELSE IF w.at = w.person THEN NoWalk
               ELSE [w EXCEPT !.at = IF w.at \in Present THEN managerOf[w.at] ELSE NoOne,
                              !.depth = @ + 1])
  BY <1>1 DEF WalkUp, WalkedEnough
<1>5. CASE w.at = NoOne \/ w.depth = MaxWalk
  <2>1. [w EXCEPT !.op = "save"] \in Walk  BY <1>3 DEF Walk
  <2> QED  BY <1>4, <1>5, <2>1, StepReadsTyped
<1>6. CASE ~(w.at = NoOne \/ w.depth = MaxWalk) /\ w.at = w.person
  BY <1>4, <1>6, NoWalkHolds, StepReadsTyped
<1>7. CASE ~(w.at = NoOne \/ w.depth = MaxWalk) /\ w.at # w.person
  <2>1. PICK a : a = IF w.at \in Present THEN managerOf[w.at] ELSE NoOne  OBVIOUS
  <2>2. a \in Staff \cup {NoOne}  BY <2>1 DEF Present, ReportingTypeOK
  <2>3. w.depth + 1 \in 0..MaxWalk  BY <1>3, <1>7, ReportingLinesAssumption
  <2>4. [w EXCEPT !.at = a, !.depth = w.depth + 1] \in Walk  BY <1>3, <2>2, <2>3 DEF Walk
  <2>5. Reads(o, [w EXCEPT !.at = a, !.depth = w.depth + 1])  BY <1>4, <1>7, <2>1
  <2> QED  BY <2>4, <2>5, StepReadsTyped
<1> QED  BY <1>5, <1>6, <1>7

\* Every variable has its type, whatever the walk may look at and however the requests
\* fall between each other: what a write needs, its request has kept from its reads.
THEOREM ReportingTypeCorrect == ReportingSpec => []ReportingTypeOK
<1>1. ReportingInit => ReportingTypeOK  BY LinesInitInv DEF LinesInv
<1>2. ReportingTypeOK /\ [ReportingNext]_reportingVars => ReportingTypeOK'
  <2> SUFFICES ASSUME ReportingTypeOK, [ReportingNext]_reportingVars PROVE ReportingTypeOK'
    OBVIOUS
  <2>1. CASE UNCHANGED reportingVars  BY <2>1 DEF reportingVars, ReportingTypeOK
  <2>2. ASSUME NEW o \in Officers, UpdateManager(o) PROVE ReportingTypeOK'
    <3>1. walk[o].person \in Staff /\ walk[o].manager \in Staff
      BY <2>2, WalkTypes DEF UpdateManager, ReportingTypeOK
    <3>2. managerOf' \in [Staff -> Staff \cup {NoOne}] /\ gone' \subseteq Staff /\ Writes(o)
      BY <2>2, <3>1 DEF UpdateManager, ReportingTypeOK
    <3> QED  BY <3>2, WritesTyped
  <2>3. ASSUME NEW o \in Officers, DeleteManager(o) PROVE ReportingTypeOK'
    <3>1. walk[o].person \in Staff  BY <2>3, WalkTypes DEF DeleteManager, ReportingTypeOK
    <3>2. managerOf' \in [Staff -> Staff \cup {NoOne}] /\ gone' \subseteq Staff /\ Writes(o)
      BY <2>3, <3>1 DEF DeleteManager, ReportingTypeOK
    <3> QED  BY <3>2, WritesTyped
  <2>4. ASSUME NEW o \in Officers, RestoreManaged(o) PROVE ReportingTypeOK'
    <3>1. managerOf' \in [Staff -> Staff \cup {NoOne}] /\ gone' \subseteq Staff /\ Writes(o)
      BY <2>4 DEF RestoreManaged, ReportingTypeOK
    <3> QED  BY <3>1, WritesTyped
  <2>5. ASSUME NEW o \in Officers, OfficerLeaves(o) PROVE ReportingTypeOK'
    BY <2>5, NoWalkHolds, StepReadsTyped DEF OfficerLeaves
  <2>6. ASSUME NEW p \in Staff, ClearManager(p) PROVE ReportingTypeOK'
    BY <2>6 DEF ClearManager, ReportingTypeOK
  <2>7. ASSUME NEW o \in Officers, NEW p \in Staff, CountReports(o, p) PROVE ReportingTypeOK'
    <3>1. [op |-> "delete", person |-> p] \in Walk  BY DEF Walk
    <3> QED  BY <2>7, <3>1, StepReadsTyped DEF CountReports
  <2>8. ASSUME NEW o \in Officers, NEW p \in Staff, FindDeletedPerson(o, p) PROVE ReportingTypeOK'
    <3>1. PICK b \in BOOLEAN : b = (managerOf[p] \notin Present)  OBVIOUS
    <3>2. [op |-> "restore", person |-> p, orphaned |-> b] \in Walk  BY DEF Walk
    <3> QED  BY <2>8, <3>1, <3>2, StepReadsTyped DEF FindDeletedPerson
  <2>9. ASSUME NEW o \in Officers, NEW p \in Staff, NEW m \in Staff, FindForManager(o, p, m)
        PROVE ReportingTypeOK'
    <3>1. 0 \in 0..MaxWalk  BY ReportingLinesAssumption
    <3>2. [op |-> "walk", person |-> p, manager |-> m, at |-> m, depth |-> 0] \in Walk
      BY <3>1 DEF Walk
    <3> QED  BY <2>9, <3>2, StepReadsTyped DEF FindForManager
  <2> QED  BY <2>1, <2>2, <2>3, <2>4, <2>5, <2>6, <2>7, <2>8, <2>9, WalkUpTyped DEF ReportingNext
<1> QED  BY <1>1, <1>2, PTL DEF ReportingSpec

-------------------------------------------------------------------------------
(***************************************************************************)
(* Registration. Each call leaves the organisation as far as the next one  *)
(* needs it (FarEnough), nobody else works for one that nobody has entered, *)
(* and a name that is about to be added is not there (AloneAdding).        *)
(***************************************************************************)

\* A request that opens an organisation, from the write that takes the slug on.
Opening(v) ==
  \/ v.pc \in {"roles", "trial", "usage", "workflow", "owner", "count", "home"}
  \/ v.pc \in {"look", "add"} /\ v.email # Unset

\* A request that works for an organisation.
Working(v) == Opening(v) \/ v.pc \in {"look", "add", "adopt"}

\* A request that opens an organisation nobody has entered.
Unentered(v) ==
  \/ v.pc \in {"roles", "trial", "usage", "workflow", "owner"}
  \/ v.pc \in {"look", "add"} /\ v.email # Unset

\* No two requests open one organisation or come from one address.
OpenersDiffer ==
  \A r, q \in Registrars : r # q =>
    /\ (Opening(registrar[r]) /\ Opening(registrar[q])) => registrar[r].slug # registrar[q].slug
    /\ (registrar[r].pc # "idle" /\ registrar[q].pc # "idle" /\ registrar[r].email # Unset)
         => registrar[r].email # registrar[q].email

\* Whoever registers has an account, and an owner registers nowhere else.
OwnerHere(v, s) == (v.pc # "idle" /\ v.email = organisation[s].owner) => (v.pc \in {"count", "home"} /\ v.slug = s)

OwnersHaveAccounts ==
  /\ \A r \in Registrars : (registrar[r].pc # "idle" /\ registrar[r].email # Unset) => user[registrar[r].email].there
  /\ \A s \in Opened : organisation[s].owner # Unset =>
       user[organisation[s].owner].there /\ \A r \in Registrars : OwnerHere(registrar[r], s)

\* How far an organisation has come, by the call its request makes next.
FarEnough(v, o) ==
  /\ v.pc \in {"trial", "usage", "workflow", "owner", "count", "home", "look", "add", "adopt"} => o.roles
  /\ v.pc \in {"usage", "workflow", "owner", "count", "home", "look", "add", "adopt"} => o.trial
  /\ v.pc \in {"owner", "count", "home", "look", "add", "adopt"} => o.workflow
  /\ (v.pc \in {"workflow", "owner", "count"} \/ (v.pc \in {"look", "add"} /\ v.email # Unset)) => o.seats = 0
  /\ v.pc = "home" => o.seats = 1
  /\ v.pc \in {"count", "home"} => o.owner = v.email
  /\ Unentered(v) => o.owner = Unset /\ o.brought = v.preset
  /\ (Working(v) /\ ~Unentered(v)) => o.owner # Unset
  /\ v.pc = "adopt" => v.email = Unset
  /\ v.pc \in {"owner", "adopt"} => \A k \in 1..3 : v.preset \subseteq Existing(o, k)
  /\ v.pc \in {"look", "add"} => \A k \in 1..3 : k < v.kind => v.preset \subseteq Existing(o, k)
  /\ v.pc = "add" => v.found \subseteq Existing(o, v.kind)

WorkFits ==
  \A r \in Registrars : Working(registrar[r]) =>
    registrar[r].slug \in Opened /\ FarEnough(registrar[r], organisation[registrar[r].slug])

\* An organisation that was entered has all it should have.
Furnished(o) == o.roles /\ o.trial /\ o.workflow /\ \A k \in 1..3 : o.brought \subseteq Existing(o, k)

Ended(s) == BeingOpened(s) \/ s \in stopped \/ (organisation[s].seats = 1 /\ user[organisation[s].owner].home = s)

Whole == \A s \in Opened : organisation[s].owner # Unset => Furnished(organisation[s]) /\ Ended(s)

\* What two requests would add beside each other.
Adds(v, s, k) == v.pc = "add" /\ v.slug = s /\ v.kind = k

Lacks(v) == v.preset \ v.found

\* A name a request is going to add is not there, and no other is going to add any.
AloneAdding(s, k) ==
  /\ \A n \in Names : organisation[s].items[k][n] <= 1
  /\ \A r \in Registrars : Adds(registrar[r], s, k) =>
       /\ \A n \in Lacks(registrar[r]) : organisation[s].items[k][n] = 0
       /\ Lacks(registrar[r]) # {} =>
            \A q \in Registrars \ {r} : Adds(registrar[q], s, k) => Lacks(registrar[q]) = {}

Once == \A s \in Opened \ overlapped : \A k \in 1..3 : AloneAdding(s, k)

\* A slug is chosen before it is asked for.
Chosen == \A r \in Registrars : registrar[r].pc \in {"check", "open"} => registrar[r].slug \in Slugs

RegistrationInv ==
  RegistrationTypeOK /\ Chosen /\ OpenersDiffer /\ OwnersHaveAccounts /\ WorkFits /\ Whole /\ Once


USE RegistrationAssumption

Accounts == [Emails -> [there : BOOLEAN, home : Slugs \cup {Unset}]]

\* What a request carries, by the call it makes next.
LEMMA RegistrarTypes ==
  ASSUME NEW v \in Registrar
  PROVE  /\ v.pc \in {"idle", "search", "check", "open", "roles", "trial", "usage", "workflow", "owner", "count",
                      "home", "look", "add", "adopt"}
         /\ v.pc = "idle" <=> v = NoRegistrar
         /\ v.pc \notin {"idle", "look", "add", "adopt"} =>
              v.email \in Emails /\ v.slug \in Slugs \cup {Unset} /\ v.preset \in Presets
         /\ v.pc \in {"look", "add", "adopt"} =>
              /\ v.email \in Emails \cup {Unset} /\ v.slug \in Slugs /\ v.preset \in Presets
              /\ v.kind \in 1..3 /\ v.found \subseteq Names
         /\ Unset \notin Emails /\ Unset \notin Slugs
<1>1. CASE v = NoRegistrar  BY <1>1 DEF NoRegistrar
<1>2. CASE v \in [pc : {"search", "check", "open", "roles", "trial", "usage", "workflow", "owner", "count", "home"},
                  email : Emails, slug : Slugs \cup {Unset}, preset : Presets]
  BY <1>2 DEF NoRegistrar
<1>3. CASE v \in [pc : {"look", "add", "adopt"}, email : Emails \cup {Unset}, slug : Slugs, preset : Presets,
                  kind : 1..3, found : SUBSET Names]
  BY <1>3 DEF NoRegistrar
<1> QED  BY <1>1, <1>2, <1>3 DEF Registrar

\* The types, from the invariant.
LEMMA RegistrationTypes ==
  ASSUME RegistrationInv
  PROVE  /\ user \in Accounts /\ organisation \in [Slugs -> Organisation \cup {Unset}]
         /\ registrar \in [Registrars -> Registrar] /\ asked \in 0..MaxBegun /\ MaxBegun \in Nat
         /\ overlapped \subseteq Slugs /\ stopped \subseteq Slugs /\ Opened \subseteq Slugs
         /\ \A s \in Opened : organisation[s] \in Organisation
BY DEF RegistrationInv, RegistrationTypeOK, Accounts, Opened

\* A step of one request that leaves the organisations.
LEMMA RegistrarMoves ==
  ASSUME RegistrationInv, NEW r \in Registrars, NEW v \in Registrar,
         registrar' = [registrar EXCEPT ![r] = v], UNCHANGED organisation,
         user' \in Accounts, \A e \in Emails : user[e].there => user'[e].there,
         asked' \in 0..MaxBegun, overlapped \subseteq overlapped', overlapped' \subseteq Slugs, stopped' \subseteq Slugs,
         v.pc \in {"check", "open"} => v.slug \in Slugs,
         (v.pc # "idle" /\ v.email # Unset) =>
           /\ user'[v.email].there
           /\ \A q \in Registrars \ {r} : registrar[q].pc # "idle" => registrar[q].email # v.email
           /\ \A s \in Opened : OwnerHere(v, s),
         Opening(v) => \A q \in Registrars \ {r} : Opening(registrar[q]) => registrar[q].slug # v.slug,
         Working(v) => v.slug \in Opened /\ FarEnough(v, organisation[v.slug]),
         \A s \in Opened : organisation[s].owner # Unset => Ended(s)',
         (v.pc = "add" /\ v.slug \notin overlapped') =>
           /\ \A n \in Lacks(v) : organisation[v.slug].items[v.kind][n] = 0
           /\ Lacks(v) # {} =>
                \A q \in Registrars \ {r} : Adds(registrar[q], v.slug, v.kind) => Lacks(registrar[q]) = {}
  PROVE  RegistrationInv'
<1>1. /\ registrar \in [Registrars -> Registrar]
      /\ \A q \in Registrars : registrar'[q] = IF q = r THEN v ELSE registrar[q]
  BY RegistrationTypes
<1>2. RegistrationTypeOK'
  BY RegistrationTypes DEF RegistrationTypeOK, Accounts
<1>3. Opened' = Opened  BY DEF Opened
<1>4. OpenersDiffer'
  <2> SUFFICES ASSUME NEW q \in Registrars, NEW p \in Registrars, q # p
               PROVE  /\ (Opening(registrar'[q]) /\ Opening(registrar'[p])) => registrar'[q].slug # registrar'[p].slug
                      /\ (registrar'[q].pc # "idle" /\ registrar'[p].pc # "idle" /\ registrar'[q].email # Unset)
                           => registrar'[q].email # registrar'[p].email
    BY DEF OpenersDiffer, Opening
  <2>1. /\ (Opening(registrar[q]) /\ Opening(registrar[p])) => registrar[q].slug # registrar[p].slug
        /\ (registrar[q].pc # "idle" /\ registrar[p].pc # "idle" /\ registrar[q].email # Unset)
             => registrar[q].email # registrar[p].email
    BY DEF RegistrationInv, OpenersDiffer
  <2>2. CASE q # r /\ p # r  BY <1>1, <2>1, <2>2
  <2>3. CASE q = r  BY <1>1, <2>3
  <2>4. CASE p = r  BY <1>1, <2>4
  <2> QED  BY <2>2, <2>3, <2>4
<1>5. OwnersHaveAccounts'
  <2>1. ASSUME NEW q \in Registrars, registrar'[q].pc # "idle", registrar'[q].email # Unset
        PROVE  user'[registrar'[q].email].there
    <3>1. CASE q = r  BY <1>1, <2>1, <3>1
    <3>2. CASE q # r
      <4>1. registrar'[q] = registrar[q]  BY <1>1, <3>2
      <4>2. registrar[q].email \in Emails  BY <1>1, <2>1, <4>1, RegistrarTypes
      <4> QED  BY <2>1, <4>1, <4>2 DEF RegistrationInv, OwnersHaveAccounts
    <3> QED  BY <3>1, <3>2
  <2>2. ASSUME NEW s \in Opened, organisation[s].owner # Unset
        PROVE  user'[organisation[s].owner].there /\ \A q \in Registrars : OwnerHere(registrar[q], s)'
    <3>1. organisation[s].owner \in Emails  BY <2>2, RegistrationTypes DEF Organisation
    <3>2. user'[organisation[s].owner].there
      BY <2>2, <3>1 DEF RegistrationInv, OwnersHaveAccounts
    <3>3. ASSUME NEW q \in Registrars PROVE OwnerHere(registrar[q], s)'
      <4>1. CASE q = r  BY <1>1, <2>2, <4>1 DEF OwnerHere
      <4>2. CASE q # r  BY <1>1, <2>2, <4>2 DEF OwnerHere, RegistrationInv, OwnersHaveAccounts
      <4> QED  BY <4>1, <4>2
    <3> QED  BY <3>2, <3>3
  <2> QED  BY <1>3, <2>1, <2>2 DEF OwnersHaveAccounts
<1>6. WorkFits'
  <2> SUFFICES ASSUME NEW q \in Registrars, Working(registrar'[q])
               PROVE  registrar'[q].slug \in Opened /\ FarEnough(registrar'[q], organisation[registrar'[q].slug])
    BY <1>3 DEF WorkFits
  <2>1. CASE q = r  BY <1>1, <2>1
  <2>2. CASE q # r  BY <1>1, <2>2 DEF RegistrationInv, WorkFits
  <2> QED  BY <2>1, <2>2
<1>7. Whole'
  BY <1>3 DEF RegistrationInv, Whole, Furnished, Existing
<1>8. Once'
  <2> SUFFICES ASSUME NEW s \in Opened \ overlapped', NEW k \in 1..3 PROVE AloneAdding(s, k)'
    BY <1>3 DEF Once
  <2>1. AloneAdding(s, k)  BY DEF RegistrationInv, Once
  <2>2. ASSUME NEW q \in Registrars, Adds(registrar'[q], s, k)
        PROVE  /\ \A n \in Lacks(registrar'[q]) : organisation[s].items[k][n] = 0
               /\ Lacks(registrar'[q]) # {} =>
                    \A p \in Registrars \ {q} : Adds(registrar'[p], s, k) => Lacks(registrar'[p]) = {}
    <3>1. CASE q = r
      <4>1. registrar'[q] = v /\ v.pc = "add" /\ v.slug = s /\ v.kind = k  BY <1>1, <2>2, <3>1 DEF Adds
      <4>2. \A p \in Registrars \ {q} : registrar'[p] = registrar[p]  BY <1>1, <3>1
      <4> QED  BY <3>1, <4>1, <4>2
    <3>2. CASE q # r
      <4>1. registrar'[q] = registrar[q]  BY <1>1, <3>2
      <4>2. ASSUME NEW p \in Registrars \ {q}, Adds(registrar'[p], s, k), Lacks(registrar[q]) # {}
            PROVE  Lacks(registrar'[p]) = {}
        <5>1. CASE p = r
          <6>1. registrar'[p] = v /\ v.pc = "add" /\ v.slug = s /\ v.kind = k  BY <1>1, <4>2, <5>1 DEF Adds
          <6> QED  BY <2>2, <3>2, <4>1, <4>2, <6>1
        <5>2. CASE p # r
          <6>1. registrar'[p] = registrar[p]  BY <1>1, <5>2
          <6> QED  BY <2>1, <2>2, <4>1, <4>2, <6>1 DEF AloneAdding
        <5> QED  BY <5>1, <5>2
      <4> QED  BY <2>1, <2>2, <4>1, <4>2 DEF AloneAdding
    <3> QED  BY <3>1, <3>2
  <2>3. \A n \in Names : organisation[s].items[k][n] <= 1  BY <2>1 DEF AloneAdding
  <2> QED  BY <2>2, <2>3 DEF AloneAdding, Adds, Lacks
<1>9. Chosen'  BY <1>1 DEF Chosen, RegistrationInv
<1> QED  BY <1>2, <1>4, <1>5, <1>6, <1>7, <1>8, <1>9 DEF RegistrationInv

\* Request r goes on as v and leaves o as organisation s, which suits everybody.
Changes(r, v, s, o) ==
  /\ registrar' = [registrar EXCEPT ![r] = v] /\ organisation' = [organisation EXCEPT ![s] = o]
  /\ UNCHANGED <<user, asked, overlapped, stopped>>
  /\ o # Unset /\ registrar[r].pc # "idle" /\ registrar[r].slug = s
  /\ v.pc = "idle" \/ (v.email = registrar[r].email /\ v.slug = s)
  /\ Opening(v) => \A q \in Registrars \ {r} : Opening(registrar[q]) => registrar[q].slug # s
  /\ \A q \in Registrars \ {r} : (Working(registrar[q]) /\ registrar[q].slug = s) => FarEnough(registrar[q], o)
  /\ Working(v) => FarEnough(v, o)
  /\ o.owner # Unset =>
       /\ Furnished(o) /\ Ended(s)' /\ user[o.owner].there
       /\ \A q \in Registrars : (registrar'[q].pc # "idle" /\ registrar'[q].email = o.owner) =>
            registrar'[q].pc \in {"count", "home"} /\ registrar'[q].slug = s
  /\ s \notin overlapped => \A k \in 1..3 : AloneAdding(s, k)'

\* A step of one request that writes the organisation it works for, or makes it.
LEMMA OrganisationChanges ==
  ASSUME RegistrationInv, NEW r \in Registrars, NEW v \in Registrar, NEW s \in Slugs, NEW o \in Organisation,
         Changes(r, v, s, o)
  PROVE  RegistrationInv'
<1> USE DEF Changes
<1>1. /\ registrar \in [Registrars -> Registrar]
      /\ \A q \in Registrars : registrar'[q] = IF q = r THEN v ELSE registrar[q]
  BY RegistrationTypes
<1>2. /\ \A t \in Slugs : organisation'[t] = IF t = s THEN o ELSE organisation[t]
      /\ Opened' = Opened \cup {s} /\ Opened \subseteq Slugs
  BY RegistrationTypes DEF Opened
<1>3. RegistrationTypeOK'
  BY RegistrationTypes DEF RegistrationTypeOK, Accounts
<1>4. OpenersDiffer'
  <2> SUFFICES ASSUME NEW q \in Registrars, NEW p \in Registrars, q # p
               PROVE  /\ (Opening(registrar'[q]) /\ Opening(registrar'[p])) => registrar'[q].slug # registrar'[p].slug
                      /\ (registrar'[q].pc # "idle" /\ registrar'[p].pc # "idle" /\ registrar'[q].email # Unset)
                           => registrar'[q].email # registrar'[p].email
    BY DEF OpenersDiffer, Opening
  <2>1. \A x, y \in Registrars : x # y =>
          /\ (Opening(registrar[x]) /\ Opening(registrar[y])) => registrar[x].slug # registrar[y].slug
          /\ (registrar[x].pc # "idle" /\ registrar[y].pc # "idle" /\ registrar[x].email # Unset)
               => registrar[x].email # registrar[y].email
    BY DEF RegistrationInv, OpenersDiffer
  <2>2. ~Opening(v) \/ v.slug = s  BY DEF Opening
  <2>3. CASE q # r /\ p # r  BY <1>1, <2>1, <2>3
  <2>4. CASE q = r  BY <1>1, <2>1, <2>2, <2>4
  <2>5. CASE p = r  BY <1>1, <2>1, <2>2, <2>5
  <2> QED  BY <2>3, <2>4, <2>5
<1>5. OwnersHaveAccounts'
  <2>1. ASSUME NEW q \in Registrars, registrar'[q].pc # "idle", registrar'[q].email # Unset
        PROVE  user'[registrar'[q].email].there
    <3>1. registrar[q].pc # "idle" /\ registrar[q].email = registrar'[q].email
      BY <1>1, <2>1
    <3> QED  BY <2>1, <3>1 DEF RegistrationInv, OwnersHaveAccounts
  <2>2. ASSUME NEW t \in Opened', organisation'[t].owner # Unset
        PROVE  user'[organisation'[t].owner].there /\ \A q \in Registrars : OwnerHere(registrar[q], t)'
    <3>1. CASE t = s
      <4>1. organisation'[t] = o /\ user' = user  BY <1>2, <3>1
      <4>2. /\ user[o.owner].there
            /\ \A q \in Registrars : (registrar'[q].pc # "idle" /\ registrar'[q].email = o.owner) =>
                 registrar'[q].pc \in {"count", "home"} /\ registrar'[q].slug = t
        BY <2>2, <3>1, <4>1
      <4> QED  BY ONLY <4>1, <4>2 DEF OwnerHere
    <3>2. CASE t # s
      <4>1. t \in Opened /\ organisation'[t] = organisation[t]  BY <1>2, <2>2, <3>2
      <4>2. user[organisation[t].owner].there /\ \A q \in Registrars : OwnerHere(registrar[q], t)
        BY <2>2, <4>1 DEF RegistrationInv, OwnersHaveAccounts
      <4>3. ASSUME NEW q \in Registrars PROVE OwnerHere(registrar[q], t)'
        <5>1. CASE q # r  BY <1>1, <4>1, <4>2, <5>1 DEF OwnerHere
        <5>2. CASE q = r  BY <1>1, <3>2, <4>1, <4>2, <5>2 DEF OwnerHere
        <5> QED  BY <5>1, <5>2
      <4> QED  BY <4>1, <4>2, <4>3
    <3> QED  BY <3>1, <3>2
  <2> QED  BY <2>1, <2>2 DEF OwnersHaveAccounts
<1>6. WorkFits'
  <2> SUFFICES ASSUME NEW q \in Registrars, Working(registrar'[q])
               PROVE  registrar'[q].slug \in Opened' /\ FarEnough(registrar'[q], organisation'[registrar'[q].slug])
    BY DEF WorkFits, Working, Opening, FarEnough, Unentered, Existing
  <2>1. CASE q = r
    <3>1. registrar'[q] = v /\ v.slug = s  BY <1>1, <2>1 DEF Working, Opening
    <3>2. organisation'[s] = o /\ s \in Opened'  BY <1>2
    <3>3. FarEnough(v, o)  BY <3>1
    <3> QED  BY <3>1, <3>2, <3>3
  <2>2. CASE q # r
    <3>1. registrar'[q] = registrar[q]  BY <1>1, <2>2
    <3>2. registrar[q].slug \in Opened /\ FarEnough(registrar[q], organisation[registrar[q].slug])
      BY <3>1 DEF RegistrationInv, WorkFits
    <3>3. CASE registrar[q].slug = s
      <4>1. organisation'[s] = o /\ s \in Opened'  BY <1>2
      <4>2. FarEnough(registrar[q], o)  BY <2>2, <3>1, <3>3
      <4> QED  BY ONLY <3>1, <3>3, <4>1, <4>2
    <3>4. CASE registrar[q].slug # s  BY <1>2, <3>1, <3>2, <3>4
    <3> QED  BY <3>3, <3>4
  <2> QED  BY <2>1, <2>2
<1>7. Whole'
  <2> SUFFICES ASSUME NEW t \in Opened', organisation'[t].owner # Unset
               PROVE  Furnished(organisation'[t]) /\ Ended(t)'
    BY DEF Whole, Furnished, Existing
  <2>1. CASE t = s  BY <1>2, <2>1
  <2>2. CASE t # s
    <3>1. t \in Opened /\ organisation'[t] = organisation[t]  BY <1>2, <2>2
    <3>2. Furnished(organisation[t]) /\ Ended(t)  BY <3>1 DEF RegistrationInv, Whole
    <3>3. BeingOpened(t) => BeingOpened(t)'  BY <1>1, <2>2 DEF BeingOpened
    <3>4. Ended(t)'  BY <3>1, <3>2, <3>3 DEF Ended
    <3> QED  BY <3>1, <3>2, <3>4
  <2> QED  BY <2>1, <2>2
<1>8. Once'
  <2> SUFFICES ASSUME NEW t \in Opened' \ overlapped, NEW k \in 1..3 PROVE AloneAdding(t, k)'
    BY DEF Once
  <2>1. CASE t = s  BY <2>1
  <2>2. CASE t # s
    <3>1. t \in Opened /\ organisation'[t] = organisation[t]  BY <1>2, <2>2
    <3>2. AloneAdding(t, k)  BY <3>1 DEF RegistrationInv, Once
    <3>3. \A q \in Registrars : Adds(registrar'[q], t, k) => q # r /\ registrar'[q] = registrar[q]
      BY <1>1, <2>2 DEF Adds
    <3>4. /\ \A n \in Names : organisation'[t].items[k][n] <= 1
          /\ \A q \in Registrars : Adds(registrar'[q], t, k) =>
               /\ \A n \in Lacks(registrar'[q]) : organisation'[t].items[k][n] = 0
               /\ Lacks(registrar'[q]) # {} =>
                    \A p \in Registrars \ {q} : Adds(registrar'[p], t, k) => Lacks(registrar'[p]) = {}
      BY ONLY <3>1, <3>2, <3>3 DEF AloneAdding
    <3> QED  BY <3>4 DEF AloneAdding, Adds, Lacks
  <2> QED  BY <2>1, <2>2
<1>9. Chosen'  BY <1>1 DEF Chosen, RegistrationInv
<1> QED  BY <1>3, <1>4, <1>5, <1>6, <1>7, <1>8, <1>9 DEF RegistrationInv

\* A request that makes its next call.
LEMMA NextCall ==
  ASSUME NEW w \in Registrar, NEW p, w.pc \notin {"idle", "look", "add", "adopt"},
         p \in {"search", "check", "open", "roles", "trial", "usage", "workflow", "owner", "count", "home"}
  PROVE  LET v == [w EXCEPT !.pc = p] IN
           v \in Registrar /\ v.pc = p /\ v.email = w.email /\ v.slug = w.slug /\ v.preset = w.preset
<1>1. w \in [pc : {"search", "check", "open", "roles", "trial", "usage", "workflow", "owner", "count", "home"},
             email : Emails, slug : Slugs \cup {Unset}, preset : Presets]
  BY DEF Registrar, NoRegistrar
<1> QED  BY <1>1 DEF Registrar

\* A request that keeps its address comes from one that has an account.
LEMMA EmailKept ==
  ASSUME RegistrationInv, NEW r \in Registrars, NEW v \in Registrar, registrar[r].pc # "idle",
         v.pc # "idle" => v.email = registrar[r].email,
         registrar[r].pc \in {"count", "home"} =>
           v.pc = "idle" \/ (v.pc \in {"count", "home"} /\ v.slug = registrar[r].slug)
  PROVE  (v.pc # "idle" /\ v.email # Unset) =>
           /\ user[v.email].there
           /\ \A q \in Registrars \ {r} : registrar[q].pc # "idle" => registrar[q].email # v.email
           /\ \A s \in Opened : OwnerHere(v, s)
<1> SUFFICES ASSUME v.pc # "idle", v.email # Unset
             PROVE  /\ user[v.email].there
                    /\ \A q \in Registrars \ {r} : registrar[q].pc # "idle" => registrar[q].email # v.email
                    /\ \A s \in Opened : OwnerHere(v, s)
  OBVIOUS
<1>1. user[v.email].there  BY DEF RegistrationInv, OwnersHaveAccounts
<1>2. \A q \in Registrars \ {r} : registrar[q].pc # "idle" => registrar[q].email # v.email
  BY DEF RegistrationInv, OpenersDiffer
<1>3. ASSUME NEW s \in Opened PROVE OwnerHere(v, s)
  <2>1. organisation[s].owner # Unset => OwnerHere(registrar[r], s)
    BY DEF RegistrationInv, OwnersHaveAccounts
  <2> QED  BY <2>1 DEF OwnerHere
<1> QED  BY <1>1, <1>2, <1>3

\* A registration that does not leave its last calls, or is noted when it does.
LEMMA EndedKept ==
  ASSUME RegistrationInv, NEW r \in Registrars, NEW v,
         registrar' = [registrar EXCEPT ![r] = v], UNCHANGED organisation,
         \A e \in Emails : user'[e].home = user[e].home, stopped \subseteq stopped',
         registrar[r].pc \in {"count", "home"} =>
           (v.pc \in {"count", "home"} /\ v.slug = registrar[r].slug) \/ registrar[r].slug \in stopped'
  PROVE  \A s \in Opened : organisation[s].owner # Unset => Ended(s)'
<1> SUFFICES ASSUME NEW s \in Opened, organisation[s].owner # Unset PROVE Ended(s)'
  OBVIOUS
<1>1. Ended(s) /\ organisation[s].owner \in Emails
  BY RegistrationTypes DEF RegistrationInv, Whole, Organisation
<1>2. \A q \in Registrars : registrar'[q] = IF q = r THEN v ELSE registrar[q]  BY RegistrationTypes
<1>3. BeingOpened(s) => BeingOpened(s)' \/ s \in stopped'
  <2> SUFFICES ASSUME NEW q \in Registrars, registrar[q].pc \in {"count", "home"}, registrar[q].slug = s
               PROVE  (\E p \in Registrars : registrar'[p].pc \in {"count", "home"} /\ registrar'[p].slug = s)
                        \/ s \in stopped'
    BY DEF BeingOpened
  <2>1. CASE q = r  BY <1>2, <2>1
  <2>2. CASE q # r  BY <1>2, <2>2
  <2> QED  BY <2>1, <2>2
<1> QED  BY <1>1, <1>3 DEF Ended

\* The first calls of a registration, before it has a slug.
LEMMA FirstCallsKeep ==
  ASSUME RegistrationInv, NEW r \in Registrars,
         \/ \E e \in Emails, preset \in Presets : CreateUser(r, e, preset)
         \/ UniqueSlug(r) \/ SlugIsAvailable(r)
  PROVE  RegistrationInv'
<1>0. registrar[r] \in Registrar /\ Unset \notin Emails  BY RegistrationTypes
<1>1. ASSUME NEW e \in Emails, NEW preset \in Presets, CreateUser(r, e, preset) PROVE RegistrationInv'
  <2>1. PICK v \in Registrar : v = [pc |-> "search", email |-> e, slug |-> Unset, preset |-> preset]
    BY DEF Registrar
  <2>2. v.pc = "search" /\ v.email = e  BY <2>1
  <2>3. /\ registrar' = [registrar EXCEPT ![r] = v] /\ user' = [user EXCEPT ![e].there = TRUE] /\ asked' = asked + 1
        /\ registrar[r].pc = "idle" /\ ~user[e].there /\ asked < MaxBegun
        /\ UNCHANGED <<organisation, overlapped, stopped>>
    BY <1>1, <2>1 DEF CreateUser, NoRegistrar
  <2>4. /\ user' \in Accounts /\ user'[e].there
        /\ \A x \in Emails : user'[x].home = user[x].home /\ (user[x].there => user'[x].there)
    BY <2>3, RegistrationTypes DEF Accounts
  <2>5. asked' \in 0..MaxBegun  BY <2>3, RegistrationTypes
  <2>6. \A q \in Registrars \ {r} : registrar[q].pc # "idle" => registrar[q].email # e
    BY <1>0, <2>3 DEF RegistrationInv, OwnersHaveAccounts
  <2>7. \A s \in Opened : OwnerHere(v, s)
    BY <1>0, <2>2, <2>3 DEF OwnerHere, RegistrationInv, OwnersHaveAccounts
  <2>8. ~Opening(v) /\ ~Working(v)  BY <2>2 DEF Opening, Working
  <2>9. \A s \in Opened : organisation[s].owner # Unset => Ended(s)'  BY <2>3, <2>4, EndedKept
  <2>10. overlapped' \subseteq Slugs /\ stopped' \subseteq Slugs /\ overlapped \subseteq overlapped'
    BY <2>3, RegistrationTypes
  <2> QED  BY <2>2, <2>3, <2>4, <2>5, <2>6, <2>7, <2>8, <2>9, <2>10, RegistrarMoves
<1>2. ASSUME NEW v \in Registrar, v.pc \in {"check", "open"}, v.email = registrar[r].email, v.slug \in Slugs,
             registrar[r].pc \in {"search", "check"}, registrar' = [registrar EXCEPT ![r] = v],
             UNCHANGED <<user, organisation, asked, overlapped, stopped>>
      PROVE  RegistrationInv'
  <2>1. ~Opening(v) /\ ~Working(v)  BY <1>2 DEF Opening, Working
  <2>2. \A s \in Opened : organisation[s].owner # Unset => Ended(s)'  BY <1>2, EndedKept
  <2>3. (v.pc # "idle" /\ v.email # Unset) =>
           /\ user[v.email].there
           /\ \A q \in Registrars \ {r} : registrar[q].pc # "idle" => registrar[q].email # v.email
           /\ \A s \in Opened : OwnerHere(v, s)
    BY <1>2, EmailKept
  <2>4. user' \in Accounts /\ asked' \in 0..MaxBegun /\ overlapped' \subseteq Slugs /\ stopped' \subseteq Slugs
    BY <1>2, RegistrationTypes
  <2> QED  BY <1>2, <2>1, <2>2, <2>3, <2>4, RegistrarMoves
<1>3. CASE UniqueSlug(r)
  <2>1. PICK s \in Slugs : registrar' = [registrar EXCEPT ![r].pc = "check", ![r].slug = s]
    BY <1>3 DEF UniqueSlug, Opened
  <2>2. registrar[r].pc = "search" /\ UNCHANGED <<user, organisation, asked, overlapped, stopped>>
    BY <1>3 DEF UniqueSlug
  <2>3. registrar[r] \in [pc : {"search", "check", "open", "roles", "trial", "usage", "workflow", "owner", "count", "home"},
                          email : Emails, slug : Slugs \cup {Unset}, preset : Presets]
    BY <1>0, <2>2 DEF Registrar, NoRegistrar
  <2>4. PICK v : v = [registrar[r] EXCEPT !.pc = "check", !.slug = s]  OBVIOUS
  <2>5. v \in Registrar /\ v.pc = "check" /\ v.email = registrar[r].email /\ v.slug \in Slugs  BY <2>3, <2>4 DEF Registrar
  <2>6. registrar' = [registrar EXCEPT ![r] = v]  BY <2>1, <2>4, RegistrationTypes
  <2> QED  BY <1>2, <2>2, <2>5, <2>6
<1>4. CASE SlugIsAvailable(r)
  <2>1. PICK v : v = [registrar[r] EXCEPT !.pc = "open"]  OBVIOUS
  <2>2. registrar[r].pc = "check" /\ UNCHANGED <<user, organisation, asked, overlapped, stopped>>
    BY <1>4 DEF SlugIsAvailable, Calls
  <2>3. v \in Registrar /\ v.pc = "open" /\ v.email = registrar[r].email /\ v.slug = registrar[r].slug
    BY <1>0, <2>1, <2>2, NextCall
  <2>5. v.slug \in Slugs  BY <2>2, <2>3 DEF RegistrationInv, Chosen
  <2>4. registrar' = [registrar EXCEPT ![r] = v]  BY <1>4, <2>1 DEF SlugIsAvailable, Calls
  <2> QED  BY <1>2, <2>2, <2>3, <2>4, <2>5
<1> QED  BY <1>1, <1>3, <1>4

\* Adding a setup, but for its rows; and a request that ends early.
LEMMA SetupCallsKeep ==
  ASSUME RegistrationInv, NEW r \in Registrars,
         \/ \E s \in Slugs, preset \in Presets : ApplyPreset(r, s, preset)
         \/ ReadNames(r) \/ NextKind(r) \/ AllAdded(r) \/ RegistrationFails(r)
  PROVE  RegistrationInv'
<1>0. registrar[r] \in Registrar /\ Unset \notin Emails /\ Unset \notin Slugs  BY RegistrationTypes
<1>1. ASSUME NEW s \in Slugs, NEW preset \in Presets, ApplyPreset(r, s, preset) PROVE RegistrationInv'
  <2>1. PICK v : v = Adding(r, preset, s, Unset)  OBVIOUS
  <2>2. /\ v \in Registrar /\ v.pc = "look" /\ v.email = Unset /\ v.slug = s /\ v.preset = preset
        /\ v.kind = 1 /\ v.found = {}
    BY <2>1 DEF Adding, Registrar
  <2>3. /\ registrar' = [registrar EXCEPT ![r] = v] /\ asked' = asked + 1
        /\ registrar[r].pc = "idle" /\ s \in Opened /\ organisation[s].owner # Unset /\ asked < MaxBegun
        /\ UNCHANGED <<user, organisation, overlapped, stopped>>
    BY <1>1, <2>1 DEF ApplyPreset, NoRegistrar
  <2>4. asked' \in 0..MaxBegun /\ user' \in Accounts /\ overlapped' \subseteq Slugs /\ stopped' \subseteq Slugs
    BY <2>3, RegistrationTypes
  <2>5. ~Opening(v) /\ ~Unentered(v)  BY <2>2 DEF Opening, Unentered
  <2>6. Furnished(organisation[s])  BY <2>3 DEF RegistrationInv, Whole
  <2>7. FarEnough(v, organisation[s])  BY <2>2, <2>3, <2>5, <2>6 DEF FarEnough, Furnished
  <2>8. \A t \in Opened : organisation[t].owner # Unset => Ended(t)'  BY <2>3, EndedKept
  <2> QED  BY <2>2, <2>3, <2>4, <2>5, <2>7, <2>8, RegistrarMoves
<1> DEFINE w == registrar[r]
           o == organisation[w.slug]
<1>2. ASSUME NEW v \in Registrar, registrar' = [registrar EXCEPT ![r] = v],
             v.pc \in {"look", "add", "adopt", "owner"}, v.email = w.email, v.slug = w.slug, v.preset = w.preset, w.pc \in {"look", "add"},
             Opening(v) => Opening(w), FarEnough(v, o),
             overlapped \subseteq overlapped', overlapped' \subseteq Slugs,
             UNCHANGED <<user, organisation, asked, stopped>>,
             (v.pc = "add" /\ v.slug \notin overlapped') =>
               /\ \A n \in Lacks(v) : organisation[v.slug].items[v.kind][n] = 0
               /\ Lacks(v) # {} =>
                    \A q \in Registrars \ {r} : Adds(registrar[q], v.slug, v.kind) => Lacks(registrar[q]) = {}
      PROVE  RegistrationInv'
  <2>1. Working(w) /\ w.slug \in Opened  BY <1>2 DEF Working, RegistrationInv, WorkFits
  <2>2. Opening(v) => \A q \in Registrars \ {r} : Opening(registrar[q]) => registrar[q].slug # v.slug
    BY <1>2 DEF RegistrationInv, OpenersDiffer
  <2>3. \A s \in Opened : organisation[s].owner # Unset => Ended(s)'  BY <1>2, EndedKept
  <2>4. (v.pc # "idle" /\ v.email # Unset) =>
           /\ user[v.email].there
           /\ \A q \in Registrars \ {r} : registrar[q].pc # "idle" => registrar[q].email # v.email
           /\ \A s \in Opened : OwnerHere(v, s)
    BY <1>2, EmailKept
  <2>5. user' \in Accounts /\ asked' \in 0..MaxBegun /\ stopped' \subseteq Slugs
    BY <1>2, RegistrationTypes
  <2>6. v.slug \in Opened /\ FarEnough(v, organisation[v.slug])  BY <1>2, <2>1
  <2> QED  BY <1>2, <2>2, <2>3, <2>4, <2>5, <2>6, RegistrarMoves
<1>3. ASSUME w.pc \in {"look", "add"}
      PROVE  /\ w.slug \in Opened /\ FarEnough(w, o) /\ o \in Organisation
             /\ w.preset \subseteq Names /\ w.kind \in 1..3 /\ w.found \subseteq Names
             /\ w.email \in Emails \cup {Unset}
             /\ \A k \in 1..3 : o.items[k] \in [Names -> 0..2]
  <2>1. Working(w)  BY <1>3 DEF Working
  <2>2. w.slug \in Opened /\ FarEnough(w, o)  BY <2>1 DEF RegistrationInv, WorkFits
  <2>3. o \in Organisation  BY <2>2, RegistrationTypes
  <2> QED  BY <1>0, <1>3, <2>2, <2>3, RegistrarTypes DEF Presets, Organisation, Copies
<1> HIDE DEF w, o
<1>4. CASE ReadNames(r)
  <2>1. /\ w.pc = "look" /\ UNCHANGED <<user, organisation, asked, stopped>>
        /\ overlapped' = IF Beside(r) THEN overlapped \cup {w.slug} ELSE overlapped
    BY <1>4 DEF ReadNames, w
  <2>2. PICK v \in Registrar :
          /\ v = [w EXCEPT !.pc = "add", !.kind = w.kind, !.found = Existing(o, w.kind)]
          /\ v.pc = "add" /\ v.email = w.email /\ v.slug = w.slug /\ v.preset = w.preset /\ v.kind = w.kind
          /\ v.found = Existing(o, w.kind)
    <3>1. w \in [pc : {"look", "add", "adopt"}, email : Emails \cup {Unset}, slug : Slugs, preset : Presets,
                 kind : 1..3, found : SUBSET Names]
      BY <1>0, <2>1 DEF Registrar, NoRegistrar, w
    <3>2. Existing(o, w.kind) \in SUBSET Names  BY DEF Existing
    <3>3. [w EXCEPT !.pc = "add", !.kind = w.kind, !.found = Existing(o, w.kind)] \in Registrar
      BY <3>1, <3>2 DEF Registrar
    <3> QED  BY <3>1, <3>3
  <2>3. v = [w EXCEPT !.pc = "add", !.found = Existing(o, w.kind)]
    <3>1. w \in [pc : {"look", "add", "adopt"}, email : Emails \cup {Unset}, slug : Slugs, preset : Presets,
                 kind : 1..3, found : SUBSET Names]
      BY <1>0, <2>1 DEF Registrar, NoRegistrar, w
    <3> QED  BY <2>2, <3>1
  <2>4. registrar' = [registrar EXCEPT ![r] = v]
    BY <1>4, <2>3, RegistrationTypes DEF ReadNames, Ours, w, o
  <2>5. Opening(v) => Opening(w)  BY <2>1, <2>2 DEF Opening
  <2>6. FarEnough(v, o)
    <3>1. FarEnough(w, o)  BY <1>3, <2>1
    <3>2. (Unentered(v) <=> Unentered(w)) /\ (Working(v) <=> Working(w))
      BY <2>1, <2>2 DEF Unentered, Working, Opening
    <3> QED  BY <2>1, <2>2, <3>1, <3>2 DEF FarEnough
  <2>7. ASSUME v.slug \notin overlapped'
        PROVE  /\ \A n \in Lacks(v) : organisation[v.slug].items[v.kind][n] = 0
               /\ Lacks(v) # {} =>
                    \A q \in Registrars \ {r} : Adds(registrar[q], v.slug, v.kind) => Lacks(registrar[q]) = {}
    <3>1. ~Beside(r)  BY <2>1, <2>2, <2>7
    <3>2. \A q \in Registrars \ {r} : Adds(registrar[q], v.slug, v.kind) => Lacks(registrar[q]) = {}
      BY <2>2, <3>1 DEF Beside, Adds, Lacks, Missing, w
    <3>3. ASSUME NEW n \in Lacks(v) PROVE o.items[w.kind][n] = 0
      <4>1. n \in Names /\ n \notin Existing(o, w.kind)  BY <1>3, <2>1, <2>2 DEF Lacks
      <4>2. o.items[w.kind][n] \in 0..2  BY <1>3, <2>1, <4>1
      <4> QED  BY <4>1, <4>2 DEF Existing
    <3> QED  BY <2>2, <3>2, <3>3 DEF o
  <2>8. overlapped \subseteq overlapped' /\ overlapped' \subseteq Slugs
    BY <1>3, <2>1, RegistrationTypes
  <2> QED  BY <1>2, <2>1, <2>2, <2>4, <2>5, <2>6, <2>7, <2>8
<1>5. CASE NextKind(r)
  <2>1. /\ w.pc = "add" /\ w.kind < 3 /\ Lacks(w) = {} /\ UNCHANGED <<user, organisation, asked, overlapped, stopped>>
    BY <1>5 DEF NextKind, Missing, Lacks, w
  <2>2. w.kind + 1 \in 1..3  BY <1>3, <2>1
  <2>3. PICK v \in Registrar :
          /\ v = [w EXCEPT !.pc = "look", !.kind = w.kind + 1, !.found = {}]
          /\ v.pc = "look" /\ v.email = w.email /\ v.slug = w.slug /\ v.preset = w.preset /\ v.kind = w.kind + 1
          /\ v.found = {}
    <3>1. w \in [pc : {"look", "add", "adopt"}, email : Emails \cup {Unset}, slug : Slugs, preset : Presets,
                 kind : 1..3, found : SUBSET Names]
      BY <1>0, <2>1 DEF Registrar, NoRegistrar, w
    <3>2. {} \in SUBSET Names  BY DEF Existing
    <3>3. [w EXCEPT !.pc = "look", !.kind = w.kind + 1, !.found = {}] \in Registrar
      BY <2>2, <3>1, <3>2 DEF Registrar
    <3> QED  BY <3>1, <3>3
  <2>4. registrar' = [registrar EXCEPT ![r] = v]
    BY <1>5, <2>3, RegistrationTypes DEF NextKind, w
  <2>5. Opening(v) => Opening(w)  BY <2>1, <2>3 DEF Opening
  <2>6. FarEnough(v, o)
    <3>1. FarEnough(w, o)  BY <1>3, <2>1
    <3>2. (Unentered(v) <=> Unentered(w)) /\ (Working(v) <=> Working(w))
      BY <2>1, <2>3 DEF Unentered, Working, Opening
    <3>3. w.preset \subseteq Existing(o, w.kind)  BY <2>1, <3>1 DEF FarEnough, Lacks
    <3>4. \A k \in 1..3 : k < v.kind => v.preset \subseteq Existing(o, k)
      <4>1. \A k \in 1..3 : k < w.kind => w.preset \subseteq Existing(o, k)  BY <2>1, <3>1 DEF FarEnough
      <4>2. \A k \in 1..3 : k < v.kind => (k < w.kind \/ k = w.kind)  BY <1>3, <2>1, <2>3
      <4> QED  BY <2>3, <3>3, <4>1, <4>2
    <3> QED  BY <2>1, <2>3, <3>1, <3>2, <3>4 DEF FarEnough
  <2>7. overlapped \subseteq overlapped' /\ overlapped' \subseteq Slugs  BY <2>1, RegistrationTypes
  <2> QED  BY <1>2, <2>1, <2>3, <2>4, <2>5, <2>6, <2>7
<1>6. CASE AllAdded(r)
  <2>1. /\ w.pc = "add" /\ w.kind = 3 /\ Lacks(w) = {} /\ UNCHANGED <<user, organisation, asked, overlapped, stopped>>
    BY <1>6 DEF AllAdded, Missing, Lacks, w
  <2>2. FarEnough(w, o)  BY <1>3, <2>1
  <2>3. \A k \in 1..3 : w.preset \subseteq Existing(o, k)
    <3>1. w.preset \subseteq Existing(o, w.kind)  BY <2>1, <2>2 DEF FarEnough, Lacks
    <3>2. \A k \in 1..3 : k < w.kind => w.preset \subseteq Existing(o, k)  BY <2>1, <2>2 DEF FarEnough
    <3>3. \A k \in 1..3 : k < w.kind \/ k = w.kind  BY <2>1
    <3> QED  BY <3>1, <3>2, <3>3
  <2>4. overlapped \subseteq overlapped' /\ overlapped' \subseteq Slugs  BY <2>1, RegistrationTypes
  <2>5. CASE w.email = Unset
    <3>1. w \in [pc : {"look", "add", "adopt"}, email : Emails \cup {Unset}, slug : Slugs, preset : Presets,
                 kind : 1..3, found : SUBSET Names]
      BY <1>0, <2>1 DEF Registrar, NoRegistrar, w
    <3>2. PICK v \in Registrar : v = [w EXCEPT !.pc = "adopt"]  BY <3>1 DEF Registrar
    <3>3. v.pc = "adopt" /\ v.email = w.email /\ v.slug = w.slug /\ v.preset = w.preset  BY <3>1, <3>2
    <3>4. registrar' = [registrar EXCEPT ![r] = v]  BY <1>6, <2>5, <3>2 DEF AllAdded, w
    <3>5. ~Opening(v) /\ ~Unentered(v) /\ ~Unentered(w) /\ Working(w)
      BY <2>1, <2>5, <3>3 DEF Opening, Unentered, Working
    <3>6. FarEnough(v, o)  BY <2>1, <2>2, <2>3, <2>5, <3>3, <3>5 DEF FarEnough
    <3> QED  BY <1>2, <2>1, <2>4, <3>3, <3>4, <3>5, <3>6
  <2>6. CASE w.email # Unset
    <3>1. w.email \in Emails /\ w.slug \in Slugs /\ w.preset \in Presets
      BY <1>0, <2>1, <2>6, RegistrarTypes DEF w
    <3>2. PICK v \in Registrar : v = [pc |-> "owner", email |-> w.email, slug |-> w.slug, preset |-> w.preset]
      BY <3>1 DEF Registrar
    <3>3. v.pc = "owner" /\ v.email = w.email /\ v.slug = w.slug /\ v.preset = w.preset  BY <3>2
    <3>4. registrar' = [registrar EXCEPT ![r] = v]  BY <1>6, <2>6, <3>2 DEF AllAdded, w
    <3>5. Opening(w) /\ Unentered(v) /\ Unentered(w)
      BY <2>1, <2>6, <3>3 DEF Opening, Unentered
    <3>6. FarEnough(v, o)  BY <2>1, <2>2, <2>3, <2>6, <3>3, <3>5 DEF FarEnough
    <3> QED  BY <1>2, <2>1, <2>4, <3>3, <3>4, <3>5, <3>6
  <2> QED  BY <2>5, <2>6
<1>7. CASE RegistrationFails(r)
  <2>1. /\ registrar' = [registrar EXCEPT ![r] = NoRegistrar] /\ w.pc # "idle"
        /\ stopped' = IF w.pc \in {"count", "home"} THEN stopped \cup {w.slug} ELSE stopped
        /\ UNCHANGED <<user, organisation, asked, overlapped>>
    BY <1>0, <1>7, RegistrarTypes DEF RegistrationFails, w
  <2>2. NoRegistrar \in Registrar /\ NoRegistrar.pc = "idle"  BY DEF Registrar, NoRegistrar
  <2>3. w.pc \in {"count", "home"} => w.slug \in Slugs
    <3>1. w.pc \in {"count", "home"} => Working(w)  BY DEF Working, Opening
    <3> QED  BY <3>1, RegistrationTypes DEF RegistrationInv, WorkFits, w
  <2>4. ~Opening(NoRegistrar) /\ ~Working(NoRegistrar)  BY <2>2 DEF Opening, Working
  <2>5. stopped' \subseteq Slugs /\ stopped \subseteq stopped'  BY <2>1, <2>3, RegistrationTypes
  <2>6. \A s \in Opened : organisation[s].owner # Unset => Ended(s)'  BY <2>1, <2>5, EndedKept DEF w
  <2>7. user' \in Accounts /\ asked' \in 0..MaxBegun /\ overlapped' \subseteq Slugs
    BY <2>1, RegistrationTypes
  <2> QED  BY <2>1, <2>2, <2>4, <2>5, <2>6, <2>7, RegistrarMoves
<1> QED  BY <1>1, <1>4, <1>5, <1>6, <1>7

\* What a request works for.
LEMMA WorksFor ==
  ASSUME RegistrationInv, NEW r \in Registrars, Working(registrar[r])
  PROVE  LET w == registrar[r]
             o == organisation[w.slug]
         IN  /\ w \in Registrar /\ w.pc # "idle" /\ w.slug \in Opened /\ w.slug \in Slugs /\ w.preset \in Presets
             /\ w.email \in Emails \cup {Unset} /\ (Opening(w) => w.email \in Emails)
             /\ o \in Organisation /\ FarEnough(w, o)
<1>1. registrar[r] \in Registrar  BY RegistrationTypes
<1>2. registrar[r].slug \in Opened /\ FarEnough(registrar[r], organisation[registrar[r].slug])
  BY DEF RegistrationInv, WorkFits
<1>3. registrar[r].slug \in Slugs /\ organisation[registrar[r].slug] \in Organisation  BY <1>2, RegistrationTypes
<1> QED  BY <1>1, <1>2, <1>3, RegistrarTypes DEF Working, Opening

\* Nobody else works for an organisation that nobody has entered.
LEMMA AloneBefore ==
  ASSUME RegistrationInv, NEW r \in Registrars, Unentered(registrar[r])
  PROVE  /\ Opening(registrar[r]) /\ Working(registrar[r])
         /\ \A q \in Registrars \ {r} : Working(registrar[q]) => registrar[q].slug # registrar[r].slug
<1>1. Opening(registrar[r]) /\ Working(registrar[r])  BY DEF Unentered, Opening, Working
<1>2. ASSUME NEW q \in Registrars \ {r}, Working(registrar[q]), registrar[q].slug = registrar[r].slug PROVE FALSE
  <2>1. FarEnough(registrar[r], organisation[registrar[r].slug]) /\ FarEnough(registrar[q], organisation[registrar[r].slug])
    BY <1>1, <1>2 DEF RegistrationInv, WorkFits
  <2>2. organisation[registrar[r].slug].owner = Unset  BY <2>1 DEF FarEnough
  <2>3. Unentered(registrar[q])  BY <1>2, <2>1, <2>2 DEF FarEnough
  <2>4. Opening(registrar[q])  BY <2>3 DEF Unentered, Opening
  <2> QED  BY <1>1, <1>2, <2>4 DEF RegistrationInv, OpenersDiffer
<1> QED  BY <1>1, <1>2

\* A step that adds no row and of a request that does not go on to add one.
LEMMA SameRows ==
  ASSUME RegistrationInv, NEW r \in Registrars, NEW v \in Registrar, NEW s \in Opened \ overlapped, NEW o,
         registrar' = [registrar EXCEPT ![r] = v], organisation' = [organisation EXCEPT ![s] = o],
         v.pc # "add", o.items = organisation[s].items
  PROVE  \A k \in 1..3 : AloneAdding(s, k)'
<1> SUFFICES ASSUME NEW k \in 1..3 PROVE AloneAdding(s, k)'
  OBVIOUS
<1>1. organisation'[s] = o /\ \A q \in Registrars : registrar'[q] = IF q = r THEN v ELSE registrar[q]
  BY RegistrationTypes DEF Opened
<1>2. AloneAdding(s, k)  BY DEF RegistrationInv, Once
<1>3. \A q \in Registrars : Adds(registrar'[q], s, k) => registrar'[q] = registrar[q]  BY <1>1 DEF Adds
<1>4. /\ \A n \in Names : organisation'[s].items[k][n] <= 1
      /\ \A q \in Registrars : Adds(registrar'[q], s, k) =>
           /\ \A n \in Lacks(registrar'[q]) : organisation'[s].items[k][n] = 0
           /\ Lacks(registrar'[q]) # {} =>
                \A p \in Registrars \ {q} : Adds(registrar'[p], s, k) => Lacks(registrar'[p]) = {}
  BY <1>1, <1>2, <1>3 DEF AloneAdding
<1> QED  BY <1>4 DEF AloneAdding, Adds, Lacks

\* A write to an organisation nobody has entered, which nobody enters by it.
LEMMA OpeningWrites ==
  ASSUME RegistrationInv, NEW r \in Registrars, NEW v \in Registrar, NEW o \in Organisation,
         Unentered(registrar[r]), Unentered(v), v.pc # "add", v.email = registrar[r].email, v.slug = registrar[r].slug,
         registrar' = [registrar EXCEPT ![r] = v], organisation' = [organisation EXCEPT ![v.slug] = o],
         UNCHANGED <<user, asked, overlapped, stopped>>,
         o.items = organisation[v.slug].items, o.owner = Unset, FarEnough(v, o)
  PROVE  RegistrationInv'
<1>1. /\ Opening(registrar[r]) /\ Working(registrar[r])
      /\ \A q \in Registrars \ {r} : Working(registrar[q]) => registrar[q].slug # v.slug
  BY AloneBefore
<1>2. registrar[r].pc # "idle" /\ v.slug \in Opened /\ v.slug \in Slugs  BY <1>1, WorksFor
<1>3. \A q \in Registrars \ {r} : Opening(registrar[q]) => registrar[q].slug # v.slug  BY <1>1 DEF Working
<1>4. v.slug \notin overlapped => \A k \in 1..3 : AloneAdding(v.slug, k)'  BY <1>2, SameRows
<1>5. o # Unset  BY NoOrganisationAssumption
<1>6. PICK s \in Slugs : s = v.slug  BY <1>2
<1>7. /\ organisation' = [organisation EXCEPT ![s] = o] /\ registrar[r].slug = s
      /\ v.pc = "idle" \/ (v.email = registrar[r].email /\ v.slug = s)
      /\ Opening(v) => \A q \in Registrars \ {r} : Opening(registrar[q]) => registrar[q].slug # s
      /\ \A q \in Registrars \ {r} : (Working(registrar[q]) /\ registrar[q].slug = s) => FarEnough(registrar[q], o)
      /\ s \notin overlapped => \A k \in 1..3 : AloneAdding(s, k)'
  BY <1>1, <1>3, <1>4, <1>6
<1>8. Working(v) => FarEnough(v, o)  OBVIOUS
<1>9. o.owner # Unset =>
           /\ Furnished(o) /\ Ended(s)' /\ user[o.owner].there
           /\ \A q \in Registrars : (registrar'[q].pc # "idle" /\ registrar'[q].email = o.owner) =>
                registrar'[q].pc \in {"count", "home"} /\ registrar'[q].slug = s
  OBVIOUS
<1>10. /\ RegistrationInv /\ r \in Registrars /\ v \in Registrar /\ s \in Slugs /\ o \in Organisation
       /\ registrar' = [registrar EXCEPT ![r] = v] /\ UNCHANGED <<user, asked, overlapped, stopped>>
       /\ registrar[r].pc # "idle" /\ o # Unset
  BY <1>2, <1>5
<1>11. Changes(r, v, s, o)  BY ONLY <1>7, <1>8, <1>9, <1>10 DEF Changes
<1> QED  BY <1>11, OrganisationChanges

\* The calls that write the organisation before its setup is added.
LEMMA OpeningCallsKeep ==
  ASSUME RegistrationInv, NEW r \in Registrars,
         SeedSystemRoles(r) \/ CreateSubscription(r) \/ CreateUsage(r) \/ SeedDefaultWorkflow(r)
  PROVE  RegistrationInv'
<1> DEFINE w == registrar[r]
           o == organisation[w.slug]
<1>1. /\ w.pc \in {"roles", "trial", "usage", "workflow"}
      /\ UNCHANGED <<user, asked, overlapped, stopped>>
  BY DEF SeedSystemRoles, CreateSubscription, CreateUsage, SeedDefaultWorkflow, Calls, Keeps
<1>2. Unentered(w) /\ Working(w)  BY <1>1 DEF Unentered, Working, Opening
<1>3. /\ w \in Registrar /\ w.slug \in Slugs /\ w.preset \in Presets /\ w.email \in Emails
      /\ o \in Organisation /\ FarEnough(w, o) /\ Unset \notin Emails
  BY <1>2, AloneBefore, WorksFor
<1> HIDE DEF w, o
<1>4. o.owner = Unset /\ o.brought = w.preset  BY <1>2, <1>3 DEF FarEnough
<1>5. ASSUME NEW v \in Registrar, NEW p \in Organisation,
             v.pc \in {"trial", "usage", "workflow", "look"}, v.email = w.email, v.slug = w.slug, v.preset = w.preset,
             v.pc = "look" => v.kind = 1,
             registrar' = [registrar EXCEPT ![r] = v], organisation' = [organisation EXCEPT ![w.slug] = p],
             p.items = o.items, p.owner = Unset, p.brought = o.brought, p.roles,
             v.pc # "trial" => p.trial, v.pc \in {"workflow", "look"} => p.seats = 0, v.pc = "look" => p.workflow
      PROVE  RegistrationInv'
  <2>1. Unentered(v)  BY <1>3, <1>5 DEF Unentered
  <2>2. ~\E k \in 1..3 : k < 1  OBVIOUS
  <2>3. FarEnough(v, p)  BY <1>4, <1>5, <2>1, <2>2 DEF FarEnough
  <2>4. /\ RegistrationInv /\ r \in Registrars /\ v \in Registrar /\ p \in Organisation
        /\ Unentered(registrar[r]) /\ Unentered(v) /\ v.pc # "add" /\ v.email = registrar[r].email /\ v.slug = registrar[r].slug
        /\ registrar' = [registrar EXCEPT ![r] = v] /\ organisation' = [organisation EXCEPT ![v.slug] = p]
        /\ UNCHANGED <<user, asked, overlapped, stopped>>
        /\ p.items = organisation[v.slug].items /\ p.owner = Unset
    BY <1>1, <1>2, <1>5, <2>1 DEF w, o
  <2> QED  BY ONLY <2>3, <2>4, OpeningWrites
<1>6. CASE SeedSystemRoles(r)
  <2>1. PICK v : v = [w EXCEPT !.pc = "trial"]  OBVIOUS
  <2>2. PICK p : p = [o EXCEPT !.roles = TRUE]  OBVIOUS
  <2>3. w.pc = "roles" /\ registrar' = [registrar EXCEPT ![r] = v] /\ organisation' = [organisation EXCEPT ![w.slug] = p]
    BY <1>6, <2>1, <2>2 DEF SeedSystemRoles, Calls, Keeps, Ours, w, o
  <2>4. v \in Registrar /\ v.pc = "trial" /\ v.email = w.email /\ v.slug = w.slug /\ v.preset = w.preset
    BY <1>3, <2>1, <2>3, NextCall
  <2>5. p \in Organisation /\ p.items = o.items /\ p.owner = o.owner /\ p.brought = o.brought /\ p.roles
    BY <1>3, <2>2 DEF Organisation
  <2> QED  BY <1>4, <1>5, <2>3, <2>4, <2>5
<1>7. CASE CreateSubscription(r)
  <2>1. PICK v : v = [w EXCEPT !.pc = "usage"]  OBVIOUS
  <2>2. PICK p : p = [o EXCEPT !.trial = TRUE]  OBVIOUS
  <2>3. w.pc = "trial" /\ registrar' = [registrar EXCEPT ![r] = v] /\ organisation' = [organisation EXCEPT ![w.slug] = p]
    BY <1>7, <2>1, <2>2 DEF CreateSubscription, Calls, Keeps, Ours, w, o
  <2>4. v \in Registrar /\ v.pc = "usage" /\ v.email = w.email /\ v.slug = w.slug /\ v.preset = w.preset
    BY <1>3, <2>1, <2>3, NextCall
  <2>5. /\ p \in Organisation /\ p.items = o.items /\ p.owner = o.owner /\ p.brought = o.brought
        /\ p.roles = o.roles /\ p.trial
    BY <1>3, <2>2 DEF Organisation
  <2>6. o.roles  BY <1>3, <2>3 DEF FarEnough
  <2> QED  BY <1>4, <1>5, <2>3, <2>4, <2>5, <2>6
<1>8. CASE CreateUsage(r)
  <2>1. PICK v : v = [w EXCEPT !.pc = "workflow"]  OBVIOUS
  <2>2. PICK p : p = [o EXCEPT !.seats = 0]  OBVIOUS
  <2>3. w.pc = "usage" /\ registrar' = [registrar EXCEPT ![r] = v] /\ organisation' = [organisation EXCEPT ![w.slug] = p]
    BY <1>8, <2>1, <2>2 DEF CreateUsage, Calls, Keeps, Ours, w, o
  <2>4. v \in Registrar /\ v.pc = "workflow" /\ v.email = w.email /\ v.slug = w.slug /\ v.preset = w.preset
    BY <1>3, <2>1, <2>3, NextCall
  <2>5. /\ p \in Organisation /\ p.items = o.items /\ p.owner = o.owner /\ p.brought = o.brought
        /\ p.roles = o.roles /\ p.trial = o.trial /\ p.seats = 0
    BY <1>3, <2>2 DEF Organisation
  <2>6. o.roles /\ o.trial  BY <1>3, <2>3 DEF FarEnough
  <2> QED  BY <1>4, <1>5, <2>3, <2>4, <2>5, <2>6
<1>9. CASE SeedDefaultWorkflow(r)
  <2>1. PICK v : v = Adding(r, w.preset, w.slug, w.email)  OBVIOUS
  <2>2. PICK p : p = [o EXCEPT !.workflow = TRUE]  OBVIOUS
  <2>3. w.pc = "workflow" /\ registrar' = [registrar EXCEPT ![r] = v] /\ organisation' = [organisation EXCEPT ![w.slug] = p]
    BY <1>9, <2>1, <2>2 DEF SeedDefaultWorkflow, Keeps, Ours, w, o
  <2>4. v \in Registrar /\ v.pc = "look" /\ v.kind = 1 /\ v.email = w.email /\ v.slug = w.slug /\ v.preset = w.preset
    BY <1>3, <2>1 DEF Adding, Registrar
  <2>5. /\ p \in Organisation /\ p.items = o.items /\ p.owner = o.owner /\ p.brought = o.brought
        /\ p.roles = o.roles /\ p.trial = o.trial /\ p.seats = o.seats /\ p.workflow
    BY <1>3, <2>2 DEF Organisation
  <2>6. o.roles /\ o.trial /\ o.seats = 0  BY <1>3, <2>3 DEF FarEnough
  <2> QED  BY <1>4, <1>5, <2>3, <2>4, <2>5, <2>6
<1> QED  BY <1>6, <1>7, <1>8, <1>9

\* The call that takes the slug.
LEMMA CreateTenantKeeps ==
  ASSUME RegistrationInv, NEW r \in Registrars, CreateTenant(r) PROVE RegistrationInv'
<1>1. /\ registrar[r].pc = "open" /\ registrar[r].slug \notin Opened
      /\ UNCHANGED <<user, asked, overlapped, stopped>>
  BY DEF CreateTenant, Calls, Keeps
<1>2. registrar[r] \in Registrar /\ Unset \notin Emails  BY RegistrationTypes
<1>3. PICK s \in Slugs : s = registrar[r].slug  BY <1>1 DEF RegistrationInv, Chosen
<1>4. registrar[r].preset \in Presets  BY <1>1, <1>2, RegistrarTypes
<1>5. PICK v : v = [registrar[r] EXCEPT !.pc = "roles"]  OBVIOUS
<1>6. /\ v \in Registrar /\ v.pc = "roles" /\ v.email = registrar[r].email /\ v.slug = s
      /\ v.preset = registrar[r].preset
  BY <1>1, <1>2, <1>3, <1>5, NextCall
<1>7. PICK o : o = [roles |-> FALSE, trial |-> FALSE, workflow |-> FALSE, seats |-> Unset,
                    items |-> [k \in 1..3 |-> [n \in Names |-> 0]], owner |-> Unset, brought |-> registrar[r].preset]
  OBVIOUS
<1>8. o \in Organisation
  <2>1. [k \in 1..3 |-> [n \in Names |-> 0]] \in [1..3 -> [Names -> Copies]]  BY DEF Copies
  <2> QED  BY <1>4, <1>7, <2>1 DEF Organisation
<1>9. registrar' = [registrar EXCEPT ![r] = v] /\ organisation' = [organisation EXCEPT ![s] = o]
  BY <1>3, <1>5, <1>7 DEF CreateTenant, Calls, Keeps
<1>10. o # Unset  BY <1>8, NoOrganisationAssumption
<1>11. /\ o.owner = Unset /\ o.brought = v.preset
       /\ \A k \in 1..3, n \in Names : o.items[k][n] = 0
  BY <1>6, <1>7
<1>12. Unentered(v)  BY <1>6 DEF Unentered
<1>13. FarEnough(v, o)  BY <1>6, <1>11, <1>12 DEF FarEnough
<1>14. ASSUME NEW q \in Registrars, Working(registrar[q]) PROVE registrar[q].slug # s
  BY <1>1, <1>3, <1>14 DEF RegistrationInv, WorkFits
<1>15. \A q \in Registrars \ {r} : Opening(registrar[q]) => registrar[q].slug # s  BY <1>14 DEF Working
<1>16. ASSUME NEW k \in 1..3 PROVE AloneAdding(s, k)'
  <2>1. ASSUME NEW q \in Registrars PROVE ~Adds(registrar'[q], s, k)
    <3>1. CASE q = r  BY <1>6, <1>9, <3>1, RegistrationTypes DEF Adds
    <3>2. CASE q # r
      <4>1. registrar'[q] = registrar[q]  BY <1>9, <3>2, RegistrationTypes
      <4> QED  BY <1>14, <4>1 DEF Adds, Working
    <3> QED  BY <3>1, <3>2
  <2>2. organisation'[s] = o  BY <1>9, RegistrationTypes
  <2>3. \A n \in Names : organisation'[s].items[k][n] <= 1  BY <1>11, <2>2
  <2> QED  BY <2>1, <2>3 DEF AloneAdding, Adds
<1>17. /\ RegistrationInv /\ r \in Registrars /\ v \in Registrar /\ s \in Slugs /\ o \in Organisation
       /\ registrar' = [registrar EXCEPT ![r] = v] /\ organisation' = [organisation EXCEPT ![s] = o]
       /\ UNCHANGED <<user, asked, overlapped, stopped>>
       /\ registrar[r].pc # "idle" /\ registrar[r].slug = s /\ o # Unset
       /\ v.pc = "idle" \/ (v.email = registrar[r].email /\ v.slug = s)
       /\ \A q \in Registrars \ {r} : (Working(registrar[q]) /\ registrar[q].slug = s) => FarEnough(registrar[q], o)
       /\ s \notin overlapped => \A k \in 1..3 : AloneAdding(s, k)'
  BY <1>1, <1>3, <1>6, <1>8, <1>9, <1>10, <1>14, <1>16
<1>18. /\ Opening(v) => \A q \in Registrars \ {r} : Opening(registrar[q]) => registrar[q].slug # s
       /\ Working(v) => FarEnough(v, o)
  BY <1>13, <1>15
<1>19. o.owner # Unset =>
           /\ Furnished(o) /\ Ended(s)' /\ user[o.owner].there
           /\ \A q \in Registrars : (registrar'[q].pc # "idle" /\ registrar'[q].email = o.owner) =>
                registrar'[q].pc \in {"count", "home"} /\ registrar'[q].slug = s
  BY <1>11
<1>20. Changes(r, v, s, o)  BY ONLY <1>17, <1>18, <1>19 DEF Changes
<1> QED  BY <1>8, <1>6, <1>20, OrganisationChanges

\* The calls by which the owner enters and is counted, and the note of what was
\* added: none of them adds a row.
LEMMA EntryWrites ==
  ASSUME RegistrationInv, NEW r \in Registrars, NEW v \in Registrar, NEW s \in Slugs, NEW o \in Organisation,
         Working(registrar[r]), registrar[r].slug = s, v.pc # "add",
         registrar' = [registrar EXCEPT ![r] = v], organisation' = [organisation EXCEPT ![s] = o],
         UNCHANGED <<user, asked, overlapped, stopped>>,
         v.pc = "idle" \/ (v.email = registrar[r].email /\ v.slug = s), Opening(v) => Opening(registrar[r]),
         \A q \in Registrars \ {r} : (Working(registrar[q]) /\ registrar[q].slug = s) => FarEnough(registrar[q], o),
         Working(v) => FarEnough(v, o), o.items = organisation[s].items,
         Furnished(o), Ended(s)', user[o.owner].there,
         \A q \in Registrars : (registrar'[q].pc # "idle" /\ registrar'[q].email = o.owner) =>
           registrar'[q].pc \in {"count", "home"} /\ registrar'[q].slug = s
  PROVE  RegistrationInv'
<1>1. registrar[r].pc # "idle" /\ s \in Opened  BY WorksFor
<1>2. Opening(v) => \A q \in Registrars \ {r} : Opening(registrar[q]) => registrar[q].slug # s
  BY DEF RegistrationInv, OpenersDiffer
<1>3. s \notin overlapped => \A k \in 1..3 : AloneAdding(s, k)'
  <2> SUFFICES ASSUME s \notin overlapped PROVE \A k \in 1..3 : AloneAdding(s, k)'
    OBVIOUS
  <2>1. /\ RegistrationInv /\ r \in Registrars /\ v \in Registrar /\ s \in Opened \ overlapped
        /\ registrar' = [registrar EXCEPT ![r] = v] /\ organisation' = [organisation EXCEPT ![s] = o]
        /\ v.pc # "add" /\ o.items = organisation[s].items
    BY <1>1
  <2> QED  BY ONLY <2>1, SameRows
<1>4. o # Unset  BY NoOrganisationAssumption
<1>5. /\ RegistrationInv /\ r \in Registrars /\ v \in Registrar /\ s \in Slugs /\ o \in Organisation
      /\ registrar' = [registrar EXCEPT ![r] = v] /\ organisation' = [organisation EXCEPT ![s] = o]
      /\ UNCHANGED <<user, asked, overlapped, stopped>>
      /\ registrar[r].pc # "idle" /\ registrar[r].slug = s /\ o # Unset
      /\ v.pc = "idle" \/ (v.email = registrar[r].email /\ v.slug = s)
      /\ \A q \in Registrars \ {r} : (Working(registrar[q]) /\ registrar[q].slug = s) => FarEnough(registrar[q], o)
      /\ Working(v) => FarEnough(v, o)
  BY <1>1, <1>4
<1>6. o.owner # Unset =>
           /\ Furnished(o) /\ Ended(s)' /\ user[o.owner].there
           /\ \A q \in Registrars : (registrar'[q].pc # "idle" /\ registrar'[q].email = o.owner) =>
                registrar'[q].pc \in {"count", "home"} /\ registrar'[q].slug = s
  OBVIOUS
<1>7. Changes(r, v, s, o)  BY ONLY <1>2, <1>3, <1>5, <1>6 DEF Changes
<1> QED  BY <1>7, OrganisationChanges

\* An owner has an account, and registers nowhere but here.
LEMMA OwnerEntered ==
  ASSUME RegistrationInv, NEW s \in Opened, organisation[s].owner # Unset
  PROVE  /\ organisation[s].owner \in Emails /\ user[organisation[s].owner].there
         /\ Furnished(organisation[s]) /\ Ended(s)
         /\ \A q \in Registrars : (registrar[q].pc # "idle" /\ registrar[q].email = organisation[s].owner) =>
              registrar[q].pc \in {"count", "home"} /\ registrar[q].slug = s
<1>1. organisation[s].owner \in Emails  BY RegistrationTypes DEF Organisation
<1>2. user[organisation[s].owner].there /\ \A q \in Registrars : OwnerHere(registrar[q], s)
  BY DEF RegistrationInv, OwnersHaveAccounts
<1>3. Furnished(organisation[s]) /\ Ended(s)  BY DEF RegistrationInv, Whole
<1> QED  BY <1>1, <1>2, <1>3 DEF OwnerHere

\* An organisation whose registration goes on, or ended, after a step of another request.
LEMMA StillEnded ==
  ASSUME RegistrationInv, NEW r \in Registrars, NEW v, NEW s \in Opened, NEW o,
         registrar' = [registrar EXCEPT ![r] = v], organisation' = [organisation EXCEPT ![s] = o],
         UNCHANGED <<user, stopped>>, registrar[r].pc \notin {"count", "home"},
         o.seats = organisation[s].seats, o.owner = organisation[s].owner, Ended(s)
  PROVE  Ended(s)'
<1>1. organisation'[s] = o /\ \A q \in Registrars : q # r => registrar'[q] = registrar[q]
  BY RegistrationTypes DEF Opened
<1>2. BeingOpened(s) => BeingOpened(s)'  BY <1>1 DEF BeingOpened
<1> QED  BY <1>1, <1>2 DEF Ended

\* The note of what an organisation was given.
LEMMA AdoptIndustryKeeps ==
  ASSUME RegistrationInv, NEW r \in Registrars, AdoptIndustry(r) PROVE RegistrationInv'
<1>1. /\ registrar[r].pc = "adopt" /\ registrar' = [registrar EXCEPT ![r] = NoRegistrar]
      /\ UNCHANGED <<user, asked, overlapped, stopped>>
  BY DEF AdoptIndustry, Keeps
<1>2. Working(registrar[r]) /\ ~Unentered(registrar[r])  BY <1>1 DEF Working, Unentered
<1>3. PICK s \in Slugs, o \in Organisation, w \in Registrar :
        /\ w = registrar[r] /\ s = w.slug /\ o = organisation[s] /\ s \in Opened
        /\ w.preset \in Presets /\ FarEnough(w, o)
  BY <1>2, WorksFor
<1>4. o.owner # Unset /\ \A k \in 1..3 : w.preset \subseteq Existing(o, k)
  BY <1>1, <1>2, <1>3 DEF FarEnough
<1>5. PICK p : p = [o EXCEPT !.brought = o.brought \cup w.preset]  OBVIOUS
<1>6. /\ p \in Organisation /\ p.items = o.items /\ p.owner = o.owner /\ p.brought = o.brought \cup w.preset
      /\ p.roles = o.roles /\ p.trial = o.trial /\ p.seats = o.seats /\ p.workflow = o.workflow
  BY <1>3, <1>5 DEF Organisation, Presets
<1>7. organisation' = [organisation EXCEPT ![s] = p]  BY <1>3, <1>5 DEF AdoptIndustry, Keeps, Ours
<1>8. PICK v \in Registrar : v = NoRegistrar /\ v.pc = "idle" /\ ~Opening(v) /\ ~Working(v)
  <2>1. NoRegistrar \in Registrar /\ NoRegistrar.pc = "idle"  BY DEF Registrar, NoRegistrar
  <2> QED  BY <2>1 DEF Opening, Working
<1>9. /\ user[o.owner].there /\ Furnished(o) /\ Ended(s)
      /\ \A q \in Registrars : (registrar[q].pc # "idle" /\ registrar[q].email = o.owner) =>
           registrar[q].pc \in {"count", "home"} /\ registrar[q].slug = s
  BY <1>3, <1>4, OwnerEntered
<1>10. Furnished(p)  BY <1>4, <1>6, <1>9 DEF Furnished, Existing
<1>11. Ended(s)'
  <2>1. registrar[r].pc \notin {"count", "home"} /\ p.seats = organisation[s].seats /\ p.owner = organisation[s].owner
    BY <1>1, <1>3, <1>6
  <2>2. /\ RegistrationInv /\ r \in Registrars /\ s \in Opened /\ Ended(s)
        /\ registrar' = [registrar EXCEPT ![r] = v] /\ organisation' = [organisation EXCEPT ![s] = p]
        /\ UNCHANGED <<user, stopped>>
    BY <1>1, <1>3, <1>7, <1>8, <1>9
  <2> QED  BY ONLY <2>1, <2>2, StillEnded
<1>12. ASSUME NEW q \in Registrars \ {r}, Working(registrar[q]), registrar[q].slug = s PROVE FarEnough(registrar[q], p)
  <2>1. FarEnough(registrar[q], o)  BY <1>3, <1>12 DEF RegistrationInv, WorkFits
  <2>2. ~Unentered(registrar[q])  BY <1>4, <2>1 DEF FarEnough
  <2> QED  BY <1>6, <2>1, <2>2 DEF FarEnough, Existing
<1>13. \A q \in Registrars : (registrar'[q].pc # "idle" /\ registrar'[q].email = p.owner) =>
         registrar'[q].pc \in {"count", "home"} /\ registrar'[q].slug = s
  BY <1>1, <1>6, <1>8, <1>9, RegistrationTypes
<1>14. /\ RegistrationInv /\ r \in Registrars /\ v \in Registrar /\ s \in Slugs /\ p \in Organisation
       /\ Working(registrar[r]) /\ registrar[r].slug = s /\ v.pc # "add" /\ v.pc = "idle"
       /\ registrar' = [registrar EXCEPT ![r] = v] /\ organisation' = [organisation EXCEPT ![s] = p]
       /\ UNCHANGED <<user, asked, overlapped, stopped>>
       /\ (Opening(v) => Opening(registrar[r])) /\ (Working(v) => FarEnough(v, p))
       /\ p.items = organisation[s].items /\ user[p.owner].there
  BY <1>1, <1>2, <1>3, <1>6, <1>7, <1>8, <1>9
<1> QED  BY ONLY <1>10, <1>11, <1>12, <1>13, <1>14, EntryWrites

\* The call that lets the owner in.
LEMMA CreateOwnerMembershipKeeps ==
  ASSUME RegistrationInv, NEW r \in Registrars, CreateOwnerMembership(r) PROVE RegistrationInv'
<1>1. registrar[r].pc = "owner" /\ UNCHANGED <<user, asked, overlapped, stopped>>
  BY DEF CreateOwnerMembership, Calls, Keeps
<1>2. Unentered(registrar[r])  BY <1>1 DEF Unentered
<1>3. /\ Opening(registrar[r]) /\ Working(registrar[r])
      /\ \A q \in Registrars \ {r} : Working(registrar[q]) => registrar[q].slug # registrar[r].slug
  BY <1>2, AloneBefore
<1>4. PICK s \in Slugs, o \in Organisation, w \in Registrar :
        /\ w = registrar[r] /\ s = w.slug /\ o = organisation[s] /\ s \in Opened
        /\ w.preset \in Presets /\ w.email \in Emails /\ FarEnough(w, o)
  BY <1>3, WorksFor
<1>5. /\ o.roles /\ o.trial /\ o.workflow /\ o.seats = 0 /\ o.brought = w.preset
      /\ \A k \in 1..3 : w.preset \subseteq Existing(o, k)
  BY <1>1, <1>2, <1>4 DEF FarEnough
<1>6. PICK p : p = [o EXCEPT !.owner = w.email]  OBVIOUS
<1>7. /\ p \in Organisation /\ p.items = o.items /\ p.owner = w.email /\ p.brought = o.brought
      /\ p.roles = o.roles /\ p.trial = o.trial /\ p.seats = o.seats /\ p.workflow = o.workflow
  BY <1>4, <1>6 DEF Organisation
<1>8. PICK v : v = [w EXCEPT !.pc = "count"]  OBVIOUS
<1>9. /\ registrar' = [registrar EXCEPT ![r] = v] /\ organisation' = [organisation EXCEPT ![s] = p]
  BY <1>4, <1>6, <1>8 DEF CreateOwnerMembership, Calls, Keeps, Ours
<1>10. v \in Registrar /\ v.pc = "count" /\ v.email = w.email /\ v.slug = w.slug /\ v.preset = w.preset
  BY <1>1, <1>4, <1>8, NextCall
<1>11. Furnished(p)  BY <1>5, <1>7 DEF Furnished, Existing
<1>12. \A q \in Registrars : registrar'[q] = IF q = r THEN v ELSE registrar[q]  BY <1>9, RegistrationTypes
<1>13. Ended(s)'
  <2>1. registrar'[r].pc \in {"count", "home"} /\ registrar'[r].slug = s  BY <1>4, <1>10, <1>12
  <2> QED  BY <2>1 DEF Ended, BeingOpened
<1>14. w.email # Unset /\ user[p.owner].there
  BY <1>1, <1>4, <1>7, RegistrationTypes DEF RegistrationInv, OwnersHaveAccounts
<1>15. \A q \in Registrars : (registrar'[q].pc # "idle" /\ registrar'[q].email = p.owner) =>
         registrar'[q].pc \in {"count", "home"} /\ registrar'[q].slug = s
  <2> SUFFICES ASSUME NEW q \in Registrars, registrar'[q].pc # "idle", registrar'[q].email = w.email
               PROVE  registrar'[q].pc \in {"count", "home"} /\ registrar'[q].slug = s
    BY <1>7
  <2>1. CASE q = r  BY <1>4, <1>10, <1>12, <2>1
  <2>2. CASE q # r  BY <1>1, <1>4, <1>12, <1>14, <2>2 DEF RegistrationInv, OpenersDiffer
  <2> QED  BY <2>1, <2>2
<1>16. ~Unentered(v)  BY <1>10 DEF Unentered
<1>17. FarEnough(v, p)  BY <1>5, <1>7, <1>10, <1>14, <1>16 DEF FarEnough
<1>18. /\ RegistrationInv /\ r \in Registrars /\ v \in Registrar /\ s \in Slugs /\ p \in Organisation
       /\ Working(registrar[r]) /\ registrar[r].slug = s /\ v.pc # "add" /\ v.email = registrar[r].email /\ v.slug = s
       /\ registrar' = [registrar EXCEPT ![r] = v] /\ organisation' = [organisation EXCEPT ![s] = p]
       /\ UNCHANGED <<user, asked, overlapped, stopped>>
       /\ Opening(registrar[r])
       /\ \A q \in Registrars \ {r} : ~(Working(registrar[q]) /\ registrar[q].slug = s)
       /\ p.items = organisation[s].items
  BY <1>1, <1>3, <1>4, <1>7, <1>9, <1>10
<1> QED  BY ONLY <1>11, <1>13, <1>14, <1>15, <1>17, <1>18, EntryWrites

\* The call that counts the owner.
LEMMA IncrementSeatsKeeps ==
  ASSUME RegistrationInv, NEW r \in Registrars, IncrementSeats(r) PROVE RegistrationInv'
<1>1. registrar[r].pc = "count" /\ UNCHANGED <<user, asked, overlapped, stopped>>
  BY DEF IncrementSeats, Calls, Keeps
<1>2. Opening(registrar[r]) /\ Working(registrar[r]) /\ ~Unentered(registrar[r])  BY <1>1 DEF Opening, Working, Unentered
<1>3. PICK s \in Slugs, o \in Organisation, w \in Registrar :
        /\ w = registrar[r] /\ s = w.slug /\ o = organisation[s] /\ s \in Opened
        /\ w.preset \in Presets /\ w.email \in Emails /\ FarEnough(w, o)
  BY <1>2, WorksFor
<1>4. o.seats = 0 /\ o.owner = w.email /\ o.owner # Unset /\ o.roles /\ o.trial /\ o.workflow
  BY <1>1, <1>2, <1>3 DEF FarEnough
<1>5. PICK p : p = [o EXCEPT !.seats = o.seats + 1]  OBVIOUS
<1>6. /\ p \in Organisation /\ p.items = o.items /\ p.owner = o.owner /\ p.brought = o.brought
      /\ p.roles = o.roles /\ p.trial = o.trial /\ p.seats = 1 /\ p.workflow = o.workflow
  <2>1. o.seats + 1 = 1  BY <1>4
  <2>2. p = [o EXCEPT !.seats = 1]  BY <1>5, <2>1
  <2> QED  BY <1>3, <2>2 DEF Organisation
<1>7. PICK v : v = [w EXCEPT !.pc = "home"]  OBVIOUS
<1>8. registrar' = [registrar EXCEPT ![r] = v] /\ organisation' = [organisation EXCEPT ![s] = p]
  BY <1>3, <1>5, <1>7 DEF IncrementSeats, Calls, Keeps, Ours
<1>9. v \in Registrar /\ v.pc = "home" /\ v.email = w.email /\ v.slug = w.slug /\ v.preset = w.preset
  BY <1>1, <1>3, <1>7, NextCall
<1>10. /\ user[o.owner].there /\ Furnished(o)
       /\ \A q \in Registrars : (registrar[q].pc # "idle" /\ registrar[q].email = o.owner) =>
            registrar[q].pc \in {"count", "home"} /\ registrar[q].slug = s
  BY <1>3, <1>4, OwnerEntered
<1>11. Furnished(p)  BY <1>6, <1>10 DEF Furnished, Existing
<1>12. \A q \in Registrars : registrar'[q] = IF q = r THEN v ELSE registrar[q]  BY <1>8, RegistrationTypes
<1>13. Ended(s)'
  <2>1. registrar'[r].pc \in {"count", "home"} /\ registrar'[r].slug = s  BY <1>3, <1>9, <1>12
  <2> QED  BY <2>1 DEF Ended, BeingOpened
<1>14. \A q \in Registrars : (registrar'[q].pc # "idle" /\ registrar'[q].email = p.owner) =>
         registrar'[q].pc \in {"count", "home"} /\ registrar'[q].slug = s
  BY <1>3, <1>6, <1>9, <1>10, <1>12
<1>15. ASSUME NEW q \in Registrars \ {r}, Working(registrar[q]), registrar[q].slug = s PROVE FarEnough(registrar[q], p)
  <2>1. FarEnough(registrar[q], o)  BY <1>3, <1>15 DEF RegistrationInv, WorkFits
  <2>2. ~Opening(registrar[q])  BY <1>2, <1>3, <1>15 DEF RegistrationInv, OpenersDiffer
  <2> QED  BY <1>6, <2>1, <2>2 DEF FarEnough, Existing, Opening
<1>16. ~Unentered(v)  BY <1>9 DEF Unentered
<1>17. FarEnough(v, p)  BY <1>4, <1>6, <1>9, <1>16 DEF FarEnough
<1>18. /\ RegistrationInv /\ r \in Registrars /\ v \in Registrar /\ s \in Slugs /\ p \in Organisation
       /\ Working(registrar[r]) /\ registrar[r].slug = s /\ v.pc # "add" /\ v.email = registrar[r].email /\ v.slug = s
       /\ registrar' = [registrar EXCEPT ![r] = v] /\ organisation' = [organisation EXCEPT ![s] = p]
       /\ UNCHANGED <<user, asked, overlapped, stopped>>
       /\ Opening(registrar[r]) /\ p.items = organisation[s].items /\ user[p.owner].there
  BY <1>1, <1>2, <1>3, <1>6, <1>8, <1>9, <1>10
<1> QED  BY ONLY <1>11, <1>13, <1>14, <1>15, <1>17, <1>18, EntryWrites

\* The call that makes the owner at home.
LEMMA SetDefaultTenantKeeps ==
  ASSUME RegistrationInv, NEW r \in Registrars, SetDefaultTenant(r) PROVE RegistrationInv'
<1>1. /\ registrar[r].pc = "home" /\ UNCHANGED <<organisation, asked, overlapped, stopped>>
      /\ registrar' = [registrar EXCEPT ![r] = NoRegistrar]
      /\ user' = [user EXCEPT ![registrar[r].email].home = registrar[r].slug]
  BY DEF SetDefaultTenant
<1>2. Opening(registrar[r]) /\ Working(registrar[r]) /\ ~Unentered(registrar[r])  BY <1>1 DEF Opening, Working, Unentered
<1>3. PICK s \in Slugs, o \in Organisation, w \in Registrar :
        /\ w = registrar[r] /\ s = w.slug /\ o = organisation[s] /\ s \in Opened
        /\ w.email \in Emails /\ FarEnough(w, o)
  BY <1>2, WorksFor
<1>4. o.seats = 1 /\ o.owner = w.email  BY <1>1, <1>3 DEF FarEnough
<1>5. /\ user' \in Accounts /\ \A e \in Emails : user'[e].there = user[e].there
      /\ user'[w.email].home = s /\ \A e \in Emails \ {w.email} : user'[e] = user[e]
  BY <1>1, <1>3, RegistrationTypes DEF Accounts
<1>6. PICK v \in Registrar : v = NoRegistrar /\ v.pc = "idle" /\ ~Opening(v) /\ ~Working(v)
  <2>1. NoRegistrar \in Registrar /\ NoRegistrar.pc = "idle"  BY DEF Registrar, NoRegistrar
  <2> QED  BY <2>1 DEF Opening, Working
<1>7. ASSUME NEW t \in Opened, organisation[t].owner # Unset PROVE Ended(t)'
  <2>1. CASE t = s
    <3>1. organisation'[t].seats = 1 /\ user'[organisation'[t].owner].home = t  BY <1>1, <1>3, <1>4, <1>5, <2>1
    <3> QED  BY <3>1 DEF Ended
  <2>2. CASE t # s
    <3>1. /\ organisation[t].owner \in Emails /\ Ended(t)
          /\ (registrar[r].pc # "idle" /\ registrar[r].email = organisation[t].owner) => registrar[r].slug = t
      BY <1>7, OwnerEntered
    <3>2. organisation[t].owner # w.email  BY <1>1, <1>3, <2>2, <3>1
    <3>3. BeingOpened(t) => BeingOpened(t)'
      <4> SUFFICES ASSUME NEW q \in Registrars, registrar[q].pc \in {"count", "home"}, registrar[q].slug = t
                   PROVE  registrar'[q].pc \in {"count", "home"} /\ registrar'[q].slug = t
        BY DEF BeingOpened
      <4>1. q # r  BY <1>3, <2>2
      <4> QED  BY <1>1, <4>1, RegistrationTypes
    <3> QED  BY <1>1, <1>5, <3>1, <3>2, <3>3 DEF Ended
  <2> QED  BY <2>1, <2>2
<1>8. asked' \in 0..MaxBegun /\ overlapped \subseteq overlapped' /\ overlapped' \subseteq Slugs /\ stopped' \subseteq Slugs
  BY <1>1, RegistrationTypes
<1> QED  BY <1>1, <1>5, <1>6, <1>7, <1>8, RegistrarMoves

\* More rows leave every request as far as it was.
LEMMA RowsGrow ==
  ASSUME NEW x, NEW o, NEW p, FarEnough(x, o),
         p.roles = o.roles, p.trial = o.trial, p.workflow = o.workflow, p.seats = o.seats,
         p.owner = o.owner, p.brought = o.brought, x.pc \in {"look", "add"} => x.kind \in 1..3,
         \A k \in 1..3 : Existing(o, k) \subseteq Existing(p, k)
  PROVE  FarEnough(x, p)
<1>1. /\ x.pc \in {"owner", "adopt"} => \A k \in 1..3 : x.preset \subseteq Existing(p, k)
      /\ x.pc \in {"look", "add"} => \A k \in 1..3 : k < x.kind => x.preset \subseteq Existing(p, k)
      /\ x.pc = "add" => x.found \subseteq Existing(p, x.kind)
  BY DEF FarEnough
<1> QED  BY <1>1 DEF FarEnough

\* A row that is added.
LEMMA AddRowKeeps ==
  ASSUME RegistrationInv, NEW r \in Registrars, NEW n \in Names, AddRow(r, n) PROVE RegistrationInv'
<1>1. Working(registrar[r]) /\ registrar[r].pc = "add"  BY DEF AddRow, Working
<1>2. PICK s \in Slugs, o \in Organisation, w \in Registrar :
        /\ w = registrar[r] /\ s = w.slug /\ o = organisation[s] /\ s \in Opened /\ w.pc = "add"
        /\ w.kind \in 1..3 /\ w.found \subseteq Names /\ w.email \in Emails \cup {Unset} /\ w.preset \subseteq Names
        /\ FarEnough(w, o)
  BY <1>1, WorksFor, RegistrarTypes DEF Presets
<1>3. PICK h \in 1..3 : h = w.kind  BY <1>2
<1>4. n \in Lacks(w) /\ o.items[h][n] < 2  BY <1>2, <1>3 DEF AddRow, Missing, Lacks, Ours
<1>0. PICK p : p = [Ours(r) EXCEPT !.items[registrar[r].kind][n] = @ + 1] /\ Keeps(r, p)  BY DEF AddRow
<1>5. p = [o EXCEPT !.items[h][n] = o.items[h][n] + 1]  BY <1>0, <1>2, <1>3 DEF Ours
<1>6. o.items \in [1..3 -> [Names -> 0..2]]  BY DEF Organisation, Copies
<1>7. /\ p.items = [o.items EXCEPT ![h] = [o.items[h] EXCEPT ![n] = o.items[h][n] + 1]]
      /\ p.owner = o.owner /\ p.brought = o.brought
      /\ p.roles = o.roles /\ p.trial = o.trial /\ p.seats = o.seats /\ p.workflow = o.workflow
  BY <1>5 DEF Organisation
<1>8. p \in Organisation
  <2>1. o.items[h][n] \in 0..2  BY <1>6
  <2>2. o.items[h][n] + 1 \in 0..2  BY <1>4, <2>1
  <2>3. PICK rows : rows = [o.items[h] EXCEPT ![n] = o.items[h][n] + 1]  OBVIOUS
  <2>4. rows \in [Names -> Copies]  BY <1>6, <2>2, <2>3 DEF Copies
  <2>5. [o.items EXCEPT ![h] = rows] \in [1..3 -> [Names -> Copies]]  BY <1>6, <2>4 DEF Copies
  <2>6. p = [o EXCEPT !.items = [o.items EXCEPT ![h] = rows]]  BY <1>5, <2>3
  <2> QED  BY <2>5, <2>6 DEF Organisation
<1>9. \A k \in 1..3, m \in Names :
        p.items[k][m] = IF k = h /\ m = n THEN o.items[h][n] + 1 ELSE o.items[k][m]
  BY <1>6, <1>7
<1>10. /\ organisation' = [organisation EXCEPT ![s] = p]
       /\ UNCHANGED <<user, asked, overlapped, stopped>>
  BY <1>0, <1>2 DEF Keeps
<1>11. PICK v : v = [w EXCEPT !.found = w.found \cup {n}]  OBVIOUS
<1>12. registrar' = [registrar EXCEPT ![r] = v]  BY <1>2, <1>11 DEF AddRow
<1>13. /\ v \in Registrar /\ v.pc = "add" /\ v.email = w.email /\ v.slug = w.slug /\ v.preset = w.preset
       /\ v.kind = w.kind /\ v.found = w.found \cup {n}
  <2>1. w \in [pc : {"look", "add", "adopt"}, email : Emails \cup {Unset}, slug : Slugs, preset : Presets,
               kind : 1..3, found : SUBSET Names]
    BY <1>2 DEF Registrar, NoRegistrar
  <2>2. PICK f \in SUBSET Names : f = w.found \cup {n}  BY <1>2
  <2>3. [w EXCEPT !.found = f] \in Registrar  BY <2>1 DEF Registrar
  <2> QED  BY <1>2, <1>11, <2>1, <2>2, <2>3
<1>14. \A q \in Registrars : registrar'[q] = IF q = r THEN v ELSE registrar[q]  BY <1>12, RegistrationTypes
<1>15. (\A k \in 1..3 : Existing(o, k) \subseteq Existing(p, k)) /\ n \in Existing(p, h)
  <2>1. o.items[h][n] \in 0..2 /\ o.items[h][n] + 1 > 0  BY <1>6
  <2>2. p.items[h][n] > 0  BY <1>9, <2>1
  <2>3. \A k \in 1..3, m \in Names : o.items[k][m] > 0 => p.items[k][m] > 0  BY <1>9, <2>1
  <2> QED  BY <2>2, <2>3 DEF Existing
<1>16. ASSUME NEW q \in Registrars \ {r}, Working(registrar[q]), registrar[q].slug = s PROVE FarEnough(registrar[q], p)
  <2>1. FarEnough(registrar[q], o)  BY <1>2, <1>16 DEF RegistrationInv, WorkFits
  <2>2. registrar[q].pc \in {"look", "add"} => registrar[q].kind \in 1..3  BY RegistrationTypes, RegistrarTypes
  <2>3. \A k \in 1..3 : Existing(o, k) \subseteq Existing(p, k)  BY <1>15
  <2> QED  BY <1>7, <2>1, <2>2, <2>3, RowsGrow
<1>17. FarEnough(v, p)
  <2>1. FarEnough(w, p)  BY <1>2, <1>7, <1>15, RowsGrow
  <2>2. (Unentered(v) <=> Unentered(w)) /\ (Working(v) <=> Working(w))  BY <1>2, <1>13 DEF Unentered, Working, Opening
  <2>3. v.found \subseteq Existing(p, v.kind)  BY <1>2, <1>3, <1>13, <1>15, <2>1 DEF FarEnough
  <2> QED  BY <1>2, <1>13, <2>1, <2>2, <2>3 DEF FarEnough
<1>18. p.owner # Unset =>
           /\ Furnished(p) /\ Ended(s)' /\ user[p.owner].there
           /\ \A q \in Registrars : (registrar'[q].pc # "idle" /\ registrar'[q].email = p.owner) =>
                registrar'[q].pc \in {"count", "home"} /\ registrar'[q].slug = s
  <2> SUFFICES ASSUME o.owner # Unset
               PROVE  /\ Furnished(p) /\ Ended(s)' /\ user[p.owner].there
                      /\ \A q \in Registrars : (registrar'[q].pc # "idle" /\ registrar'[q].email = p.owner) =>
                           registrar'[q].pc \in {"count", "home"} /\ registrar'[q].slug = s
    BY <1>7
  <2>1. /\ user[o.owner].there /\ Furnished(o) /\ Ended(s)
        /\ \A q \in Registrars : (registrar[q].pc # "idle" /\ registrar[q].email = o.owner) =>
             registrar[q].pc \in {"count", "home"} /\ registrar[q].slug = s
    BY <1>2, OwnerEntered
  <2>2. Furnished(p)  BY <1>7, <1>15, <2>1 DEF Furnished
  <2>3. Ended(s)'
    <3>1. registrar[r].pc \notin {"count", "home"} /\ p.seats = organisation[s].seats /\ p.owner = organisation[s].owner
      BY <1>1, <1>2, <1>7
    <3>2. /\ RegistrationInv /\ r \in Registrars /\ s \in Opened /\ Ended(s)
          /\ registrar' = [registrar EXCEPT ![r] = v] /\ organisation' = [organisation EXCEPT ![s] = p]
          /\ UNCHANGED <<user, stopped>>
      BY <1>2, <1>10, <1>12, <2>1
    <3> QED  BY ONLY <3>1, <3>2, StillEnded
  <2> QED  BY <1>2, <1>7, <1>13, <1>14, <2>1, <2>2, <2>3
<1>19. s \notin overlapped => \A k \in 1..3 : AloneAdding(s, k)'
  <2> SUFFICES ASSUME s \notin overlapped, NEW k \in 1..3 PROVE AloneAdding(s, k)'
    OBVIOUS
  <2>1. AloneAdding(s, k)  BY <1>2 DEF RegistrationInv, Once
  <2>2. organisation'[s] = p  BY <1>10, RegistrationTypes
  <2>3. /\ \A m \in Names : p.items[k][m] <= 1
        /\ \A q \in Registrars : Adds(registrar'[q], s, k) =>
             /\ \A m \in Lacks(registrar'[q]) : p.items[k][m] = 0
             /\ Lacks(registrar'[q]) # {} =>
                  \A x \in Registrars \ {q} : Adds(registrar'[x], s, k) => Lacks(registrar'[x]) = {}
    <3>1. CASE k # h
      <4>1. \A m \in Names : p.items[k][m] = o.items[k][m]  BY <1>9, <3>1
      <4>2. \A q \in Registrars : Adds(registrar'[q], s, k) => q # r /\ registrar'[q] = registrar[q]
        BY <1>3, <1>13, <1>14, <3>1 DEF Adds
      <4>3. \A q \in Registrars : Adds(registrar[q], s, k) => Lacks(registrar[q]) \subseteq Names
        BY RegistrationTypes, RegistrarTypes DEF Adds, Lacks, Presets
      <4> QED  BY <1>2, <2>1, <4>1, <4>2, <4>3 DEF AloneAdding
    <3>2. CASE k = h
      <4>1. Adds(w, s, k) /\ Lacks(w) # {}  BY <1>2, <1>3, <1>4, <3>2 DEF Adds
      <4>2. \A q \in Registrars \ {r} : Adds(registrar[q], s, k) => Lacks(registrar[q]) = {}
        BY <1>2, <2>1, <4>1 DEF AloneAdding
      <4>3. \A m \in Lacks(w) : o.items[h][m] = 0  BY <1>2, <2>1, <3>2, <4>1 DEF AloneAdding
      <4>4. \A m \in Names : o.items[h][m] <= 1  BY <1>2, <2>1, <3>2 DEF AloneAdding
      <4>5. o.items[h][n] + 1 = 1  BY <1>4, <4>3
      <4>6. \A m \in Names : p.items[h][m] <= 1  BY <1>9, <4>4, <4>5
      <4>7. Lacks(v) = Lacks(w) \ {n} /\ Lacks(v) \subseteq Names  BY <1>2, <1>13 DEF Lacks
      <4>8. \A m \in Lacks(v) : p.items[h][m] = 0  BY <1>9, <4>3, <4>7
      <4>9. ASSUME NEW q \in Registrars, Adds(registrar'[q], s, k)
            PROVE  /\ \A m \in Lacks(registrar'[q]) : p.items[h][m] = 0
                   /\ Lacks(registrar'[q]) # {} =>
                        \A x \in Registrars \ {q} : Adds(registrar'[x], s, k) => Lacks(registrar'[x]) = {}
        <5>1. CASE q = r
          <6>1. \A x \in Registrars \ {q} : registrar'[x] = registrar[x]  BY <1>14, <5>1
          <6> QED  BY <1>14, <4>2, <4>8, <5>1, <6>1
        <5>2. CASE q # r
          <6>1. registrar'[q] = registrar[q]  BY <1>14, <5>2
          <6>2. Lacks(registrar'[q]) = {}  BY <4>2, <4>9, <5>2, <6>1
          <6> QED  BY <6>2
        <5> QED  BY <5>1, <5>2
      <4> QED  BY <3>2, <4>6, <4>9
    <3> QED  BY <3>1, <3>2
  <2> QED  BY <2>2, <2>3 DEF AloneAdding, Adds, Lacks
<1>20. p # Unset  BY <1>8, NoOrganisationAssumption
<1>21. Opening(v) => \A q \in Registrars \ {r} : Opening(registrar[q]) => registrar[q].slug # s
  <2>1. Opening(v) => Opening(w)  BY <1>2, <1>13 DEF Opening
  <2> QED  BY <1>2, <2>1 DEF RegistrationInv, OpenersDiffer
<1>22. /\ RegistrationInv /\ r \in Registrars /\ v \in Registrar /\ s \in Slugs /\ p \in Organisation
       /\ registrar' = [registrar EXCEPT ![r] = v] /\ organisation' = [organisation EXCEPT ![s] = p]
       /\ UNCHANGED <<user, asked, overlapped, stopped>>
       /\ registrar[r].pc # "idle" /\ registrar[r].slug = s /\ p # Unset
       /\ v.pc = "idle" \/ (v.email = registrar[r].email /\ v.slug = s)
       /\ Working(v) => FarEnough(v, p)
       /\ \A q \in Registrars \ {r} : (Working(registrar[q]) /\ registrar[q].slug = s) => FarEnough(registrar[q], p)
  BY <1>1, <1>2, <1>8, <1>10, <1>12, <1>13, <1>16, <1>17, <1>20
<1>23. Changes(r, v, s, p)  BY ONLY <1>18, <1>19, <1>21, <1>22 DEF Changes
<1> QED  BY <1>8, <1>13, <1>23, OrganisationChanges

\* Nothing has been asked yet.
LEMMA RegistrationInitInv == RegistrationInit => RegistrationInv
<1> SUFFICES ASSUME RegistrationInit PROVE RegistrationInv
  OBVIOUS
<1> USE DEF RegistrationInit
<1>1. \A r \in Registrars : registrar[r] = NoRegistrar /\ registrar[r].pc = "idle"  BY DEF NoRegistrar
<1>2. \A r \in Registrars : ~Opening(registrar[r]) /\ ~Working(registrar[r])
  BY <1>1 DEF Opening, Working
<1>3. Opened = {}  BY DEF Opened
<1>4. RegistrationTypeOK  BY DEF RegistrationTypeOK, Registrar
<1>5. OpenersDiffer /\ Chosen  BY <1>1, <1>2 DEF OpenersDiffer, Chosen
<1>6. OwnersHaveAccounts  BY <1>1, <1>3 DEF OwnersHaveAccounts
<1>7. WorkFits /\ Whole /\ Once  BY <1>2, <1>3 DEF WorkFits, Whole, Once
<1> QED  BY <1>4, <1>5, <1>6, <1>7 DEF RegistrationInv

\* A step that changes nothing.
LEMMA RegistrationStutters ==
  ASSUME RegistrationInv, UNCHANGED registrationVars PROVE RegistrationInv'
<1> USE DEF registrationVars
<1>1. RegistrationTypeOK' /\ Chosen' /\ OpenersDiffer'
  BY DEF RegistrationInv, RegistrationTypeOK, Chosen, OpenersDiffer
<1>2. Opened' = Opened  BY DEF Opened
<1>3. OwnersHaveAccounts' /\ WorkFits'
  BY <1>2 DEF RegistrationInv, OwnersHaveAccounts, OwnerHere, WorkFits, FarEnough, Existing
<1>4. Whole'  BY <1>2 DEF RegistrationInv, Whole, Ended, BeingOpened, Furnished, Existing
<1>5. Once'
  <2> SUFFICES ASSUME NEW s \in Opened \ overlapped, NEW k \in 1..3 PROVE AloneAdding(s, k)'
    BY <1>2 DEF Once
  <2>1. AloneAdding(s, k)  BY DEF RegistrationInv, Once
  <2>2. organisation' = organisation /\ registrar' = registrar  OBVIOUS
  <2> QED  BY ONLY <2>1, <2>2 DEF AloneAdding, Adds, Lacks
<1> QED  BY <1>1, <1>3, <1>4, <1>5 DEF RegistrationInv

\* Every step of every request keeps the invariant.
LEMMA RegistrationInductive == RegistrationInv /\ [RegistrationNext]_registrationVars => RegistrationInv'
<1> SUFFICES ASSUME RegistrationInv, [RegistrationNext]_registrationVars PROVE RegistrationInv'
  OBVIOUS
<1>1. ASSUME NEW r \in Registrars,
             \/ \E preset \in Presets :
                  \/ \E e \in Emails : CreateUser(r, e, preset)
                  \/ \E s \in Slugs : ApplyPreset(r, s, preset)
             \/ UniqueSlug(r) \/ SlugIsAvailable(r) \/ CreateTenant(r) \/ SeedSystemRoles(r)
             \/ CreateSubscription(r) \/ CreateUsage(r) \/ SeedDefaultWorkflow(r)
             \/ ReadNames(r) \/ \E n \in Names : AddRow(r, n)
             \/ NextKind(r) \/ AllAdded(r) \/ AdoptIndustry(r)
             \/ CreateOwnerMembership(r) \/ IncrementSeats(r) \/ SetDefaultTenant(r)
             \/ RegistrationFails(r)
      PROVE  RegistrationInv'
  <2>1. CASE (\E e \in Emails, preset \in Presets : CreateUser(r, e, preset)) \/ UniqueSlug(r) \/ SlugIsAvailable(r)
    BY <2>1, FirstCallsKeep
  <2>2. CASE \/ \E s \in Slugs, preset \in Presets : ApplyPreset(r, s, preset)
             \/ ReadNames(r) \/ NextKind(r) \/ AllAdded(r) \/ RegistrationFails(r)
    BY <2>2, SetupCallsKeep
  <2>3. CASE SeedSystemRoles(r) \/ CreateSubscription(r) \/ CreateUsage(r) \/ SeedDefaultWorkflow(r)
    BY <2>3, OpeningCallsKeep
  <2>4. CASE CreateTenant(r)  BY <2>4, CreateTenantKeeps
  <2>5. CASE \E n \in Names : AddRow(r, n)  BY <2>5, AddRowKeeps
  <2>6. CASE AdoptIndustry(r)  BY <2>6, AdoptIndustryKeeps
  <2>7. CASE CreateOwnerMembership(r)  BY <2>7, CreateOwnerMembershipKeeps
  <2>8. CASE IncrementSeats(r)  BY <2>8, IncrementSeatsKeeps
  <2>9. CASE SetDefaultTenant(r)  BY <2>9, SetDefaultTenantKeeps
  <2> QED  BY <1>1, <2>1, <2>2, <2>3, <2>4, <2>5, <2>6, <2>7, <2>8, <2>9
<1> QED  BY <1>1, RegistrationStutters DEF RegistrationNext

\* Every step keeps the types of accounts, organisations and what each registration holds between two calls.
THEOREM RegistrationTypeCorrect == RegistrationSpec => []RegistrationTypeOK
<1>1. RegistrationInv => RegistrationTypeOK  BY DEF RegistrationInv
<1> QED  BY <1>1, RegistrationInitInv, RegistrationInductive, PTL DEF RegistrationSpec

\* Whoever can enter an organisation finds it whole, although each call of a
\* registration may be its last and nothing is undone; and a setup added again
\* leaves each name once, unless two were added side by side.
THEOREM OrganisationsWhole == RegistrationSpec => []OrganisationsOpenWhole
<1>1. RegistrationInv => OrganisationsOpenWhole
  <2> SUFFICES ASSUME RegistrationInv, NEW s \in Opened
               PROVE  /\ organisation[s].owner # Unset =>
                           /\ organisation[s].roles /\ organisation[s].trial /\ organisation[s].workflow
                           /\ \A k \in 1..3 : organisation[s].brought \subseteq Existing(organisation[s], k)
                           /\ BeingOpened(s) \/ s \in stopped
                                \/ (organisation[s].seats = 1 /\ user[organisation[s].owner].home = s)
                      /\ s \notin overlapped => \A k \in 1..3, n \in Names : organisation[s].items[k][n] <= 1
    BY DEF OrganisationsOpenWhole
  <2>1. organisation[s].owner # Unset => Furnished(organisation[s]) /\ Ended(s)  BY DEF RegistrationInv, Whole
  <2>2. s \notin overlapped => \A k \in 1..3, n \in Names : organisation[s].items[k][n] <= 1
    BY DEF RegistrationInv, Once, AloneAdding
  <2> QED  BY <2>1, <2>2 DEF Furnished, Ended
<1> QED  BY <1>1, RegistrationInitInv, RegistrationInductive, PTL DEF RegistrationSpec
===============================================================================
