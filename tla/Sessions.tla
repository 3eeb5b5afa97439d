------------------------------- MODULE Sessions -------------------------------
(* One user's sign-ins: the account document, its refresh tokens, and the      *)
(* access tokens signed for it.  A request reads a document, works on its copy *)
(* and saves the fields it changed, so two requests overlap freely between a   *)
(* read and a save.                                                            *)
(*                                                                             *)
(* A family of refresh tokens is named by the first token issued in it.        *)
(* Expired or deleted tokens and links are answered like unknown ones, without *)
(* effect, and are left out; so is the status of the account, which no code    *)
(* under src/ changes.                                                         *)
EXTENDS Naturals, FiniteSets

CONSTANTS
  Clients,        \* requests under way
  RefreshTokens,  \* refresh tokens that can be issued
  Links,          \* password reset links that can be sent
  MaxFailures,    \* MAX_FAILED_LOGINS
  MaxVersion,     \* bound: password writes
  Nobody          \* no token, no link, no request

ASSUME SessionsAssumption ==
  /\ MaxFailures \in Nat \ {0}
  /\ MaxVersion \in Nat
  /\ Nobody \notin RefreshTokens \cup Links

VARIABLES
  account,   \* the user document
  refresh,   \* refreshtokens collection; Nobody where not issued
  signed,    \* token versions that access tokens carry
  task,      \* what each request holds between two database calls
  spent,     \* history: links that set a password
  forked     \* history: families in which a token was rotated from a stale read

sessionVars == <<account, refresh, signed, task, spent, forked>>

Account == [version : 0..MaxVersion, failed : 0..(MaxFailures - 1),
            lock : {"none", "held", "lapsed"}, link : Links \cup {Nobody}]

\* What a sign-in or a reset keeps of the document it read.
Copy == [version : 0..MaxVersion, failed : 0..(MaxFailures - 1), lock : {"none", "lapsed", "held"}]

RefreshToken == [family : RefreshTokens, rotated : BOOLEAN, revoked : BOOLEAN]

ASSUME NoTokenAssumption == Nobody \notin RefreshToken

NoTask == [op |-> "none"]

Task == [op : {"none", "forgot", "sign", "signOut"}]
   \cup [op : {"login"}, copy : Copy] \cup [op : {"reset"}, copy : Copy, link : Links]
   \cup [op : {"change"}, version : 0..MaxVersion]
   \cup [op : {"rotate"}, token : RefreshTokens]
   \cup [op : {"reuse"}, family : RefreshTokens]
   \cup [op : {"issue"}, family : RefreshTokens \cup {Nobody}, version : 0..MaxVersion]

SessionsTypeOK ==
  /\ account \in Account
  /\ refresh \in [RefreshTokens -> RefreshToken \cup {Nobody}]
  /\ signed \subseteq 0..MaxVersion
  /\ task \in [Clients -> Task]
  /\ spent \subseteq Links
  /\ forked \subseteq RefreshTokens

SessionsInit ==
  /\ account = [version |-> 0, failed |-> 0, lock |-> "none", link |-> Nobody]
  /\ refresh = [t \in RefreshTokens |-> Nobody]
  /\ signed = {}
  /\ task = [c \in Clients |-> NoTask]
  /\ spent = {}
  /\ forked = {}

Issued == {t \in RefreshTokens : refresh[t] # Nobody}

IsLive(t) == refresh[t] # Nobody /\ ~refresh[t].rotated /\ ~refresh[t].revoked

CopyOfAccount ==
  [version |-> account.version, failed |-> account.failed, lock |-> account.lock]

(* A new value of field f of the copy; the save sends it only if it differs    *)
(* from what was read.                                                         *)
Saved(copy, f, v) == IF v = copy[f] THEN account[f] ELSE v

(* updateMany({ ..., revokedAt: null }, { revokedAt: now })                    *)
WithRevoked(S) ==
  [t \in RefreshTokens |-> IF t \in S \cap Issued THEN [refresh[t] EXCEPT !.revoked = TRUE]
                                                  ELSE refresh[t]]

Become(c, t) == task' = [task EXCEPT ![c] = t]

Unoccupied(c) == task[c] = NoTask

-------------------------------------------------------------------------------
(* Sign-in: authenticate, then a token in a new family, then an access token.  *)

FindForLogin(c) ==
  /\ Unoccupied(c)
  /\ account.lock # "held"
  /\ Become(c, [op |-> "login", copy |-> CopyOfAccount])
  /\ UNCHANGED <<account, refresh, signed, spent, forked>>

RejectPassword(c) ==
  /\ task[c].op = "login"
  /\ LET copy  == task[c].copy
         locks == copy.failed + 1 >= MaxFailures
     IN account' = [account EXCEPT
          !.failed = Saved(copy, "failed", IF locks THEN 0 ELSE copy.failed + 1),
          !.lock   = IF locks THEN "held" ELSE account.lock]
  /\ Become(c, NoTask)
  /\ UNCHANGED <<refresh, signed, spent, forked>>

AcceptPassword(c) ==
  /\ task[c].op = "login"
  /\ LET copy == task[c].copy
     IN /\ account' = [account EXCEPT !.failed = Saved(copy, "failed", 0),
                                      !.lock   = Saved(copy, "lock", "none")]
        /\ Become(c, [op |-> "issue", family |-> Nobody, version |-> copy.version])
  /\ UNCHANGED <<refresh, signed, spent, forked>>

(* issueRefreshToken: a login starts a family, a rotation continues one.       *)
IssueRefreshToken(c, t) ==
  /\ task[c].op = "issue"
  /\ t \notin Issued
  /\ LET family == IF task[c].family = Nobody THEN t ELSE task[c].family
     IN refresh' = [refresh EXCEPT
                      ![t] = [family |-> family, rotated |-> FALSE, revoked |-> FALSE]]
  /\ IF task[c].family = Nobody
       THEN signed' = signed \cup {task[c].version} /\ Become(c, NoTask)
       ELSE Become(c, [op |-> "sign"]) /\ UNCHANGED signed
  /\ UNCHANGED <<account, spent, forked>>

(* A refresh reads the user after it has rotated; a login signs with its copy. *)
SignUserToken(c) ==
  /\ task[c].op = "sign"
  /\ signed' = signed \cup {account.version}
  /\ Become(c, NoTask)
  /\ UNCHANGED <<account, refresh, spent, forked>>

-------------------------------------------------------------------------------
(* Refresh and logout.                                                         *)

(* rotateRefreshToken, up to its first await: a token seen used is a reuse.    *)
PresentRefreshToken(c, t) ==
  /\ Unoccupied(c)
  /\ t \in Issued
  /\ Become(c, IF refresh[t].revoked \/ refresh[t].rotated
               THEN [op |-> "reuse", family |-> refresh[t].family]
               ELSE [op |-> "rotate", token |-> t])
  /\ UNCHANGED <<account, refresh, signed, spent, forked>>

RevokeFamily(c) ==
  /\ task[c].op = "reuse"
  /\ refresh' = WithRevoked({t \in Issued : refresh[t].family = task[c].family})
  /\ Become(c, NoTask)
  /\ UNCHANGED <<account, signed, spent, forked>>

(* Mutant: the token presented is not marked.                                  *)
MarkForgotten(c) ==
  /\ task[c].op = "rotate"
  /\ Become(c, [op |-> "issue", family |-> refresh[task[c].token].family, version |-> 0])
  /\ UNCHANGED <<account, refresh, signed, spent, forked>>

(* The save puts the mark whatever happened to the token since it was read.    *)
MarkRotated(c) ==
  /\ task[c].op = "rotate"
  /\ LET t == task[c].token
     IN /\ refresh' = [refresh EXCEPT ![t].rotated = TRUE]
        /\ forked' = IF IsLive(t) THEN forked ELSE forked \cup {refresh[t].family}
        /\ Become(c, [op |-> "issue", family |-> refresh[t].family, version |-> 0])
  /\ UNCHANGED <<account, signed, spent>>

Logout(t) ==
  /\ refresh' = WithRevoked({t})
  /\ t \in Issued
  /\ UNCHANGED <<account, signed, task, spent, forked>>

-------------------------------------------------------------------------------
(* Passwords.                                                                  *)

(* The middleware takes an access token whose version is the account's.        *)
Authenticated == account.version \in signed

FindForChange(c) ==
  /\ Unoccupied(c)
  /\ Authenticated
  /\ Become(c, [op |-> "change", version |-> account.version])
  /\ UNCHANGED <<account, refresh, signed, spent, forked>>

ChangePassword(c) ==
  /\ task[c].op = "change"
  /\ task[c].version < MaxVersion
  /\ account' = [account EXCEPT !.version = task[c].version + 1]
  /\ Become(c, [op |-> "signOut"])
  /\ UNCHANGED <<refresh, signed, spent, forked>>

FindForReset(c) ==
  /\ Unoccupied(c)
  /\ account.link # Nobody
  /\ Become(c, [op |-> "reset", copy |-> CopyOfAccount, link |-> account.link])
  /\ UNCHANGED <<account, refresh, signed, spent, forked>>

(* Mutant: the link is left in the account.                                    *)
ResetKeepsLink(c) ==
  /\ task[c].op = "reset"
  /\ task[c].copy.version < MaxVersion
  /\ account' = [account EXCEPT !.version = task[c].copy.version + 1]
  /\ spent' = spent \cup {task[c].link}
  /\ Become(c, [op |-> "signOut"])
  /\ UNCHANGED <<refresh, signed, forked>>

ResetPassword(c) ==
  /\ task[c].op = "reset"
  /\ LET copy == task[c].copy
     IN /\ copy.version < MaxVersion
        /\ account' = [version |-> copy.version + 1, failed |-> Saved(copy, "failed", 0),
                       lock |-> Saved(copy, "lock", "none"), link |-> Nobody]
        /\ spent' = spent \cup {task[c].link}
  /\ Become(c, [op |-> "signOut"])
  /\ UNCHANGED <<refresh, signed, forked>>

RevokeAllSessions(c) ==
  /\ task[c].op = "signOut"
  /\ refresh' = WithRevoked(Issued)
  /\ Become(c, NoTask)
  /\ UNCHANGED <<account, signed, spent, forked>>

FindForForgotten(c) ==
  /\ Unoccupied(c)
  /\ Become(c, [op |-> "forgot"])
  /\ UNCHANGED <<account, refresh, signed, spent, forked>>

(* A link never sent before replaces the outstanding one; the email follows.   *)
SendPasswordReset(c, l) ==
  /\ task[c].op = "forgot"
  /\ l \notin spent
  /\ \A d \in Clients : task[d].op = "reset" => task[d].link # l
  /\ l # account.link
  /\ account' = [account EXCEPT !.link = l]
  /\ Become(c, NoTask)
  /\ UNCHANGED <<refresh, signed, spent, forked>>

-------------------------------------------------------------------------------
(* A lock runs out; a request dies with its process or its database call.      *)

LockLapses ==
  /\ account.lock = "held"
  /\ account' = [account EXCEPT !.lock = "lapsed"]
  /\ UNCHANGED <<refresh, signed, task, spent, forked>>

RequestFails(c) ==
  /\ ~Unoccupied(c)
  /\ Become(c, NoTask)
  /\ UNCHANGED <<account, refresh, signed, spent, forked>>

SessionsNext ==
  \/ \E c \in Clients :
       \/ FindForLogin(c) \/ RejectPassword(c) \/ AcceptPassword(c) \/ SignUserToken(c)
       \/ RevokeFamily(c) \/ MarkRotated(c) \/ RevokeAllSessions(c)
       \/ FindForChange(c) \/ ChangePassword(c)
       \/ FindForReset(c) \/ ResetPassword(c) \/ FindForForgotten(c)
       \/ RequestFails(c)
       \/ \E t \in RefreshTokens : IssueRefreshToken(c, t) \/ PresentRefreshToken(c, t)
       \/ \E l \in Links : SendPasswordReset(c, l)
  \/ \E t \in RefreshTokens : Logout(t)
  \/ LockLapses

SessionsSpec == SessionsInit /\ [][SessionsNext]_sessionVars

-------------------------------------------------------------------------------
(* Rotation with reuse detection (identity.service.ts:125): a family of refresh *)
(* tokens holds two usable tokens only if one of its tokens was rotated from a  *)
(* read that another request had overtaken.                                     *)
OneLivePerFamily ==
  \A t, u \in RefreshTokens :
    (IsLive(t) /\ IsLive(u) /\ t # u /\ refresh[t].family = refresh[u].family)
      => refresh[t].family \in forked

(* "The link works once" (identity.service.ts:309): a link that set a password  *)
(* is never again the outstanding one, whichever copies of the account are      *)
(* saved after it.                                                              *)
SpentLinksStaySpent == account.link \notin spent

=============================================================================
