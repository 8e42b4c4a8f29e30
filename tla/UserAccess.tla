----------------------------- MODULE UserAccess -----------------------------
(***************************************************************************)
(* The users of the master and their tokens: UserStore                     *)
(* (security/user_store.py), the Bearer middleware (utils/auth.py), the    *)
(* role check (security/permission.py) and the routes under /api/v1/users  *)
(* (server/master_server.py).                                              *)
(*                                                                         *)
(* A call is authenticated in the middleware, which keeps the user and the *)
(* role it found; the handler runs later, when the body has arrived, and   *)
(* other calls may have changed the user by then.  Every change is made in *)
(* memory, the whole store is then written to a temporary file that takes  *)
(* the place of the old one, and only then the call is answered.  The      *)
(* write may fail: the call ends with an error, the change stays in memory.*)
(*                                                                         *)
(* Users are switched on (there is a users file).  A token is a name; its  *)
(* secret and its hash always agree, and two tokens are never equal.       *)
(***************************************************************************)
EXTENDS Naturals, FiniteSets

CONSTANTS
    Users,      \* user ids
    RootUser,   \* FUSION_BOOTSTRAP_ADMIN
    Tokens,     \* tokens there can be (a bound)
    Calls       \* calls at a time (a bound)

ASSUME AccessAssumption == RootUser \in Users

VARIABLES
    users,      \* _users: the role of each user, "none" if there is no such user
    tokens,     \* the tokens of each user
    usersFile,  \* the users and tokens of the file
    behind,     \* the file does not have all that memory has
    given,      \* tokens that were shown to somebody (history)
    minted,     \* tokens that were made (history)
    withdrawn,  \* tokens whose revocation was answered (history)
    calls       \* authenticated calls: user and role as of authentication

accessVars == <<users, tokens, usersFile, behind, given, minted, withdrawn, calls>>

\* The roles user and viewer differ in nothing here; one stands for both.
UserRoles == {"admin", "user"}
NoCall == [user |-> RootUser, role |-> "none"]
EmptyStore == [users |-> [u \in Users |-> "none"], tokens |-> [u \in Users |-> {}]]

\* The store of a master whose bootstrap has succeeded.
AccessInit ==
    \E t \in Tokens :
        /\ users = [EmptyStore.users EXCEPT ![RootUser] = "admin"]
        /\ tokens = [EmptyStore.tokens EXCEPT ![RootUser] = {t}]
        /\ usersFile = [users |-> users, tokens |-> tokens]
        /\ behind = FALSE
        /\ given = {t} /\ minted = {t} /\ withdrawn = {}
        /\ calls = [c \in Calls |-> NoCall]

-----------------------------------------------------------------------------
(* UserStore.                                                              *)

\* _save_locked: all of the store, or an exception and the file as it was.
Save(ok) ==
    /\ usersFile' = IF ok THEN [users |-> users', tokens |-> tokens'] ELSE usersFile
    /\ behind' = ~ok

CreateUser(u, r) ==
    /\ users[u] = "none"
    /\ users' = [users EXCEPT ![u] = r]
    /\ tokens' = [tokens EXCEPT ![u] = {}]
    /\ \E ok \in BOOLEAN : Save(ok)
    /\ UNCHANGED <<given, minted, withdrawn>>

\* The record goes, its tokens with it.
DeletedKeepsTokens(u) == tokens
Deleted(u) == [tokens EXCEPT ![u] = {}]

DeleteUser(u) ==
    /\ users[u] # "none"
    /\ users' = [users EXCEPT ![u] = "none"]
    /\ tokens' = Deleted(u)
    /\ \E ok \in BOOLEAN :
          /\ Save(ok)
          /\ withdrawn' = IF ok THEN withdrawn \cup tokens[u] ELSE withdrawn
    /\ UNCHANGED <<given, minted>>

SetRoleUnsaved(u, r) ==
    /\ users[u] # "none"
    /\ users' = [users EXCEPT ![u] = r]
    /\ UNCHANGED <<tokens, usersFile, behind, given, minted, withdrawn>>
SetRole(u, r) ==
    /\ users[u] # "none"
    /\ users' = [users EXCEPT ![u] = r]
    /\ UNCHANGED <<tokens, given, minted, withdrawn>>
    /\ \E ok \in BOOLEAN : Save(ok)

\* issue_token and rotate_user_token, which leaves the old tokens alone.  A
\* token that was not saved is not shown.
IssueToken(u, t) ==
    /\ users[u] # "none" /\ t \notin minted
    /\ tokens' = [tokens EXCEPT ![u] = @ \cup {t}]
    /\ minted' = minted \cup {t}
    /\ UNCHANGED <<users, withdrawn>>
    /\ \E ok \in BOOLEAN :
          /\ Save(ok)
          /\ given' = IF ok THEN given \cup {t} ELSE given

RevokeToken(u, t) ==
    /\ users[u] # "none" /\ t \in tokens[u]
    /\ tokens' = [tokens EXCEPT ![u] = @ \ {t}]
    /\ UNCHANGED <<users, given, minted>>
    /\ \E ok \in BOOLEAN :
          /\ Save(ok)
          /\ withdrawn' = IF ok THEN withdrawn \cup {t} ELSE withdrawn

-----------------------------------------------------------------------------
(* Calls.                                                                  *)

\* UserStore.validate: the token is one of the user's.
Validate(u, t) == t \in tokens[u]

\* BearerAuthMiddleware; a token nobody has is refused.
Authenticate(c, t) ==
    /\ calls[c] = NoCall /\ t \in given
    /\ \E u \in Users :
          /\ Validate(u, t)
          /\ calls' = [calls EXCEPT ![c] = [user |-> u, role |-> users[u]]]
    /\ UNCHANGED <<users, tokens, usersFile, behind, given, minted, withdrawn>>

\* check_user_path_access for /api/v1/users: user:manage is the admin's.
MayManage(r) == r = "admin"

\* The routes under /api/v1/users; nobody deletes himself.
UserRoute(c) ==
    /\ MayManage(calls[c].role)
    /\ calls' = [calls EXCEPT ![c] = NoCall]
    /\ \E u \in Users :
          \/ \E r \in UserRoles : CreateUser(u, r) \/ SetRole(u, r)
          \/ u # calls[c].user /\ DeleteUser(u)
          \/ \E t \in Tokens : IssueToken(u, t) \/ RevokeToken(u, t)

\* Any other end of a call: another route, a refusal, a client that is gone.
CallEnds(c) ==
    /\ calls[c] # NoCall
    /\ calls' = [calls EXCEPT ![c] = NoCall]
    /\ UNCHANGED <<users, tokens, usersFile, behind, given, minted, withdrawn>>

-----------------------------------------------------------------------------
(* Restart.                                                                *)

\* The store is what was loaded; behind says whether the file has more.
LoadedPlain(s) ==
    /\ users' = s.users /\ tokens' = s.tokens
    /\ behind' = (usersFile # s)
    /\ UNCHANGED <<usersFile, given, minted>>

\* bootstrap_admin, when FUSION_BOOTSTRAP_ADMIN is set and nobody was loaded:
\* the new administrator is written over what the file has.
Bootstrap(s, t) ==
    /\ s.users = EmptyStore.users /\ t \notin minted
    /\ users' = [s.users EXCEPT ![RootUser] = "admin"]
    /\ tokens' = [s.tokens EXCEPT ![RootUser] = {t}]
    /\ Save(TRUE)
    /\ minted' = minted \cup {t} /\ given' = given \cup {t}

\* The master starts anew with what its file has, or with nothing when the file
\* cannot be read.
RestartUsers ==
    /\ \E s \in {usersFile, EmptyStore} : LoadedPlain(s) \/ \E t \in Tokens : Bootstrap(s, t)
    /\ calls' = [c \in Calls |-> NoCall]
    /\ UNCHANGED withdrawn

AccessNext ==
    \/ \E c \in Calls : UserRoute(c) \/ CallEnds(c) \/ \E t \in Tokens : Authenticate(c, t)
    \/ RestartUsers

AccessSpec == AccessInit /\ [][AccessNext]_accessVars

-----------------------------------------------------------------------------
(* What the store promises.                                                *)

\* Types; only a user has tokens, and no token is two users'.
AccessTypeOK ==
    /\ users \in [Users -> UserRoles \cup {"none"}]
    /\ tokens \in [Users -> SUBSET minted]
    /\ \A u \in Users : users[u] = "none" => tokens[u] = {}
    /\ \A u, v \in Users : u # v => tokens[u] \cap tokens[v] = {}
    /\ behind \in BOOLEAN
    /\ given \subseteq minted /\ withdrawn \subseteq minted /\ minted \subseteq Tokens

\* A token whose revocation was answered, or whose user's deletion was, opens
\* nothing again: not after a write that failed, not after a restart, not when
\* a user of that name is made anew.
RevokedStaysOut == \A u \in Users : tokens[u] \cap withdrawn = {}

\* What was answered survives a crash at any moment: unless the last write
\* failed, the file is the store.
AnsweredChangesSurvive ==
    ~behind => usersFile = [users |-> users, tokens |-> tokens]
=============================================================================
