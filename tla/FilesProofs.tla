---------------------------- MODULE FilesProofs ----------------------------
(***************************************************************************)
(* Proofs about what the master and its nodes keep in files, for any users,*)
(* tokens, events, keys, transcripts, shards and cached entries, and any   *)
(* order of failed writes, crashes and restarts: UserAccess, AuditLog,     *)
(* TranscriptStore, KVStore, ShardStore, KVCache, and MCCrashes, which     *)
(* puts them together.                                                     *)
(***************************************************************************)
EXTENDS MCCrashes, FoldProofs

-----------------------------------------------------------------------------
(* Users and tokens.                                                       *)

\* A store, in memory or in the file: only users have tokens, no token is two
\* users', and none is one whose withdrawal was answered.
GoodStore(us, ts, made, out) ==
    /\ us \in [Users -> UserRoles \cup {"none"}]
    /\ ts \in [Users -> SUBSET made]
    /\ \A u \in Users : us[u] = "none" => ts[u] = {}
    /\ \A u, v \in Users : u # v => ts[u] \cap ts[v] = {}
    /\ \A u \in Users : ts[u] \cap out = {}

\* What the file has is a good store too, since a restart makes it the store.
AccessInv ==
    /\ GoodStore(users, tokens, minted, withdrawn)
    /\ usersFile = [users |-> usersFile.users, tokens |-> usersFile.tokens]
    /\ GoodStore(usersFile.users, usersFile.tokens, minted, withdrawn)
    /\ behind \in BOOLEAN
    /\ given \subseteq minted /\ withdrawn \subseteq minted /\ minted \subseteq Tokens
    /\ AnsweredChangesSurvive

\* A store without anybody is good.
LEMMA EmptyIsGood ==
  ASSUME NEW made, NEW out
  PROVE  /\ EmptyStore = [users |-> EmptyStore.users, tokens |-> EmptyStore.tokens]
         /\ GoodStore(EmptyStore.users, EmptyStore.tokens, made, out)
BY DEF EmptyStore, GoodStore

\* A good store stays one when tokens are made elsewhere.
LEMMA GoodWithMoreMinted ==
  ASSUME NEW us, NEW ts, NEW made, NEW more, NEW out,
         GoodStore(us, ts, made, out), made \subseteq more
  PROVE  GoodStore(us, ts, more, out)
<1>1. ts \in [Users -> SUBSET more]
  BY DEF GoodStore
<1> QED  BY <1>1 DEF GoodStore

\* The role of a user changes, or a new user without tokens is there.
LEMMA GoodWithRole ==
  ASSUME NEW us, NEW ts, NEW made, NEW out, GoodStore(us, ts, made, out),
         NEW u \in Users, NEW r \in UserRoles
  PROVE  GoodStore([us EXCEPT ![u] = r], ts, made, out)
BY DEF GoodStore, UserRoles

\* A user goes with his tokens, which nobody else has.
LEMMA GoodWithoutUser ==
  ASSUME NEW us, NEW ts, NEW made, NEW out, GoodStore(us, ts, made, out),
         NEW u \in Users
  PROVE  /\ GoodStore([us EXCEPT ![u] = "none"], [ts EXCEPT ![u] = {}], made, out)
         /\ GoodStore([us EXCEPT ![u] = "none"], [ts EXCEPT ![u] = {}], made, out \cup ts[u])
<1> DEFINE less == [us EXCEPT ![u] = "none"]
           fewer == [ts EXCEPT ![u] = {}]
<1>1. less \in [Users -> UserRoles \cup {"none"}] /\ fewer \in [Users -> SUBSET made]
  BY DEF GoodStore
<1>2. \A v \in Users : /\ fewer[v] = IF v = u THEN {} ELSE ts[v]
                       /\ v # u => less[v] = us[v]
  BY DEF GoodStore
<1> HIDE DEF less, fewer
<1>3. \A v, w \in Users : v # w => fewer[v] \cap fewer[w] = {}
  BY <1>2 DEF GoodStore
<1>4. \A v \in Users : less[v] = "none" => fewer[v] = {}
  BY <1>2 DEF GoodStore
<1>5. \A v \in Users : fewer[v] \cap out = {} /\ fewer[v] \cap ts[u] = {}
  BY <1>2 DEF GoodStore
<1>6. GoodStore(less, fewer, made, out) /\ GoodStore(less, fewer, made, out \cup ts[u])
  BY <1>1, <1>3, <1>4, <1>5 DEF GoodStore
<1> QED  BY <1>6 DEF less, fewer

\* A user gets a token that nobody has had.
LEMMA GoodWithToken ==
  ASSUME NEW us, NEW ts, NEW made, NEW out, GoodStore(us, ts, made, out),
         out \subseteq made, NEW u \in Users, us[u] # "none", NEW t, t \notin made
  PROVE  GoodStore(us, [ts EXCEPT ![u] = @ \cup {t}], made \cup {t}, out)
<1> DEFINE more == [ts EXCEPT ![u] = @ \cup {t}]
<1>1. more \in [Users -> SUBSET (made \cup {t})]
  BY DEF GoodStore
<1>2. \A v \in Users : more[v] = IF v = u THEN ts[u] \cup {t} ELSE ts[v]
  BY DEF GoodStore
<1>3. \A v \in Users : t \notin ts[v]
  BY DEF GoodStore
<1> HIDE DEF more
<1>4. \A v \in Users : us[v] = "none" => more[v] = {}
  BY <1>2 DEF GoodStore
<1>5. \A v, w \in Users : v # w => more[v] \cap more[w] = {}
  BY <1>2, <1>3 DEF GoodStore
<1>6. \A v \in Users : more[v] \cap out = {}
  BY <1>2 DEF GoodStore
<1>7. GoodStore(us, more, made \cup {t}, out)
  BY <1>1, <1>4, <1>5, <1>6 DEF GoodStore
<1> QED  BY <1>7 DEF more

\* A user loses a token, which nobody else has.
LEMMA GoodWithoutToken ==
  ASSUME NEW us, NEW ts, NEW made, NEW out, GoodStore(us, ts, made, out),
         NEW u \in Users, NEW t \in ts[u]
  PROVE  /\ GoodStore(us, [ts EXCEPT ![u] = @ \ {t}], made, out)
         /\ GoodStore(us, [ts EXCEPT ![u] = @ \ {t}], made, out \cup {t})
<1> DEFINE fewer == [ts EXCEPT ![u] = @ \ {t}]
<1>1. fewer \in [Users -> SUBSET made]
  BY DEF GoodStore
<1>2. \A v \in Users : fewer[v] = IF v = u THEN ts[u] \ {t} ELSE ts[v]
  BY DEF GoodStore
<1>3. \A v \in Users : t \notin fewer[v]
  BY <1>2 DEF GoodStore
<1> HIDE DEF fewer
<1>4. \A v, w \in Users : v # w => fewer[v] \cap fewer[w] = {}
  BY <1>2 DEF GoodStore
<1>5. \A v \in Users : /\ us[v] = "none" => fewer[v] = {}
                       /\ fewer[v] \cap out = {}
  BY <1>2 DEF GoodStore
<1>6. GoodStore(us, fewer, made, out) /\ GoodStore(us, fewer, made, out \cup {t})
  BY <1>1, <1>3, <1>4, <1>5 DEF GoodStore
<1> QED  BY <1>6 DEF fewer

\* A change of the store and its write, which succeeds or fails.
LEMMA SavedOrNot ==
  ASSUME AccessInv, NEW ok \in BOOLEAN, Save(ok),
         GoodStore(users', tokens', minted', withdrawn'),
         minted \subseteq minted', minted' \subseteq Tokens,
         given' \subseteq minted', withdrawn' \subseteq minted',
         ~ok => withdrawn' = withdrawn
  PROVE  AccessInv'
<1>1. CASE ok
  <2>1. /\ usersFile' = [users |-> users', tokens |-> tokens']
        /\ behind' = FALSE
    BY <1>1 DEF Save
  <2>2. /\ usersFile'.users = users' /\ usersFile'.tokens = tokens'
    BY <2>1
  <2> QED  BY <2>1, <2>2 DEF AccessInv, AnsweredChangesSurvive
<1>2. CASE ~ok
  <2>1. usersFile' = usersFile /\ behind' = TRUE
    BY <1>2 DEF Save
  <2>2. GoodStore(usersFile.users, usersFile.tokens, minted', withdrawn')
    BY <1>2, GoodWithMoreMinted DEF AccessInv
  <2> QED  BY <2>1, <2>2 DEF AccessInv, AnsweredChangesSurvive
<1> QED  BY <1>1, <1>2

\* The invariant of the users, their tokens and their file.
THEOREM AccessInvariant == AccessSpec => []AccessInv
<1>1. AccessInit => AccessInv
  <2> SUFFICES ASSUME AccessInit PROVE AccessInv
    OBVIOUS
  <2>1. PICK t \in Tokens :
          /\ users = [EmptyStore.users EXCEPT ![RootUser] = "admin"]
          /\ tokens = [EmptyStore.tokens EXCEPT ![RootUser] = {t}]
          /\ usersFile = [users |-> users, tokens |-> tokens]
          /\ behind = FALSE
          /\ given = {t} /\ minted = {t} /\ withdrawn = {}
    BY DEF AccessInit
  <2>2. GoodStore(users, tokens, minted, withdrawn)
    BY <2>1, AccessAssumption DEF GoodStore, EmptyStore, UserRoles
  <2>3. usersFile.users = users /\ usersFile.tokens = tokens
    BY <2>1
  <2> QED  BY <2>1, <2>2, <2>3 DEF AccessInv, AnsweredChangesSurvive
<1>2. AccessInv /\ [AccessNext]_accessVars => AccessInv'
  <2> SUFFICES ASSUME AccessInv, [AccessNext]_accessVars PROVE AccessInv'
    OBVIOUS
  <2>a. GoodStore(users, tokens, minted, withdrawn)
    BY DEF AccessInv
  <2>1. ASSUME UNCHANGED <<users, tokens, usersFile, behind, given, minted, withdrawn>>
        PROVE  AccessInv'
    BY <2>1 DEF AccessInv, AnsweredChangesSurvive
  <2>2. ASSUME NEW u \in Users, NEW r \in UserRoles, CreateUser(u, r) PROVE AccessInv'
    <3>1. tokens[u] = {}
      BY <2>2, <2>a DEF CreateUser, GoodStore
    <3>2. tokens' = tokens
      BY <3>1, <2>2, <2>a DEF CreateUser, GoodStore
    <3>3. GoodStore(users', tokens', minted', withdrawn')
      BY <3>2, <2>2, <2>a, GoodWithRole DEF CreateUser
    <3> QED  BY <3>3, <2>2, SavedOrNot DEF CreateUser, AccessInv
  <2>3. ASSUME NEW u \in Users, NEW r \in UserRoles, SetRole(u, r) PROVE AccessInv'
    <3>1. GoodStore(users', tokens', minted', withdrawn')
      BY <2>3, <2>a, GoodWithRole DEF SetRole
    <3> QED  BY <3>1, <2>3, SavedOrNot DEF SetRole, AccessInv
  <2>4. ASSUME NEW u \in Users, DeleteUser(u) PROVE AccessInv'
    <3>1. PICK ok \in BOOLEAN :
            /\ Save(ok)
            /\ withdrawn' = IF ok THEN withdrawn \cup tokens[u] ELSE withdrawn
      BY <2>4 DEF DeleteUser
    <3>2. GoodStore(users', tokens', minted', withdrawn')
      BY <3>1, <2>4, <2>a, GoodWithoutUser DEF DeleteUser, Deleted
    <3>3. tokens[u] \subseteq minted
      BY <2>a DEF GoodStore
    <3> QED  BY <3>1, <3>2, <3>3, <2>4, SavedOrNot DEF DeleteUser, AccessInv
  <2>5. ASSUME NEW u \in Users, NEW t \in Tokens, IssueToken(u, t) PROVE AccessInv'
    <3>1. PICK ok \in BOOLEAN : Save(ok) /\ given' = IF ok THEN given \cup {t} ELSE given
      BY <2>5 DEF IssueToken
    <3>2. GoodStore(users', tokens', minted', withdrawn')
      BY <2>5, <2>a, GoodWithToken DEF IssueToken, AccessInv
    <3> QED  BY <3>1, <3>2, <2>5, SavedOrNot DEF IssueToken, AccessInv
  <2>6. ASSUME NEW u \in Users, NEW t \in Tokens, RevokeToken(u, t) PROVE AccessInv'
    <3>1. PICK ok \in BOOLEAN :
            Save(ok) /\ withdrawn' = IF ok THEN withdrawn \cup {t} ELSE withdrawn
      BY <2>6 DEF RevokeToken
    <3>2. GoodStore(users', tokens', minted', withdrawn')
      BY <3>1, <2>6, <2>a, GoodWithoutToken DEF RevokeToken
    <3>3. t \in minted
      BY <2>6, <2>a DEF RevokeToken, GoodStore
    <3> QED  BY <3>1, <3>2, <3>3, <2>6, SavedOrNot DEF RevokeToken, AccessInv
  <2>7. ASSUME NEW c \in Calls, UserRoute(c) PROVE AccessInv'
    BY <2>2, <2>3, <2>4, <2>5, <2>6, <2>7 DEF UserRoute
  <2>8. CASE RestartUsers
    <3>1. PICK s \in {usersFile, EmptyStore} :
            LoadedPlain(s) \/ \E t \in Tokens : Bootstrap(s, t)
      BY <2>8 DEF RestartUsers
    <3>2. withdrawn' = withdrawn
      BY <2>8 DEF RestartUsers
    <3>3. /\ s = [users |-> s.users, tokens |-> s.tokens]
          /\ GoodStore(s.users, s.tokens, minted, withdrawn)
      BY <3>1, EmptyIsGood DEF AccessInv
    <3>4. CASE LoadedPlain(s)
      <4>1. /\ users' = s.users /\ tokens' = s.tokens /\ behind' = (usersFile # s)
            /\ usersFile' = usersFile /\ given' = given /\ minted' = minted
        BY <3>4 DEF LoadedPlain
      <4>2. AnsweredChangesSurvive'
        BY <4>1, <3>3 DEF AnsweredChangesSurvive
      <4> QED  BY <4>1, <4>2, <3>2, <3>3 DEF AccessInv
    <3>5. ASSUME NEW t \in Tokens, Bootstrap(s, t) PROVE AccessInv'
      <4>1. /\ s.users = EmptyStore.users /\ t \notin minted
            /\ users' = [s.users EXCEPT ![RootUser] = "admin"]
            /\ tokens' = [s.tokens EXCEPT ![RootUser] = {t}]
            /\ Save(TRUE)
            /\ minted' = minted \cup {t} /\ given' = given \cup {t}
        BY <3>5 DEF Bootstrap
      <4>2. RootUser \in Users /\ "admin" \in UserRoles
        BY AccessAssumption DEF UserRoles
      <4>3. s.tokens[RootUser] = {}
        BY <4>1, <4>2, <3>3 DEF GoodStore, EmptyStore
      <4>4. tokens' = [s.tokens EXCEPT ![RootUser] = @ \cup {t}]
        BY <4>1, <4>3
      <4>5. GoodStore(users', s.tokens, minted, withdrawn)
        BY <4>1, <4>2, <3>3, GoodWithRole
      <4>6. users'[RootUser] # "none"
        BY <4>1, <4>2, <3>3 DEF GoodStore
      <4>7. GoodStore(users', [s.tokens EXCEPT ![RootUser] = @ \cup {t}],
                      minted \cup {t}, withdrawn)
        BY <4>1, <4>2, <4>5, <4>6, GoodWithToken DEF AccessInv
      <4>8. GoodStore(users', tokens', minted', withdrawn')
        BY <4>1, <4>4, <4>7, <3>2
      <4> QED  BY <4>1, <4>8, <3>2, SavedOrNot DEF AccessInv
    <3> QED  BY <3>1, <3>4, <3>5
  <2> QED
    BY <2>1, <2>7, <2>8 DEF AccessNext, accessVars, CallEnds, Authenticate
<1> QED  BY <1>1, <1>2, PTL DEF AccessSpec

\* The types of the user store: only a user has tokens, and no token is two
\* users' (UserStore).
THEOREM AccessTypes == AccessSpec => []AccessTypeOK
<1>1. AccessInv => AccessTypeOK
  BY DEF AccessInv, GoodStore, AccessTypeOK
<1> QED  BY <1>1, AccessInvariant, PTL

\* A token whose revocation, or whose user's deletion, was answered never opens
\* anything again (UserStore.revoke_token, delete_user, _load).
THEOREM RevokedTokensStayOut == AccessSpec => []RevokedStaysOut
<1>1. AccessInv => RevokedStaysOut
  BY DEF AccessInv, GoodStore, RevokedStaysOut
<1> QED  BY <1>1, AccessInvariant, PTL

\* Unless its last write failed, the file of the users is the store, so what
\* was answered survives a crash (UserStore._save_locked).
THEOREM UsersSurvive == AccessSpec => []AnsweredChangesSurvive
<1>1. AccessInv => AnsweredChangesSurvive
  BY DEF AccessInv
<1> QED  BY <1>1, AccessInvariant, PTL

-----------------------------------------------------------------------------
(* The chain of the audit log.                                             *)

Line == [id : Nat, seq : Nat, prev : Nat]

\* A line that refers to another has no chained event in between, and the next
\* event will refer to the last chained one.
AuditInv ==
    /\ events \in Nat /\ auditSeq \in Nat
    /\ \A n \in chained : n \in Nat /\ n <= events
    /\ prevHash \in Nat
    /\ prevHash # 0 => \A n \in chained : n <= prevHash
    /\ lines \in Seq(Line)
    /\ \A i \in DOMAIN lines :
          /\ lines[i].id > 0 /\ lines[i].id <= events
          /\ lines[i].prev # 0 =>
                \A n \in chained : ~(lines[i].prev < n /\ n < lines[i].id)

\* An event is logged: its line, if it is written and not spoilt, refers to the
\* last chained event.
LEMMA LogStep ==
  ASSUME AuditInv, NEW made \in BOOLEAN, NEW wrote \in BOOLEAN, Log(made, wrote)
  PROVE  AuditInv'
<1> DEFINE seq == IF made THEN auditSeq' ELSE 0
           prev == IF made THEN prevHash ELSE 0
           line == [id |-> events', seq |-> seq, prev |-> prev]
<1>1. /\ events \in Nat /\ auditSeq \in Nat /\ prevHash \in Nat /\ lines \in Seq(Line)
      /\ events' = events + 1
      /\ auditSeq' \in Nat
  BY DEF AuditInv, Log
<1>2. line \in Line
  BY <1>1 DEF Line
<1>3. /\ prevHash' = IF made THEN events' ELSE prevHash
      /\ chained' = IF made THEN chained \cup {events'} ELSE chained
      /\ Appended(line, wrote)
  BY DEF Log, NextPrev
<1>4. /\ \A n \in chained' : n \in Nat /\ n <= events'
      /\ prevHash' \in Nat
      /\ prevHash' # 0 => \A n \in chained' : n <= prevHash'
  BY <1>1, <1>3 DEF AuditInv
<1>5. prev # 0 => \A n \in chained' : ~(prev < n /\ n < events')
  BY <1>1, <1>3 DEF AuditInv
<1>6. /\ line.id = events' /\ line.prev = prev
  OBVIOUS
<1> HIDE DEF line, prev, seq
<1>7. \A i \in DOMAIN lines :
        /\ lines[i].id > 0 /\ lines[i].id <= events'
        /\ lines[i].prev # 0 =>
              \A n \in chained' : ~(lines[i].prev < n /\ n < lines[i].id)
  <2> SUFFICES ASSUME NEW i \in DOMAIN lines
               PROVE  /\ lines[i].id > 0 /\ lines[i].id <= events'
                      /\ lines[i].prev # 0 =>
                            \A n \in chained' : ~(lines[i].prev < n /\ n < lines[i].id)
    OBVIOUS
  <2>1. lines[i].id \in Nat /\ lines[i].prev \in Nat
    <3>1. lines[i] \in Line
      BY <1>1
    <3> QED  BY <3>1 DEF Line
  <2> QED  BY <1>1, <1>3, <2>1 DEF AuditInv
<1>8. CASE lines' = lines
  BY <1>1, <1>4, <1>7, <1>8 DEF AuditInv
<1>9. CASE lines' = Append(lines, line)
  <2>1. lines' \in Seq(Line)
    BY <1>1, <1>2, <1>9
  <2>2. DOMAIN lines' = 1..Len(lines) + 1 /\ DOMAIN lines = 1..Len(lines) /\ Len(lines) \in Nat
    BY <1>1, <1>9
  <2>3. \A i \in DOMAIN lines' :
          IF i \in DOMAIN lines THEN lines'[i] = lines[i] ELSE lines'[i] = line
    BY <1>1, <1>2, <1>9, <2>2
  <2>4. line.id > 0 /\ line.id <= events'
    BY <1>1, <1>6
  <2>5. \A i \in DOMAIN lines' :
          /\ lines'[i].id > 0 /\ lines'[i].id <= events'
          /\ lines'[i].prev # 0 =>
                \A n \in chained' : ~(lines'[i].prev < n /\ n < lines'[i].id)
    BY <1>5, <1>6, <1>7, <2>3, <2>4
  <2> QED  BY <1>1, <1>4, <2>1, <2>5 DEF AuditInv
<1> QED  BY <1>3, <1>8, <1>9 DEF Appended

\* The invariant of the audit log and of the process that writes it.
THEOREM AuditInvariant == AuditSpec => []AuditInv
<1>1. AuditInit => AuditInv
  BY DEF AuditInit, AuditInv
<1>2. AuditInv /\ [AuditNext]_auditVars => AuditInv'
  <2> SUFFICES ASSUME AuditInv, [AuditNext]_auditVars PROVE AuditInv'
    OBVIOUS
  <2>1. ASSUME NEW torn \in BOOLEAN, AuditRestart(torn) PROVE AuditInv'
    BY <2>1 DEF AuditRestart, AuditInv
  <2>2. CASE UNCHANGED auditVars
    BY <2>2 DEF auditVars, AuditInv
  <2> QED  BY <2>1, <2>2, LogStep DEF AuditNext
<1> QED  BY <1>1, <1>2, PTL DEF AuditSpec

\* A lost write, a spoilt line or a restart leaves a gap in the references that
\* a reader of the file sees (AuditLogger.log).
THEOREM LossesAreVisible == AuditSpec => []LossIsVisible
<1>1. AuditInv => LossIsVisible
  <2> SUFFICES ASSUME AuditInv, NEW i \in DOMAIN lines, NEW j \in DOMAIN lines,
                      lines[j].prev = lines[i].id
               PROVE  \A n \in chained : ~(lines[i].id < n /\ n < lines[j].id)
    BY DEF LossIsVisible
  <2>1. lines[i].id \in Nat /\ lines[i].id > 0
    <3>1. lines[i] \in Line
      BY DEF AuditInv
    <3> QED  BY <3>1 DEF AuditInv, Line
  <2> QED  BY <2>1 DEF AuditInv
<1> QED  BY <1>1, AuditInvariant, PTL

-----------------------------------------------------------------------------
(* Transcripts.                                                            *)

ShelfInv ==
    /\ DOMAIN shelf = Transcripts /\ DOMAIN answered = Transcripts
    /\ DOMAIN attempted = Transcripts
    /\ shelf = [s \in Transcripts |-> shelf[s]]
    /\ answered = [s \in Transcripts |-> answered[s]]
    /\ attempted = [s \in Transcripts |-> attempted[s]]
    /\ AnsweredTranscriptKept

\* A put that runs to its end: the file is what is answered.
LEMMA PutStep ==
  ASSUME ShelfInv, NEW s \in Transcripts, NEW ms, PutTranscript(s, ms)
  PROVE  ShelfInv'
BY DEF ShelfInv, PutTranscript, AnsweredTranscriptKept

\* A put that dies with its master: what it left in place was attempted.
LEMMA LostPutStep ==
  ASSUME ShelfInv, NEW s \in Transcripts, NEW ms, LostPut(s, ms)
  PROVE  ShelfInv'
BY DEF ShelfInv, LostPut, AnsweredTranscriptKept

\* The strengthened invariant: the tables have an entry for every session.
THEOREM ShelfInvariant == TranscriptSpec => []ShelfInv
<1>1. TranscriptInit => ShelfInv
  BY DEF TranscriptInit, ShelfInv, AnsweredTranscriptKept
<1>2. ShelfInv /\ [TranscriptNext]_transcriptVars => ShelfInv'
  <2> SUFFICES ASSUME ShelfInv, [TranscriptNext]_transcriptVars PROVE ShelfInv'
    OBVIOUS
  <2>1. ASSUME UNCHANGED <<shelf, answered, attempted>> PROVE ShelfInv'
    BY <2>1 DEF ShelfInv, AnsweredTranscriptKept
  <2>2. ASSUME NEW c \in Clients, NEW s \in Transcripts, FetchTranscript(c, s)
        PROVE  ShelfInv'
    BY <2>1, <2>2 DEF FetchTranscript
  <2>3. ASSUME NEW c \in Clients, ContinueTranscript(c) PROVE ShelfInv'
    BY <2>1, <2>3 DEF ContinueTranscript
  <2>4. ASSUME NEW c \in Clients, NEW s \in Transcripts, StorePut(c, s) PROVE ShelfInv'
    BY <2>4, PutStep DEF StorePut
  <2>5. ASSUME NEW s \in Transcripts, NEW t \in Transcripts, StoreFork(s, t) \/ DieInFork(s, t)
        PROVE  ShelfInv'
    BY <2>5, PutStep, LostPutStep DEF StoreFork, DieInFork
  <2>6. ASSUME NEW s \in Transcripts, StoreDelete(s) \/ DieInDelete(s) PROVE ShelfInv'
    BY <2>6 DEF StoreDelete, DieInDelete, ShelfInv, AnsweredTranscriptKept
  <2>7. ASSUME NEW c \in Clients, NEW s \in Transcripts, DieInPut(c, s) PROVE ShelfInv'
    BY <2>7, LostPutStep DEF DieInPut
  <2>8. CASE UNCHANGED transcriptVars
    BY <2>1, <2>8 DEF transcriptVars
  <2> QED
    BY <2>2, <2>3, <2>4, <2>5, <2>6, <2>7, <2>8 DEF TranscriptNext
<1> QED  BY <1>1, <1>2, PTL DEF TranscriptSpec

\* A crash in the middle of a put, a fork or a delete never costs a session an
\* answered transcript (ClusterSessionStore.put_session, delete_session).
THEOREM TranscriptsSurvive == TranscriptSpec => []AnsweredTranscriptKept
<1>1. ShelfInv => AnsweredTranscriptKept
  BY DEF ShelfInv
<1> QED  BY <1>1, ShelfInvariant, PTL

-----------------------------------------------------------------------------
(* The keys of a store, its partitions and its file.                       *)

KvEntry == [part : Partitions \cup {"none"}, version : 0..KvVersions, expired : BOOLEAN]

\* Keys as they are in memory or in the file.
GoodKeys(s) ==
    /\ s \in [KvKeys -> KvEntry]
    /\ \A k \in KvKeys : s[k] = NoEntry \/ s[k].part \in Partitions

TableInv ==
    /\ GoodKeys(kvs)
    /\ storeFile # Unreadable => GoodKeys(storeFile)
    /\ parts \in [Partitions -> SUBSET KvKeys]
    /\ \A k \in KvKeys : kvs[k] = NoEntry \/ k \in parts[kvs[k].part]
    /\ kvDirty \in BOOLEAN
    /\ storeFile = Unreadable => saveFailed
    /\ CleanIsSaved

\* A good answer to a put is under way only after the put was made.
CallInv ==
    /\ waits \in [RemoteCalls -> {"idle", "waiting", "done", "failed"}]
    /\ pendingReqs \subseteq RemoteCalls
    /\ \A q \in pendingReqs : waits[q] = "waiting"
    /\ \A a \in replyNet : a.good /\ a.req \in Puts => a.req \in applied
    /\ ReportedPutWasMade

\* Keys are not an unreadable file.
LEMMA KeysAreReadable == ASSUME NEW s, GoodKeys(s) PROVE s # Unreadable
BY StoreAssumption DEF GoodKeys, KvEntry

\* The absent entry is an entry (KVCacheEntry).
LEMMA NoEntryIsEntry == NoEntry \in KvEntry
BY StoreAssumption DEF NoEntry, KvEntry

\* A key is put, whatever partition it was in.
LEMMA EnteredStep ==
  ASSUME TableInv, NEW k \in KvKeys, NEW p \in Partitions, Entered(k, p),
         UNCHANGED <<storeFile, saveFailed>>
  PROVE  TableInv'
<1> DEFINE entry == [part |-> p, version |-> kvs[k].version + 1, expired |-> FALSE]
<1>1. /\ kvs' = [kvs EXCEPT ![k] = entry]
      /\ parts' = [parts EXCEPT ![p] = @ \cup {k}]
      /\ kvDirty' = TRUE
      /\ kvs[k].version < KvVersions
  BY DEF Entered
<1>2. kvs \in [KvKeys -> KvEntry] /\ kvs[k] \in KvEntry
  BY DEF TableInv, GoodKeys
<1>3. kvs[k].version + 1 \in 0..KvVersions
  BY <1>1, <1>2, StoreAssumption DEF KvEntry
<1>4. entry \in KvEntry /\ entry.part = p
  BY <1>3 DEF KvEntry
<1> HIDE DEF entry
<1>5. \A x \in KvKeys : kvs'[x] = IF x = k THEN entry ELSE kvs[x]
  BY <1>1, <1>2
<1>6. GoodKeys(kvs')
  BY <1>1, <1>2, <1>4, <1>5 DEF TableInv, GoodKeys
<1>7. /\ parts' \in [Partitions -> SUBSET KvKeys]
      /\ \A x \in Partitions : parts[x] \subseteq parts'[x]
      /\ k \in parts'[p]
  BY <1>1 DEF TableInv
<1>8. \A x \in KvKeys : kvs'[x] = NoEntry \/ x \in parts'[kvs'[x].part]
  BY <1>4, <1>5, <1>7 DEF TableInv, GoodKeys
<1> QED  BY <1>1, <1>6, <1>7, <1>8 DEF TableInv, CleanIsSaved

\* Keys are deleted, because they expired or because somebody asked for it.
LEMMA DeletedStep ==
  ASSUME TableInv, NEW ks \in SUBSET KvKeys, DeletedKeys(ks),
         UNCHANGED <<storeFile, saveFailed>>
  PROVE  TableInv'
<1>1. /\ kvs' = [x \in KvKeys |-> IF x \in ks THEN NoEntry ELSE kvs[x]]
      /\ parts' = [p \in Partitions |-> parts[p] \ {x \in ks : kvs[x].part = p}]
      /\ kvDirty' = (kvDirty \/ ks # {})
  BY DEF DeletedKeys, Unindexed
<1>2. \A x \in KvKeys : kvs'[x] = IF x \in ks THEN NoEntry ELSE kvs[x]
  BY <1>1
<1>3. GoodKeys(kvs')
  BY <1>1, NoEntryIsEntry DEF TableInv, GoodKeys
<1>4. parts' \in [Partitions -> SUBSET KvKeys]
  BY <1>1 DEF TableInv
<1>5. \A x \in KvKeys : kvs'[x] = NoEntry \/ x \in parts'[kvs'[x].part]
  BY <1>1, <1>2 DEF TableInv, GoodKeys
<1>6. CleanIsSaved'
  BY <1>1, <1>2 DEF TableInv, CleanIsSaved
<1>7. kvDirty' \in BOOLEAN
  BY <1>1 DEF TableInv
<1> QED  BY <1>3, <1>4, <1>5, <1>6, <1>7 DEF TableInv

\* The keys that expired go, and the file is what is left, or unreadable.
LEMMA SaveStep ==
  ASSUME TableInv, NEW ok \in BOOLEAN, SaveKeys(ok)
  PROVE  TableInv'
<1> DEFINE ks == {k \in KvKeys : kvs[k].expired}
<1>1. /\ kvs' = [x \in KvKeys |-> IF x \in ks THEN NoEntry ELSE kvs[x]]
      /\ parts' = [p \in Partitions |-> parts[p] \ {x \in ks : kvs[x].part = p}]
      /\ kvDirty' = IF ok THEN FALSE ELSE kvDirty \/ ks # {}
      /\ IF ok THEN storeFile' = kvs' ELSE storeFile' \in {storeFile, Unreadable}
      /\ saveFailed' = ~ok
  BY DEF SaveKeys, Unindexed
<1>2. GoodKeys(kvs')
  BY <1>1, NoEntryIsEntry DEF TableInv, GoodKeys
<1>3. parts' \in [Partitions -> SUBSET KvKeys]
  BY <1>1 DEF TableInv
<1>4. \A x \in KvKeys : kvs'[x] = NoEntry \/ x \in parts'[kvs'[x].part]
  BY <1>1 DEF TableInv, GoodKeys
<1>5. storeFile' = Unreadable => saveFailed'
  BY <1>1, <1>2, KeysAreReadable
<1>6. CleanIsSaved' /\ kvDirty' \in BOOLEAN
  <2>1. CASE ok
    BY <1>1, <1>5, <2>1 DEF TableInv, CleanIsSaved
  <2>2. CASE ~ok
    BY <1>1, <2>2 DEF TableInv, CleanIsSaved
  <2> QED  BY <2>1, <2>2
<1>7. storeFile' # Unreadable => GoodKeys(storeFile')
  BY <1>1, <1>2 DEF TableInv
<1> QED  BY <1>2, <1>3, <1>4, <1>5, <1>6, <1>7 DEF TableInv, GoodKeys

\* What load and restore read of the file.
LEMMA SavedAreGood == ASSUME TableInv PROVE GoodKeys(SavedKeys)
<1>1. GoodKeys(EmptyKvs)
  BY NoEntryIsEntry DEF GoodKeys, EmptyKvs
<1> QED  BY <1>1 DEF TableInv, SavedKeys

\* A new process has what its file has, and is dirty unless that is nothing.
LEMMA RestartStep == ASSUME TableInv, RestartStore PROVE TableInv'
<1>1. /\ kvs' = SavedKeys /\ UNCHANGED <<storeFile, saveFailed>>
      /\ parts' = [p \in Partitions |-> {k \in KvKeys : SavedKeys[k].part = p}]
      /\ kvDirty' = (SavedKeys # EmptyKvs)
  BY DEF RestartStore
<1>2. GoodKeys(SavedKeys)
  BY SavedAreGood
<1>3. /\ parts' \in [Partitions -> SUBSET KvKeys]
      /\ \A x \in KvKeys : kvs'[x] = NoEntry \/ x \in parts'[kvs'[x].part]
  BY <1>1, <1>2 DEF GoodKeys
<1>4. CleanIsSaved' /\ kvDirty' \in BOOLEAN
  BY <1>1 DEF TableInv, CleanIsSaved, SavedKeys
<1> QED  BY <1>1, <1>2, <1>3, <1>4 DEF TableInv

\* Keys of the file are put into the running store.
LEMMA RestoreStep ==
  ASSUME TableInv, NEW merge \in BOOLEAN, RestoreKeys(merge)
  PROVE  TableInv'
<1> DEFINE ks == {k \in KvKeys : SavedKeys[k] # NoEntry /\ (merge \/ kvs[k] = NoEntry)}
<1>1. /\ kvs' = [k \in KvKeys |-> IF k \in ks THEN SavedKeys[k] ELSE kvs[k]]
      /\ parts' = [p \in Partitions |-> parts[p] \cup {k \in ks : SavedKeys[k].part = p}]
      /\ kvDirty' = (kvDirty \/ ks # {})
      /\ UNCHANGED <<storeFile, saveFailed>>
  BY DEF RestoreKeys
<1>2. GoodKeys(SavedKeys)
  BY SavedAreGood
<1>3. ks \subseteq KvKeys /\ \A k \in ks : SavedKeys[k] # NoEntry
  OBVIOUS
<1> HIDE DEF ks
<1>4. GoodKeys(kvs')
  BY <1>1, <1>2 DEF TableInv, GoodKeys
<1>5. parts' \in [Partitions -> SUBSET KvKeys]
  BY <1>1, <1>3 DEF TableInv
<1>6. ASSUME NEW x \in KvKeys, kvs'[x] # NoEntry PROVE x \in parts'[kvs'[x].part]
  <2>1. kvs'[x].part \in Partitions
    BY <1>4, <1>6 DEF GoodKeys
  <2> QED  BY <1>1, <1>6, <2>1 DEF TableInv
<1>7. CleanIsSaved' /\ kvDirty' \in BOOLEAN
  BY <1>1 DEF TableInv, CleanIsSaved
<1> QED  BY <1>1, <1>4, <1>5, <1>6, <1>7 DEF TableInv

\* A key reaches its time to live and stays in the store.
LEMMA ExpiryStep ==
  ASSUME TableInv, NEW k \in KvKeys, KeyExpires(k)
  PROVE  TableInv'
<1> DEFINE old == [kvs[k] EXCEPT !.expired = TRUE]
<1>1. /\ kvs' = [kvs EXCEPT ![k] = old] /\ kvs[k] # NoEntry /\ ~kvs[k].expired
      /\ parts' = parts /\ kvDirty' = kvDirty
      /\ UNCHANGED <<storeFile, saveFailed>>
  BY DEF KeyExpires
<1>2. kvs \in [KvKeys -> KvEntry] /\ kvs[k] \in KvEntry
  BY DEF TableInv, GoodKeys
<1>3. old \in KvEntry /\ old.part = kvs[k].part /\ old.expired = TRUE
  BY <1>2 DEF KvEntry
<1>4. CleanIsSaved'
  <2> SUFFICES ASSUME ~kvDirty, storeFile # Unreadable, NEW x \in KvKeys
               PROVE  kvs'[x] = storeFile[x] \/ kvs'[x] = [storeFile[x] EXCEPT !.expired = TRUE]
    BY <1>1 DEF TableInv, CleanIsSaved
  <2>1. kvs[x] = storeFile[x] \/ kvs[x] = [storeFile[x] EXCEPT !.expired = TRUE]
    BY DEF TableInv, CleanIsSaved
  <2>2. storeFile[x] \in KvEntry
    BY DEF TableInv, GoodKeys
  <2>3. CASE x # k
    BY <1>1, <1>2, <2>1, <2>3
  <2>4. CASE x = k
    <3>1. kvs'[x] = old
      BY <1>1, <1>2, <2>4
    <3>2. [storeFile[x] EXCEPT !.expired = TRUE].expired = TRUE
      BY <2>2 DEF KvEntry
    <3>3. kvs[k] = storeFile[x]
      BY <1>1, <2>1, <2>4, <3>2
    <3> QED  BY <3>1, <3>3
  <2> QED  BY <2>3, <2>4
<1> HIDE DEF old
<1>5. \A x \in KvKeys : kvs'[x] = IF x = k THEN old ELSE kvs[x]
  BY <1>1, <1>2
<1>6. GoodKeys(kvs')
  BY <1>1, <1>2, <1>3, <1>5 DEF TableInv, GoodKeys
<1>7. \A x \in KvKeys : kvs'[x] = NoEntry \/ x \in parts'[kvs'[x].part]
  BY <1>1, <1>3, <1>5 DEF TableInv
<1> QED  BY <1>1, <1>4, <1>6, <1>7 DEF TableInv

\* The invariant of the keys, their partitions and the file.
THEOREM TableInvariant == StoreSpec => []TableInv
<1>1. StoreInit => TableInv
  <2> SUFFICES ASSUME StoreInit PROVE TableInv
    OBVIOUS
  <2>1. GoodKeys(EmptyKvs) /\ \A k \in KvKeys : EmptyKvs[k] = NoEntry
    BY NoEntryIsEntry DEF GoodKeys, EmptyKvs
  <2>2. kvs = EmptyKvs /\ storeFile = EmptyKvs /\ storeFile # Unreadable
    BY <2>1, KeysAreReadable DEF StoreInit
  <2> QED  BY <2>1, <2>2 DEF StoreInit, TableInv, CleanIsSaved
<1>2. TableInv /\ [StoreNext]_storeVars => TableInv'
  <2> SUFFICES ASSUME TableInv, [StoreNext]_storeVars PROVE TableInv'
    OBVIOUS
  <2>1. ASSUME UNCHANGED <<kvs, parts, kvDirty, storeFile, saveFailed>> PROVE TableInv'
    BY <2>1 DEF TableInv, GoodKeys, CleanIsSaved
  <2>2. ASSUME NEW k \in KvKeys, DeleteKey(k) \/ GetKey(k) PROVE TableInv'
    BY <2>2, DeletedStep DEF DeleteKey, GetKey, Looked
  <2>3. ASSUME NEW k \in KvKeys, NEW p \in Partitions,
               \/ PutKey(k, p)
               \/ \E q \in RemoteCalls : ServePut(q, k, p) \/ ServeGet(q, k, p)
        PROVE  TableInv'
    BY <2>3, EnteredStep, DeletedStep DEF PutKey, ServePut, ServeGet, Looked
  <2>4. CASE CleanupKeys
    BY <2>4, DeletedStep DEF CleanupKeys
  <2>5. ASSUME NEW q \in RemoteCalls, CallRemote(q) \/ RemoteTimesOut(q) PROVE TableInv'
    BY <2>1, <2>5 DEF CallRemote, RemoteTimesOut
  <2>6. ASSUME NEW a \in replyNet, HandleKvResponse(a) PROVE TableInv'
    BY <2>1, <2>6 DEF HandleKvResponse
  <2> QED
    BY <2>1, <2>2, <2>3, <2>4, <2>5, <2>6, ExpiryStep, RestartStep, SaveStep, RestoreStep
       DEF StoreNext, storeVars
<1> QED  BY <1>1, <1>2, PTL DEF StoreSpec

\* The invariant of the remote calls.
THEOREM CallInvariant == StoreSpec => []CallInv
<1>1. StoreInit => CallInv
  BY DEF StoreInit, CallInv, ReportedPutWasMade, RemoteCalls
<1>2. CallInv /\ [StoreNext]_storeVars => CallInv'
  <2> SUFFICES ASSUME CallInv, [StoreNext]_storeVars PROVE CallInv'
    OBVIOUS
  <2>1. ASSUME UNCHANGED <<replyNet, waits, pendingReqs, applied>> PROVE CallInv'
    BY <2>1 DEF CallInv, ReportedPutWasMade
  <2>2. ASSUME NEW q \in RemoteCalls, CallRemote(q) PROVE CallInv'
    BY <2>2 DEF CallRemote, CallInv, ReportedPutWasMade, RemoteCalls
  <2>3. ASSUME NEW q \in RemoteCalls, NEW k \in KvKeys, NEW p \in Partitions, ServePut(q, k, p)
        PROVE  CallInv'
    BY <2>3 DEF ServePut, CallInv, ReportedPutWasMade
  <2>4. ASSUME NEW q \in RemoteCalls, NEW k \in KvKeys, NEW p \in Partitions, ServeGet(q, k, p)
        PROVE  CallInv'
    BY <2>4, StoreAssumption DEF ServeGet, CallInv, ReportedPutWasMade
  <2>5. ASSUME NEW a \in replyNet, HandleKvResponse(a) PROVE CallInv'
    BY <2>5 DEF HandleKvResponse, CallInv, ReportedPutWasMade, RemoteCalls
  <2>6. ASSUME NEW q \in RemoteCalls, RemoteTimesOut(q) PROVE CallInv'
    BY <2>6 DEF RemoteTimesOut, TimeoutAnswer, CallInv, ReportedPutWasMade, RemoteCalls
  <2> QED
    BY <2>1, <2>2, <2>3, <2>4, <2>5, <2>6
       DEF StoreNext, storeVars, callVars, DeleteKey, KeyExpires, GetKey, PutKey, CleanupKeys,
           RestartStore, SaveKeys, RestoreKeys
<1> QED  BY <1>1, <1>2, PTL DEF StoreSpec

\* list_partition finds every key of its partition, whatever partitions it was
\* in before, and a pending future has its caller (DistributedKVStore.put,
\* delete, restore).
THEOREM KeysAreIndexed == StoreSpec => []StoreTypeOK
<1>1. TableInv /\ CallInv => StoreTypeOK
  BY DEF TableInv, GoodKeys, KvEntry, CallInv, StoreTypeOK
<1> QED  BY <1>1, TableInvariant, CallInvariant, PTL

\* A store that is not dirty agrees with its file key by key, so a restart loses
\* and brings back nothing, or its last save failed and left the file unreadable;
\* _dirty does not tell the two apart (DistributedKVStore.save, load).
THEOREM CleanKeysAreSaved == StoreSpec => []CleanIsSaved
<1>1. TableInv => CleanIsSaved
  BY DEF TableInv
<1> QED  BY <1>1, TableInvariant, PTL

\* A remote put that was reported as done was made, however messages are lost
\* or late (put_remote, handle_kv_response).
THEOREM ReportedPutsWereMade == StoreSpec => []ReportedPutWasMade
<1>1. CallInv => ReportedPutWasMade
  BY DEF CallInv
<1> QED  BY <1>1, CallInvariant, PTL

-----------------------------------------------------------------------------
(* Shards and volumes.                                                     *)

FileSet == [data : Data \cup {NoData, Torn}, size : Nat]

\* What a volume keeps for each path: the files, used_bytes within the limit, an
\* entry at most once.
Volumes ==
    [files : [Paths -> FileSet], used : 0..VolLimit, lru : {q \in Seq(Paths) : IsInjective(q)}]

\* Every entry has a file, and what is counted covers the files.
Listed(v) == \A s \in ToSet(v.lru) : v.files[s] # NoFile
Total(f) == FoldFunction(LAMBDA e, n : e.size + n, 0, f)
Covered(v) == Total(v.files) <= v.used

\* A volume w that has the files of v or fewer.
Reduced(v, w) ==
    /\ w \in Volumes /\ Listed(w)
    /\ \A s \in Paths : w.files[s] \in {v.files[s], NoFile}
    /\ Covered(v) => Covered(w)

\* No file is a file of size 0.
LEMMA NoFileIsFile == NoFile \in FileSet /\ NoFile.size = 0 /\ NoFile.data = NoData
BY DEF NoFile, FileSet

\* The sum of the sizes of the files is a sum over the paths.
LEMMA TotalIsSum ==
  ASSUME NEW f \in [Paths -> FileSet]
  PROVE  /\ [s \in Paths |-> f[s].size] \in [Paths -> Int]
         /\ \E t : IsSumTable(t, Paths, [s \in Paths |-> f[s].size]) /\ Total(f) = t[Paths]
<1> DEFINE g == [s \in Paths |-> f[s].size]
           One(q) == CHOOSE x \in q : TRUE
           Filled(it) ==
               it = [q \in SUBSET Paths |->
                        IF q = {} THEN 0 ELSE f[One(q)].size + it[q \ {One(q)}]]
           iter == CHOOSE it : Filled(it)
<1>1. IsFiniteSet(Paths) /\ g \in [Paths -> Int] /\ DOMAIN f = Paths
  <2>1. \A s \in Paths : f[s].size \in Nat
    BY DEF FileSet
  <2> QED  BY <2>1, ShardAssumption DEF Paths
<1>2. Total(f) = iter[Paths]
  BY <1>1 DEF Total, FoldFunction, FoldFunctionOnSet, MapThenFoldSet
<1>3. PICK t : IsSumTable(t, Paths, g)
  BY ONLY <1>1, SumTable
<1>4. \A q \in SUBSET Paths : q # {} => One(q) \in q /\ g[One(q)] = f[One(q)].size
  OBVIOUS
<1> HIDE DEF g, One
<1>5. Filled(t)
  BY <1>3, <1>4 DEF IsSumTable, One
<1>6. Filled(iter)
  BY <1>5
<1> HIDE DEF iter
<1>7. IsSumTable(iter, Paths, g)
  <2>1. \A q \in SUBSET Paths :
           iter[q] = IF q = {} THEN 0 ELSE g[One(q)] + iter[q \ {One(q)}]
    BY <1>4, <1>6
  <2> DEFINE T == {q \in SUBSET Paths : iter[q] \in Int}
  <2>2. {} \in T
    <3>1. {} \in SUBSET Paths /\ iter[{}] = 0
      BY <2>1
    <3> QED  BY <3>1
  <2>3. ASSUME NEW q \in SUBSET Paths, q # {}, \A x \in q : q \ {x} \in T PROVE q \in T
    <3>1. One(q) \in q /\ g[One(q)] \in Int /\ iter[q \ {One(q)}] \in Int
      BY <1>1, <1>4, <2>3
    <3>2. iter[q] = g[One(q)] + iter[q \ {One(q)}]
      BY <2>1, <2>3
    <3>3. iter[q] \in Int
      BY ONLY <3>1, <3>2
    <3> QED  BY <2>3, <3>3
  <2> HIDE DEF T
  <2>4. SUBSET Paths \subseteq T
    BY ONLY <1>1, <2>2, <2>3, SubsetsUp
  <2> QED  BY <1>6, <2>1, <2>4 DEF T, IsSumTable, One
<1> QED  BY <1>1, <1>2, <1>7 DEF g

\* A file is replaced: its size is given back, the other one's counted.
LEMMA TotalChanges ==
  ASSUME NEW f \in [Paths -> FileSet], NEW s \in Paths, NEW e \in FileSet
  PROVE  /\ Total([f EXCEPT ![s] = e]) = Total(f) - f[s].size + e.size
         /\ Total(f) \in Int /\ f[s].size \in Nat /\ e.size \in Nat
<1> DEFINE h == [f EXCEPT ![s] = e]
           g == [p \in Paths |-> f[p].size]
           k == [p \in Paths |-> h[p].size]
<1>1. h \in [Paths -> FileSet] /\ IsFiniteSet(Paths)
  BY ShardAssumption DEF Paths
<1>2. PICK t : g \in [Paths -> Int] /\ IsSumTable(t, Paths, g) /\ Total(f) = t[Paths]
  BY TotalIsSum
<1> HIDE DEF h
<1>3. PICK u : k \in [Paths -> Int] /\ IsSumTable(u, Paths, k) /\ Total(h) = u[Paths]
  BY <1>1, TotalIsSum
<1>4. /\ g[s] = f[s].size /\ k[s] = e.size
      /\ \A p \in Paths \ {s} : g[p] = k[p]
  BY DEF h
<1> HIDE DEF g, k
<1>5. t[Paths] = g[s] + t[Paths \ {s}] /\ u[Paths] = k[s] + u[Paths \ {s}]
  <2>0. Paths \in SUBSET Paths
    OBVIOUS
  <2>1. t[Paths] = g[s] + t[Paths \ {s}]
    BY ONLY SMTT(30), <1>1, <1>2, <2>0, s \in Paths, SumParts
  <2>2. u[Paths] = k[s] + u[Paths \ {s}]
    <3>1. IsFiniteSet(Paths) /\ k \in [Paths -> Int] /\ IsSumTable(u, Paths, k)
      BY <1>1, <1>3
    <3> QED  BY ONLY <3>1, <2>0, s \in Paths, SumParts
  <2> QED  BY <2>1, <2>2
<1>6. t[Paths \ {s}] = u[Paths \ {s}] /\ t[Paths \ {s}] \in Int
  <2>1. Paths \ {s} \in SUBSET Paths
    OBVIOUS
  <2>2. t[Paths \ {s}] = u[Paths \ {s}]
    BY ONLY <1>1, <1>2, <1>3, <1>4, <2>1, SumSame
  <2> QED  BY <1>2, <2>1, <2>2 DEF IsSumTable
<1>7. g[s] \in Int /\ k[s] \in Int /\ f[s].size \in Nat /\ e.size \in Nat
  BY <1>2, <1>3 DEF FileSet
<1> QED  BY <1>2, <1>3, <1>4, <1>5, <1>6, <1>7 DEF h

\* No files, no bytes.
LEMMA TotalOfNone ==
  ASSUME NEW f \in [Paths -> FileSet], \A s \in Paths : f[s] = NoFile
  PROVE  Total(f) = 0
<1> DEFINE g == [p \in Paths |-> f[p].size]
<1>1. IsFiniteSet(Paths)
  BY ShardAssumption DEF Paths
<1>2. PICK t : g \in [Paths -> Int] /\ IsSumTable(t, Paths, g) /\ Total(f) = t[Paths]
  BY TotalIsSum
<1>3. \A s \in Paths : g[s] = 0
  BY NoFileIsFile
<1> HIDE DEF g
<1> QED  BY ONLY <1>1, <1>2, <1>3, SumOfZeros

\* A file is deleted: of what is counted, no more is given back than its size.
LEMMA DeletedReduces ==
  ASSUME NEW v \in Volumes, Listed(v), NEW s \in Paths
  PROVE  Reduced(v, FileDeleted(v, s))
<1> DEFINE w == FileDeleted(v, s)
           size == v.files[s].size
<1>1. /\ v.files \in [Paths -> FileSet] /\ v.used \in 0..VolLimit
      /\ v.lru \in Seq(Paths) /\ IsInjective(v.lru) /\ VolLimit \in Nat
  BY ShardAssumption DEF Volumes
<1>2. size \in Nat
  BY <1>1 DEF FileSet
<1>3. /\ w.files = [v.files EXCEPT ![s] = NoFile]
      /\ w.used = IF v.used > size THEN v.used - size ELSE 0
      /\ w.lru = RemoveFirst(v.lru, s)
      /\ w = [files |-> w.files, used |-> w.used, lru |-> w.lru]
  BY DEF FileDeleted
<1>4. w.lru \in Seq(Paths) /\ IsInjective(w.lru) /\ ToSet(w.lru) = ToSet(v.lru) \ {s}
  BY ONLY <1>1, <1>3, ElementRemoved
<1>5. Total(w.files) = Total(v.files) - size + 0 /\ Total(v.files) \in Int
  <2>1. Total([v.files EXCEPT ![s] = NoFile]) = Total(v.files) - v.files[s].size + NoFile.size
        /\ Total(v.files) \in Int
    BY ONLY <1>1, s \in Paths, NoFileIsFile, TotalChanges
  <2> QED  BY <1>3, <2>1, NoFileIsFile
<1> HIDE DEF w, size
<1>6. w.files \in [Paths -> FileSet] /\ w.used \in 0..VolLimit
  BY <1>1, <1>2, <1>3, NoFileIsFile
<1>7. w \in Volumes
  <2>1. [files |-> w.files, used |-> w.used, lru |-> w.lru] \in Volumes
    BY <1>4, <1>6 DEF Volumes
  <2> QED  BY <1>3, <2>1
<1>8. \A p \in Paths : w.files[p] = IF p = s THEN NoFile ELSE v.files[p]
  BY <1>1, <1>3
<1>9. Listed(w)
  <2>1. ToSet(v.lru) \subseteq Paths
    BY <1>1 DEF ToSet
  <2> QED  BY <1>4, <1>8, <2>1 DEF Listed
<1>10. Covered(v) => Covered(w)
  BY <1>1, <1>2, <1>3, <1>5 DEF Covered
<1> QED  BY <1>7, <1>8, <1>9, <1>10 DEF Reduced, w

\* Reducing a reduced volume reduces.
LEMMA ReducedTwice ==
  ASSUME NEW u, NEW v, NEW w, Reduced(u, v), Reduced(v, w)
  PROVE  Reduced(u, w)
BY DEF Reduced

\* So does _evict_lru, which deletes one listed file after the other.
LEMMA EvictedReduces ==
  ASSUME NEW v \in Volumes, Listed(v)
  PROVE  Reduced(v, Evicted(v))
<1> DEFINE n == Len(v.lru)
           D == DOMAIN v.lru
           L == v.lru
           Gone(w, s) == IF w.used <= LowWatermark THEN w ELSE FileDeleted(w, s)
           X == {w \in Volumes : Reduced(v, w)}
           F == [i \in 1..n |-> [w \in X |-> Gone(w, L[i])]]
           Filled(it) ==
               it = [q \in SUBSET D |->
                        IF q = {} THEN v ELSE Gone(it[q \ {Max(q)}], L[Max(q)])]
           iter == CHOOSE it : Filled(it)
<1>1. Evicted(v) = iter[D]
  BY DEF Evicted, FoldLeft, MapThenFoldSet
<1>2. n \in Nat /\ D = 1..n /\ \A i \in 1..n : L[i] \in Paths
  BY DEF Volumes
<1>3. v \in X
  BY DEF Reduced
<1>4. \A w \in X, s \in Paths : Gone(w, s) \in X
  <2> SUFFICES ASSUME NEW w \in X, NEW s \in Paths PROVE Gone(w, s) \in X
    OBVIOUS
  <2>1. Reduced(w, FileDeleted(w, s))
    BY DeletedReduces DEF Reduced
  <2>2. FileDeleted(w, s) \in X
    BY <2>1, ReducedTwice DEF Reduced
  <2> QED  BY <2>2
<1> HIDE DEF n, D, L, X, Gone
<1>5. F \in [1..n -> [X -> X]]
  BY <1>2, <1>4
<1>6. \A i \in 1..n, w \in X : F[i][w] = Gone(w, L[i])
  OBVIOUS
<1> HIDE DEF F
<1>7. PICK t : IsFoldTable(t, n, X, v, F)
  BY ONLY <1>2, <1>3, <1>5, FoldTable
<1>8. Filled(t)
  <2>1. ASSUME NEW q \in SUBSET (1..n), q # {}
        PROVE  t[q] = Gone(t[q \ {Max(q)}], L[Max(q)])
    <3>1. /\ Max(q) \in 1..n /\ t[q \ {Max(q)}] \in X
          /\ t[q] = F[Max(q)][t[q \ {Max(q)}]]
      <4>1. n \in Nat
        BY <1>2
      <4> QED  BY ONLY <4>1, <1>7, <2>1, FoldSteps
    <3> QED  BY <1>6, <3>1
  <2> QED  BY <1>2, <1>7, <2>1 DEF IsFoldTable
<1>9. Filled(iter)
  BY <1>8
<1> HIDE DEF iter
<1>10. /\ iter[{}] \in X
       /\ \A q \in SUBSET (1..n) : q # {} /\ iter[q \ {Max(q)}] \in X =>
                                     iter[q] = F[Max(q)][iter[q \ {Max(q)}]]
  <2> SUFFICES ASSUME NEW q \in SUBSET (1..n), q # {}, iter[q \ {Max(q)}] \in X
               PROVE  iter[q] = F[Max(q)][iter[q \ {Max(q)}]]
    BY <1>2, <1>3, <1>9
  <2>1. Max(q) \in 1..n
    BY ONLY <1>2, <1>7, q \in SUBSET (1..n), q # {}, FoldSteps
  <2>2. iter[q] = Gone(iter[q \ {Max(q)}], L[Max(q)])
    BY <1>2, <1>9
  <2> QED  BY <1>6, <2>1, <2>2
<1>11. iter[1..n] \in X
  BY ONLY <1>2, <1>5, <1>10, FoldStays
<1> QED  BY <1>1, <1>2, <1>11 DEF X

\* A write begins with an eviction or without one.
LEMMA RoomyReduces ==
  ASSUME NEW v \in Volumes, Listed(v), NEW d \in Data
  PROVE  Reduced(v, Roomy(v, d))
BY EvictedReduces DEF Roomy, Reduced

\* A file is written if the eviction made room for it; nothing else is added.
LEMMA WrittenFits ==
  ASSUME NEW v \in Volumes, Listed(v), NEW s \in Paths, NEW d \in Data
  PROVE  LET w == FileWritten(v, s, d)
         IN  /\ w \in Volumes /\ Listed(w)
             /\ \A p \in Paths \ {s} : w.files[p] \in {v.files[p], NoFile}
             /\ IF Fits(Roomy(v, d), d) THEN w.files[s].data = d
                ELSE w.files[s] \in {v.files[s], NoFile}
             /\ Covered(v) => Covered(w)
<1> DEFINE r == Roomy(v, d)
           e == [data |-> d, size |-> SizeMap[d]]
           w == FileWritten(v, s, d)
<1>1. r \in Volumes /\ Listed(r) /\ Reduced(v, r)
  BY RoomyReduces DEF Reduced
<1>2. SizeMap[d] \in Nat /\ VolLimit \in Nat /\ e \in FileSet /\ e # NoFile
  BY ShardAssumption DEF FileSet, NoFile
<1>3. /\ r.files \in [Paths -> FileSet] /\ r.used \in 0..VolLimit
      /\ r.lru \in Seq(Paths) /\ IsInjective(r.lru)
      /\ r = [files |-> r.files, used |-> r.used, lru |-> r.lru]
  BY <1>1 DEF Volumes
<1>4. CASE ~Fits(r, d)
  BY <1>1, <1>4 DEF FileWritten, Reduced
<1>5. CASE Fits(r, d)
  <2>1. w = Touched([r EXCEPT !.files[s] = e, !.used = @ + SizeMap[d]], s)
    BY <1>5 DEF FileWritten
  <2>2. [r EXCEPT !.files[s] = e, !.used = @ + SizeMap[d]]
        = [files |-> [r.files EXCEPT ![s] = e], used |-> r.used + SizeMap[d], lru |-> r.lru]
    <3> HIDE DEF r, e
    <3>1. [r EXCEPT !.files[s] = e, !.used = @ + SizeMap[d]]
          = [[r EXCEPT !.files[s] = e] EXCEPT !.used = @ + SizeMap[d]]
      OBVIOUS
    <3>2. [r EXCEPT !.files[s] = e]
          = [files |-> [r.files EXCEPT ![s] = e], used |-> r.used, lru |-> r.lru]
      BY <1>3
    <3>3. ASSUME NEW a, NEW b, NEW c
          PROVE  [[files |-> a, used |-> b, lru |-> c] EXCEPT !.used = @ + SizeMap[d]]
                 = [files |-> a, used |-> b + SizeMap[d], lru |-> c]
      OBVIOUS
    <3>4. [[files |-> [r.files EXCEPT ![s] = e], used |-> r.used, lru |-> r.lru]
              EXCEPT !.used = @ + SizeMap[d]]
          = [files |-> [r.files EXCEPT ![s] = e], used |-> r.used + SizeMap[d], lru |-> r.lru]
      BY ONLY <3>3
    <3>5. [[r EXCEPT !.files[s] = e] EXCEPT !.used = @ + SizeMap[d]]
          = [files |-> [r.files EXCEPT ![s] = e], used |-> r.used + SizeMap[d], lru |-> r.lru]
      BY ONLY <3>2, <3>4
    <3> QED  BY ONLY <3>1, <3>5
  <2>3. w = [files |-> [r.files EXCEPT ![s] = e], used |-> r.used + SizeMap[d],
             lru |-> Append(RemoveFirst(r.lru, s), s)]
    BY <2>1, <2>2 DEF Touched
  <2> DEFINE q == RemoveFirst(r.lru, s)
  <2>4. q \in Seq(Paths) /\ IsInjective(q) /\ ToSet(q) = ToSet(r.lru) \ {s}
    BY ONLY <1>3, ElementRemoved
  <2>5. /\ w.files = [r.files EXCEPT ![s] = e] /\ w.used = r.used + SizeMap[d]
        /\ w.lru = Append(q, s)
        /\ w = [files |-> w.files, used |-> w.used, lru |-> w.lru]
    BY <2>3
  <2> HIDE DEF q, w, r, e
  <2>6. Append(q, s) \in Seq(Paths) /\ IsInjective(Append(q, s))
        /\ ToSet(Append(q, s)) = ToSet(r.lru) \cup {s}
    BY <2>4, AppendedOnce
  <2>7. w.files \in [Paths -> FileSet] /\ w.used \in 0..VolLimit
    <3>1. r.used + SizeMap[d] <= VolLimit
      BY <1>5 DEF Fits
    <3> QED  BY <1>2, <1>3, <2>5, <3>1
  <2>8. w \in Volumes
    <3>1. [files |-> w.files, used |-> w.used, lru |-> w.lru] \in Volumes
      BY <2>5, <2>6, <2>7 DEF Volumes
    <3> QED  BY <2>5, <3>1
  <2>9. \A p \in Paths : w.files[p] = IF p = s THEN e ELSE r.files[p]
    BY <1>3, <2>5
  <2>10. Listed(w)
    <3>1. ToSet(r.lru) \subseteq Paths
      BY <1>3 DEF ToSet
    <3> QED  BY <1>1, <1>2, <2>5, <2>6, <2>9, <3>1 DEF Listed
  <2>11. Covered(v) => Covered(w)
    <3>1. /\ Total(w.files) = Total(r.files) - r.files[s].size + SizeMap[d]
          /\ Total(r.files) \in Int /\ r.files[s].size \in Nat
      <4>1. e.size = SizeMap[d]
        BY DEF e
      <4> QED  BY ONLY <1>2, <1>3, <2>5, <4>1, s \in Paths, TotalChanges
    <3>2. Covered(v) => Total(r.files) <= r.used
      BY <1>1 DEF Reduced, Covered
    <3> QED  BY <1>2, <1>3, <2>5, <3>1, <3>2 DEF Covered
  <2>12. w.files[s].data = d
    BY <2>9 DEF e
  <2> QED  BY <1>1, <1>5, <2>8, <2>9, <2>10, <2>11, <2>12 DEF Reduced, r, w
<1> QED  BY <1>4, <1>5

\* A write that fails leaves a torn file, which is not counted.
LEMMA TornFits ==
  ASSUME NEW v \in Volumes, Listed(v), NEW s \in Paths, NEW d \in Data
  PROVE  LET w == FileTorn(v, s, d)
         IN  /\ w \in Volumes /\ Listed(w)
             /\ \A p \in Paths \ {s} : w.files[p] \in {v.files[p], NoFile}
<1> DEFINE r == Roomy(v, d)
           e == [data |-> Torn, size |-> SizeMap[d] - 1]
           w == FileTorn(v, s, d)
<1>1. r \in Volumes /\ Listed(r) /\ Reduced(v, r)
  BY RoomyReduces DEF Reduced
<1>2. e \in FileSet /\ e # NoFile
  BY ShardAssumption DEF FileSet, NoFile
<1>3. CASE ~Fits(r, d)
  BY <1>1, <1>3 DEF FileTorn, Reduced
<1>4. CASE Fits(r, d)
  <2>1. w = [r EXCEPT !.files[s] = e]
    BY <1>4 DEF FileTorn
  <2>2. /\ r.files \in [Paths -> FileSet] /\ r.used \in 0..VolLimit
        /\ r.lru \in Seq(Paths) /\ IsInjective(r.lru)
        /\ r = [files |-> r.files, used |-> r.used, lru |-> r.lru]
    BY <1>1 DEF Volumes
  <2> HIDE DEF r, e, w
  <2>3. w = [files |-> [r.files EXCEPT ![s] = e], used |-> r.used, lru |-> r.lru]
    BY <2>1, <2>2
  <2>4. w \in Volumes
    BY <1>2, <2>2, <2>3 DEF Volumes
  <2>5. \A p \in Paths : w.files[p] = IF p = s THEN e ELSE r.files[p]
    BY <2>2, <2>3
  <2>6. Listed(w)
    <3>1. ToSet(r.lru) \subseteq Paths
      BY <2>2 DEF ToSet
    <3> QED  BY <1>1, <1>2, <2>3, <2>5, <3>1 DEF Listed
  <2> QED  BY <1>1, <2>4, <2>5, <2>6 DEF Reduced, w
<1> QED  BY <1>3, <1>4

\* A file with given data, and a volume that is good apart from what is counted.
GoodVolume(v) == v \in Volumes /\ Listed(v)

\* What one replica's turn does to a volume: only the file of the shard may get
\* other data, and it gets the data if the turn succeeds.
LEMMA SyncFits ==
  ASSUME NEW v \in Volumes, Listed(v), NEW s \in Shards, NEW d \in Data,
         NEW r \in 1..Replicas, NEW bad \in SUBSET (1..Replicas), NEW sent
  PROVE  LET o == SyncToNode(v, s, d, r, bad, sent)
         IN  /\ o = [vol |-> o.vol, ok |-> o.ok] /\ o.ok \in BOOLEAN
             /\ GoodVolume(o.vol)
             /\ \A p \in Paths \ {s} : o.vol.files[p] \in {v.files[p], NoFile}
             /\ r \in away => o.vol = v
             /\ r \notin away /\ o.ok => o.vol.files[s].data = d
             /\ bad = {} => /\ Covered(v) => Covered(o.vol)
                            /\ o.vol.files[s].data \in {d, v.files[s].data, NoData}
<1> DEFINE o == SyncToNode(v, s, d, r, bad, sent)
<1>1. s \in Paths
  BY DEF Paths
<1>2. CASE r \in away
  <2>1. o = [vol |-> v, ok |-> r \in sent]
    BY <1>2 DEF SyncToNode, SyncViaFmp
  <2> QED  BY <1>2, <2>1 DEF GoodVolume
<1>3. CASE r \notin away /\ r \in bad
  <2>1. o = [vol |-> FileTorn(v, s, d), ok |-> FALSE] /\ bad # {}
    BY <1>3 DEF SyncToNode, SyncLocal
  <2> QED  BY <1>1, <1>3, <2>1, TornFits DEF GoodVolume
<1>4. CASE r \notin away /\ r \notin bad
  <2> DEFINE w == FileWritten(v, s, d)
             fits == Fits(Roomy(v, d), d)
  <2>1. o = [vol |-> w, ok |-> fits] /\ fits \in BOOLEAN
    BY <1>4 DEF SyncToNode, SyncLocal, Fits
  <2>2. /\ w \in Volumes /\ Listed(w)
        /\ \A p \in Paths \ {s} : w.files[p] \in {v.files[p], NoFile}
        /\ IF fits THEN w.files[s].data = d ELSE w.files[s] \in {v.files[s], NoFile}
        /\ Covered(v) => Covered(w)
    BY <1>1, WrittenFits
  <2> HIDE DEF w, fits
  <2> QED  BY <1>4, <2>1, <2>2, NoFileIsFile DEF GoodVolume, o
<1> QED  BY <1>2, <1>3, <1>4

\* The state of the loop of quorum_write: the other files keep their data or
\* are gone, and the shard's file has the data once it landed.
LoopState(s, d, bad, a) ==
    /\ a.oks \in Nat /\ a.landed \in BOOLEAN /\ GoodVolume(a.vol)
    /\ \A p \in Paths \ {s} : a.vol.files[p] \in {vol.files[p], NoFile}
    /\ a.landed => a.vol.files[s].data = d
    /\ bad = {} => (Covered(vol) => Covered(a.vol))

\* The loop ends in such a state.
LEMMA LoopEnds ==
  ASSUME GoodVolume(vol), NEW s \in Shards, NEW d \in Data, NEW bad \in SUBSET (1..Replicas),
         NEW sent
  PROVE  LoopState(s, d, bad, QuorumLoop(s, d, bad, sent))
<1> DEFINE n == Replicas
           L == [r \in 1..Replicas |-> r]
           D == DOMAIN L
           a0 == [vol |-> vol, oks |-> 0, landed |-> FALSE]
           Turn(a, r) ==
               IF a.oks >= Quorum \/ state[s][r] = "failed" THEN a
               ELSE LET o == SyncToNode(a.vol, s, d, r, bad, sent) IN
                    [vol |-> o.vol, oks |-> IF o.ok THEN a.oks + 1 ELSE a.oks,
                     landed |-> IF r \in away THEN a.landed ELSE o.ok]
           X == {a \in [vol : Volumes, oks : Nat, landed : BOOLEAN] : LoopState(s, d, bad, a)}
           F == [i \in 1..n |-> [a \in X |-> Turn(a, L[i])]]
           Filled(it) ==
               it = [q \in SUBSET D |->
                        IF q = {} THEN a0 ELSE Turn(it[q \ {Max(q)}], L[Max(q)])]
           iter == CHOOSE it : Filled(it)
<1>1. QuorumLoop(s, d, bad, sent) = iter[D]
  BY DEF QuorumLoop, FoldLeft, MapThenFoldSet
<1>2. n \in Nat /\ D = 1..n /\ \A i \in 1..n : L[i] = i
  BY ShardAssumption
<1>3. a0 \in X
  BY DEF LoopState, GoodVolume
<1>4. ASSUME NEW a \in X, NEW r \in 1..n PROVE Turn(a, r) \in X
  <2> DEFINE o == SyncToNode(a.vol, s, d, r, bad, sent)
  <2>1. CASE a.oks >= Quorum \/ state[s][r] = "failed"
    BY <2>1
  <2>2. CASE ~(a.oks >= Quorum \/ state[s][r] = "failed")
    <3>1. a.vol \in Volumes /\ Listed(a.vol) /\ a.oks \in Nat /\ LoopState(s, d, bad, a)
      BY DEF GoodVolume, LoopState
    <3>2. /\ o = [vol |-> o.vol, ok |-> o.ok] /\ o.ok \in BOOLEAN
          /\ GoodVolume(o.vol)
          /\ \A p \in Paths \ {s} : o.vol.files[p] \in {a.vol.files[p], NoFile}
          /\ r \in away => o.vol = a.vol
          /\ r \notin away /\ o.ok => o.vol.files[s].data = d
          /\ bad = {} => (Covered(a.vol) => Covered(o.vol))
      BY ONLY <3>1, s \in Shards, d \in Data, r \in 1..n, bad \in SUBSET (1..Replicas), SyncFits
    <3> HIDE DEF o
    <3> DEFINE b == [vol |-> o.vol, oks |-> IF o.ok THEN a.oks + 1 ELSE a.oks,
                     landed |-> IF r \in away THEN a.landed ELSE o.ok]
    <3>3. Turn(a, r) = b
      BY <2>2 DEF o
    <3>4. b \in [vol : Volumes, oks : Nat, landed : BOOLEAN]
      BY <3>1, <3>2 DEF GoodVolume, LoopState
    <3>5. b.landed => b.vol.files[s].data = d
      BY <3>1, <3>2 DEF LoopState
    <3>6. LoopState(s, d, bad, b)
      <4>1. \A p \in Paths \ {s} : b.vol.files[p] \in {vol.files[p], NoFile}
        BY <3>1, <3>2 DEF LoopState
      <4>2. bad = {} => (Covered(vol) => Covered(b.vol))
        BY <3>1, <3>2 DEF LoopState
      <4>3. b.oks \in Nat /\ b.landed \in BOOLEAN /\ GoodVolume(b.vol)
        BY <3>2, <3>4
      <4> QED  BY <3>5, <4>1, <4>2, <4>3 DEF LoopState
    <3> QED  BY <3>3, <3>4, <3>6
  <2> QED  BY <2>1, <2>2
<1> HIDE DEF n, D, L, X, Turn, a0
<1>5. F \in [1..n -> [X -> X]]
  BY <1>2, <1>4
<1>6. \A i \in 1..n, a \in X : F[i][a] = Turn(a, L[i])
  OBVIOUS
<1> HIDE DEF F
<1>7. PICK t : IsFoldTable(t, n, X, a0, F)
  BY ONLY <1>2, <1>3, <1>5, FoldTable
<1>8. Filled(t)
  <2>1. ASSUME NEW q \in SUBSET (1..n), q # {}
        PROVE  t[q] = Turn(t[q \ {Max(q)}], L[Max(q)])
    <3>1. /\ Max(q) \in 1..n /\ t[q \ {Max(q)}] \in X
          /\ t[q] = F[Max(q)][t[q \ {Max(q)}]]
      <4>1. n \in Nat
        BY <1>2
      <4> QED  BY ONLY <4>1, <1>7, <2>1, FoldSteps
    <3> QED  BY <1>6, <3>1
  <2> QED  BY <1>2, <1>7, <2>1 DEF IsFoldTable
<1>9. Filled(iter)
  BY <1>8
<1> HIDE DEF iter
<1>10. /\ iter[{}] \in X
       /\ \A q \in SUBSET (1..n) : q # {} /\ iter[q \ {Max(q)}] \in X =>
                                     iter[q] = F[Max(q)][iter[q \ {Max(q)}]]
  <2> SUFFICES ASSUME NEW q \in SUBSET (1..n), q # {}, iter[q \ {Max(q)}] \in X
               PROVE  iter[q] = F[Max(q)][iter[q \ {Max(q)}]]
    BY <1>2, <1>3, <1>9
  <2>1. Max(q) \in 1..n
    BY ONLY <1>2, <1>7, q \in SUBSET (1..n), q # {}, FoldSteps
  <2>2. iter[q] = Turn(iter[q \ {Max(q)}], L[Max(q)])
    BY <1>2, <1>9
  <2> QED  BY <1>6, <2>1, <2>2
<1>11. iter[1..n] \in X
  BY ONLY <1>2, <1>5, <1>10, FoldStays
<1> QED  BY <1>1, <1>2, <1>11 DEF X

\* The volume is good, what is counted covers its files unless it was spoiled, and a
\* shard whose last write reached its quorum and landed has that data registered and
\* in its file, or no file.
ShardInv ==
    /\ GoodVolume(vol) /\ spoiled \in BOOLEAN /\ (~spoiled => Covered(vol))
    /\ state \in [Shards -> [1..Replicas -> {"active", "recovering", "failed"}]]
    /\ shardData \in [Shards -> Data \cup {NoData}]
    /\ written \in [Shards -> [data : Data \cup {NoData}, landed : BOOLEAN]]
    /\ \A s \in Shards : written[s].landed =>
          shardData[s] = written[s].data /\ vol.files[s].data \in {written[s].data, NoData}

\* The volume loses files, or gets one that is not a shard's.
LEMMA VolumeStep ==
  ASSUME ShardInv, GoodVolume(vol'), spoiled' \in BOOLEAN, ~spoiled' => Covered(vol'),
         \A s \in Shards : vol'.files[s] \in {vol.files[s], NoFile},
         UNCHANGED <<state, away, shardData, written>>
  PROVE  ShardInv'
<1>1. \A s \in Shards : written[s].landed => vol'.files[s].data \in {written[s].data, NoData}
  BY NoFileIsFile DEF ShardInv
<1>2. GoodVolume(vol)' /\ (~spoiled => Covered(vol))'
  OBVIOUS
<1> QED  BY <1>1, <1>2 DEF ShardInv

\* A new volume is good and has no files.
LEMMA EmptyVolumeIsGood ==
  GoodVolume(EmptyVolume) /\ Covered(EmptyVolume) /\ \A s \in Paths : EmptyVolume.files[s] = NoFile
<1>1. /\ EmptyVolume.files \in [Paths -> FileSet] /\ EmptyVolume.used = 0
      /\ EmptyVolume.lru = <<>> /\ \A s \in Paths : EmptyVolume.files[s] = NoFile
  BY NoFileIsFile DEF EmptyVolume
<1>2. Total(EmptyVolume.files) = 0
  BY ONLY <1>1, TotalOfNone
<1>3. EmptyVolume \in Volumes
  BY <1>1, ShardAssumption DEF Volumes, EmptyVolume, IsInjective
<1>4. Listed(EmptyVolume)
  BY <1>1 DEF Listed, ToSet
<1> QED  BY <1>1, <1>2, <1>3, <1>4 DEF GoodVolume, Covered

\* A read moves the entry to the end of the list.
LEMMA ReadFileStep ==
  ASSUME ShardInv, NEW s \in Paths, ReadFile(s)
  PROVE  ShardInv'
<1>0. GoodVolume(vol) /\ vol \in Volumes /\ Listed(vol)
  BY DEF ShardInv, GoodVolume
<1>1. CASE vol' = vol
  BY <1>0, <1>1, VolumeStep DEF ReadFile, ShardInv
<1>2. CASE vol' = Touched(vol, s)
  <2> DEFINE q == RemoveFirst(vol.lru, s)
  <2>1. /\ vol.files \in [Paths -> FileSet] /\ vol.used \in 0..VolLimit
        /\ vol.lru \in Seq(Paths) /\ IsInjective(vol.lru)
        /\ vol = [files |-> vol.files, used |-> vol.used, lru |-> vol.lru]
    BY <1>0 DEF Volumes
  <2>2. q \in Seq(Paths) /\ IsInjective(q) /\ ToSet(q) = ToSet(vol.lru) \ {s}
    BY ONLY <2>1, ElementRemoved
  <2>3. vol' = [files |-> vol.files, used |-> vol.used, lru |-> Append(q, s)]
    BY <1>2, <2>1 DEF Touched
  <2> HIDE DEF q
  <2>4. /\ Append(q, s) \in Seq(Paths) /\ IsInjective(Append(q, s))
        /\ ToSet(Append(q, s)) = ToSet(vol.lru) \cup {s}
    BY <2>2, AppendedOnce
  <2>5. vol.files[s] # NoFile
    BY DEF ReadFile
  <2>6. vol' \in Volumes
    BY <2>1, <2>3, <2>4 DEF Volumes
  <2>7. Listed(vol')
    BY <1>0, <2>3, <2>4, <2>5 DEF Listed
  <2>8. Covered(vol) <=> Covered(vol')
    BY <2>3 DEF Covered
  <2> QED  BY <2>3, <2>6, <2>7, <2>8, VolumeStep DEF ReadFile, ShardInv, GoodVolume, Paths
<1> QED  BY <1>1, <1>2 DEF ReadFile

\* Another file is written, or torn.
LEMMA WriteFileStep ==
  ASSUME ShardInv, NEW s \in Paths, NEW d \in Data, NEW ok \in BOOLEAN, WriteFile(s, d, ok)
  PROVE  ShardInv'
<1>0. /\ vol \in Volumes /\ Listed(vol) /\ s \notin Shards /\ Shards \subseteq Paths \ {s}
      /\ spoiled' = (spoiled \/ ~ok) /\ UNCHANGED <<state, away, shardData, written>>
  BY ShardAssumption DEF ShardInv, GoodVolume, WriteFile, Paths
<1>1. CASE ok
  <2>1. vol' = FileWritten(vol, s, d)
    BY <1>1 DEF WriteFile
  <2>2. /\ vol' \in Volumes /\ Listed(vol')
        /\ \A p \in Paths \ {s} : vol'.files[p] \in {vol.files[p], NoFile}
        /\ Covered(vol) => Covered(vol')
    BY <1>0, <2>1, WrittenFits
  <2> QED  BY <1>0, <1>1, <2>2, VolumeStep DEF GoodVolume, ShardInv
<1>2. CASE ~ok
  <2>1. vol' = FileTorn(vol, s, d)
    BY <1>2 DEF WriteFile
  <2>2. /\ vol' \in Volumes /\ Listed(vol')
        /\ \A p \in Paths \ {s} : vol'.files[p] \in {vol.files[p], NoFile}
    BY <1>0, <2>1, TornFits
  <2> QED  BY <1>0, <1>2, <2>2, VolumeStep DEF GoodVolume, ShardInv
<1> QED  BY <1>1, <1>2

\* A volume that exists is made once more.
LEMMA CreateVolumeStep ==
  ASSUME ShardInv, CreateVolume
  PROVE  ShardInv'
<1>1. /\ vol.files \in [Paths -> FileSet] /\ vol = [files |-> vol.files, used |-> vol.used, lru |-> vol.lru]
  BY DEF ShardInv, GoodVolume, Volumes
<1>2. vol' = [files |-> vol.files, used |-> 0, lru |-> <<>>]
  <2>1. [vol EXCEPT !.used = 0, !.lru = <<>>] = [[vol EXCEPT !.used = 0] EXCEPT !.lru = <<>>]
    OBVIOUS
  <2>2. [vol EXCEPT !.used = 0] = [files |-> vol.files, used |-> 0, lru |-> vol.lru]
    BY <1>1
  <2>3. [[files |-> vol.files, used |-> 0, lru |-> vol.lru] EXCEPT !.lru = <<>>]
        = [files |-> vol.files, used |-> 0, lru |-> <<>>]
    OBVIOUS
  <2> QED  BY <2>1, <2>2, <2>3 DEF CreateVolume
<1>3. vol' \in Volumes /\ Listed(vol')
  BY <1>1, <1>2, ShardAssumption DEF Volumes, Listed, IsInjective, ToSet
<1>4. ~spoiled' => Covered(vol')
  <2> SUFFICES ASSUME ~spoiled' PROVE Covered(vol')
    OBVIOUS
  <2>1. \A s \in Paths : vol.files[s] = NoFile
    BY DEF CreateVolume
  <2>2. Total(vol.files) = 0
    BY ONLY <1>1, <2>1, TotalOfNone
  <2> QED  BY <1>2, <2>2 DEF Covered
<1>5. spoiled' \in BOOLEAN
  BY DEF CreateVolume, ShardInv
<1> QED  BY <1>2, <1>3, <1>4, <1>5, VolumeStep DEF CreateVolume, GoodVolume

\* A quorum write, whether it reaches its quorum or not.
LEMMA QuorumWriteStep ==
  ASSUME ShardInv, NEW s \in Shards, NEW d \in Data, NEW bad \in SUBSET (1..Replicas),
         NEW sent, QuorumWrite(s, d, bad, sent)
  PROVE  ShardInv'
<1> DEFINE a == QuorumLoop(s, d, bad, sent)
<1>1. LoopState(s, d, bad, a)
  BY LoopEnds DEF ShardInv
<1>2. /\ shardData' = [shardData EXCEPT ![s] = d] /\ vol' = a.vol
      /\ spoiled' = (spoiled \/ bad # {})
      /\ written' = [written EXCEPT ![s] =
             IF a.oks >= Quorum THEN [data |-> d, landed |-> a.landed] ELSE Unwritten]
      /\ UNCHANGED <<state, away>>
  BY DEF QuorumWrite, DataToSync
<1> HIDE DEF a
<1>3. GoodVolume(vol)' /\ spoiled' \in BOOLEAN /\ (~spoiled => Covered(vol))'
  <2>1. GoodVolume(vol') /\ (~spoiled' => Covered(vol'))
    BY <1>1, <1>2 DEF LoopState, ShardInv
  <2> QED  BY <1>2, <2>1 DEF ShardInv
<1>4. /\ shardData' \in [Shards -> Data \cup {NoData}]
      /\ written' \in [Shards -> [data : Data \cup {NoData}, landed : BOOLEAN]]
  BY <1>1, <1>2 DEF ShardInv, LoopState, Unwritten
<1>5. ASSUME NEW u \in Shards, written'[u].landed
      PROVE  shardData'[u] = written'[u].data /\ vol'.files[u].data \in {written'[u].data, NoData}
  <2>1. CASE u = s
    <3>1. a.landed /\ written'[u].data = d /\ shardData'[u] = d
      BY <1>2, <1>5, <2>1 DEF ShardInv, Unwritten
    <3> QED  BY <1>1, <1>2, <2>1, <3>1 DEF LoopState
  <2>2. CASE u # s
    <3>1. written'[u] = written[u] /\ shardData'[u] = shardData[u]
      BY <1>2, <2>2 DEF ShardInv
    <3>2. vol'.files[u] \in {vol.files[u], NoFile}
      BY <1>1, <1>2, <2>2 DEF LoopState, Paths
    <3>3. shardData[u] = written[u].data /\ vol.files[u].data \in {written[u].data, NoData}
      BY <1>5, <3>1 DEF ShardInv
    <3> QED  BY <3>1, <3>2, <3>3, NoFileIsFile
  <2> QED  BY <2>1, <2>2
<1> QED  BY <1>2, <1>3, <1>4, <1>5 DEF ShardInv

\* A replica got the registered data.
LEMMA SyncedStep ==
  ASSUME ShardInv, NEW s \in Shards, NEW r \in 1..Replicas, NEW bad \in SUBSET {r}, NEW sent,
         shardData[s] # NoData, Synced(s, SyncToNode(vol, s, shardData[s], r, bad, sent), bad),
         state' \in [Shards -> [1..Replicas -> {"active", "recovering", "failed"}]]
  PROVE  ShardInv'
<1> DEFINE d == shardData[s]
           o == SyncToNode(vol, s, d, r, bad, sent)
<1>1. d \in Data /\ bad \in SUBSET (1..Replicas) /\ vol \in Volumes /\ Listed(vol)
  BY DEF ShardInv, GoodVolume
<1>2. /\ vol' = o.vol /\ UNCHANGED <<away, shardData>>
      /\ written' = [written EXCEPT ![s] = IF bad = {} THEN @ ELSE Unwritten]
      /\ spoiled' = (spoiled \/ bad # {})
  BY DEF Synced
<1> HIDE DEF d
<1>3. /\ GoodVolume(o.vol)
      /\ \A p \in Paths \ {s} : o.vol.files[p] \in {vol.files[p], NoFile}
      /\ bad = {} => /\ Covered(vol) => Covered(o.vol)
                     /\ o.vol.files[s].data \in {d, vol.files[s].data, NoData}
  BY ONLY <1>1, s \in Shards, r \in 1..Replicas, SyncFits
<1> HIDE DEF o
<1>4. GoodVolume(vol)' /\ spoiled' \in BOOLEAN /\ (~spoiled => Covered(vol))'
  <2>1. GoodVolume(vol') /\ (~spoiled' => Covered(vol'))
    BY <1>2, <1>3 DEF ShardInv
  <2> QED  BY <1>2, <2>1 DEF ShardInv
<1>5. written' \in [Shards -> [data : Data \cup {NoData}, landed : BOOLEAN]]
  BY <1>2 DEF ShardInv, Unwritten
<1>6. ASSUME NEW u \in Shards, written'[u].landed
      PROVE  shardData[u] = written'[u].data /\ vol'.files[u].data \in {written'[u].data, NoData}
  <2>1. written'[u] = written[u] /\ (u = s => bad = {})
    BY <1>2, <1>6 DEF ShardInv, Unwritten
  <2>2. shardData[u] = written[u].data /\ vol.files[u].data \in {written[u].data, NoData}
    BY <1>6, <2>1 DEF ShardInv
  <2>3. CASE u = s
    BY <1>2, <1>3, <2>1, <2>2, <2>3 DEF d
  <2>4. CASE u # s
    <3>1. vol'.files[u] \in {vol.files[u], NoFile}
      BY <1>2, <1>3, <2>4 DEF Paths
    <3> QED  BY <2>1, <2>2, <3>1, NoFileIsFile
  <2> QED  BY <2>3, <2>4
<1> QED  BY <1>2, <1>4, <1>5, <1>6 DEF ShardInv

\* A replica is repaired, or synchronised with the others.
LEMMA RepairStep ==
  ASSUME ShardInv, NEW s \in Shards, NEW r \in 1..Replicas, NEW bad \in SUBSET {r},
         SyncActive(s, r, bad) \/ \E sent \in SUBSET {r} : RepairReplica(s, r, bad, sent)
  PROVE  ShardInv'
<1>1. CASE SyncActive(s, r, bad)
  <2>1. state' \in [Shards -> [1..Replicas -> {"active", "recovering", "failed"}]]
    BY <1>1 DEF SyncActive, ShardInv
  <2> QED  BY <1>1, <2>1, SyncedStep DEF SyncActive
<1>2. ASSUME NEW sent \in SUBSET {r}, RepairReplica(s, r, bad, sent) PROVE ShardInv'
  <2> DEFINE ok == SyncToNode(vol, s, shardData[s], r, bad, sent).ok
  <2>1. /\ shardData[s] # NoData
        /\ Synced(s, SyncToNode(vol, s, shardData[s], r, bad, sent), bad)
        /\ state' = [state EXCEPT ![s][r] = IF ok THEN "active" ELSE "recovering"]
    BY <1>2 DEF RepairReplica
  <2> HIDE DEF ok
  <2>2. \A x \in {"active", "recovering"} :
           [state EXCEPT ![s][r] = x] \in [Shards -> [1..Replicas -> {"active", "recovering", "failed"}]]
    BY DEF ShardInv
  <2>3. state' \in [Shards -> [1..Replicas -> {"active", "recovering", "failed"}]]
    BY <2>1, <2>2
  <2> QED  BY <2>1, <2>3, SyncedStep
<1> QED  BY <1>1, <1>2

\* The invariant of the shards holds.
THEOREM ShardInvariant == ShardSpec => []ShardInv
<1>1. ShardInit => ShardInv
  <2> SUFFICES ASSUME ShardInit PROVE ShardInv
    OBVIOUS
  <2>1. GoodVolume(vol) /\ Covered(vol) /\ spoiled = FALSE
    BY EmptyVolumeIsGood DEF ShardInit
  <2>2. state \in [Shards -> [1..Replicas -> {"active", "recovering", "failed"}]]
    BY DEF ShardInit
  <2>3. /\ shardData \in [Shards -> Data \cup {NoData}]
        /\ written \in [Shards -> [data : Data \cup {NoData}, landed : BOOLEAN]]
        /\ \A s \in Shards : ~written[s].landed
    BY DEF ShardInit, Unwritten
  <2> QED  BY <2>1, <2>2, <2>3 DEF ShardInv
<1>2. ShardInv /\ [ShardNext]_shardVars => ShardInv'
  <2> SUFFICES ASSUME ShardInv, [ShardNext]_shardVars PROVE ShardInv'
    OBVIOUS
  <2>1. CASE CreateVolume
    BY <2>1, CreateVolumeStep
  <2>2. CASE DeleteVolume
    <3>1. vol' = EmptyVolume /\ spoiled' = FALSE /\ UNCHANGED <<state, away, shardData, written>>
      BY <2>2 DEF DeleteVolume
    <3>2. \A s \in Shards : vol'.files[s] \in {vol.files[s], NoFile}
      BY <3>1, EmptyVolumeIsGood DEF Paths
    <3> QED  BY <3>1, <3>2, EmptyVolumeIsGood, VolumeStep
  <2>3. ASSUME NEW s \in Paths, ReadFile(s) PROVE ShardInv'
    BY <2>3, ReadFileStep
  <2>4. ASSUME NEW s \in Paths, DeleteFile(s) PROVE ShardInv'
    <3>1. /\ vol' = FileDeleted(vol, s) /\ spoiled' = spoiled
          /\ UNCHANGED <<state, away, shardData, written>>
      BY <2>4 DEF DeleteFile
    <3>2. Reduced(vol, vol')
      BY <3>1, DeletedReduces DEF ShardInv, GoodVolume
    <3>3. GoodVolume(vol') /\ \A p \in Shards : vol'.files[p] \in {vol.files[p], NoFile}
      BY <3>2 DEF Reduced, GoodVolume, Paths
    <3>4. ~spoiled' => Covered(vol')
      BY <3>1, <3>2 DEF Reduced, ShardInv
    <3> QED  BY <3>1, <3>3, <3>4, VolumeStep DEF ShardInv
  <2>5. ASSUME NEW s \in Paths, NEW d \in Data, NEW ok \in BOOLEAN, WriteFile(s, d, ok)
        PROVE  ShardInv'
    BY <2>5, WriteFileStep
  <2>6. ASSUME NEW s \in Shards, AssignReplicas(s) PROVE ShardInv'
    BY <2>6 DEF ShardInv, AssignReplicas
  <2>7. ASSUME NEW s \in Shards, NEW d \in Data, RegisterShardData(s, d) PROVE ShardInv'
    BY <2>7 DEF ShardInv, RegisterShardData, Unwritten
  <2>8. ASSUME NEW s \in Shards, NEW d \in Data, NEW bad \in SUBSET (1..Replicas),
               NEW sent, QuorumWrite(s, d, bad, sent)
        PROVE  ShardInv'
    BY <2>8, QuorumWriteStep
  <2>9. ASSUME NEW s \in Shards, NEW r \in 1..Replicas, MarkReplicaFailed(s, r) PROVE ShardInv'
    BY <2>9 DEF ShardInv, MarkReplicaFailed
  <2>10. ASSUME NEW s \in Shards, NEW r \in 1..Replicas, NEW bad \in SUBSET {r},
                SyncActive(s, r, bad) \/ \E sent \in SUBSET {r} : RepairReplica(s, r, bad, sent)
         PROVE  ShardInv'
    BY <2>10, RepairStep
  <2>11. CASE UNCHANGED shardVars
    BY <2>11 DEF shardVars, ShardInv
  <2> QED  BY <2>1, <2>2, <2>3, <2>4, <2>5, <2>6, <2>7, <2>8, <2>9, <2>10, <2>11 DEF ShardNext
<1> QED  BY <1>1, <1>2, PTL DEF ShardSpec

\* A good volume keeps its limit and its list.
LEMMA ShardInvImplies == ShardInv => ShardTypeOK /\ DiskWithinLimit /\ QuorumReadIsLatest
<1> SUFFICES ASSUME ShardInv PROVE ShardTypeOK /\ DiskWithinLimit /\ QuorumReadIsLatest
  OBVIOUS
<1>1. vol \in Volumes /\ Listed(vol) /\ vol.files \in [Paths -> FileSet] /\ vol.used \in 0..VolLimit
      /\ IsInjective(vol.lru) /\ VolLimit \in Nat
  BY ShardAssumption DEF ShardInv, GoodVolume, Volumes
<1>2. ShardTypeOK
  BY <1>1 DEF ShardTypeOK, Listed, ShardInv
<1>3. DiskWithinLimit
  <2>1. DiskSize = Total(vol.files)
    BY DEF DiskSize, Total
  <2>2. Total(vol.files) \in Int
    <3>1. PICK t : /\ IsSumTable(t, Paths, [s \in Paths |-> vol.files[s].size])
                   /\ Total(vol.files) = t[Paths]
      BY <1>1, TotalIsSum
    <3> QED  BY <3>1 DEF IsSumTable
  <2> QED  BY <1>1, <2>1, <2>2 DEF DiskWithinLimit, ShardInv, Covered
<1>4. QuorumReadIsLatest
  BY DEF QuorumReadIsLatest, QuorumReads, ShardInv
<1> QED  BY <1>2, <1>3, <1>4

\* The files of a volume stay within its limit, and each entry of its list has
\* a file (write_file, _evict_lru, delete_file), for any volume and any order of
\* writes, evictions, failures and replica repairs.
THEOREM VolumesHold == ShardSpec => [](ShardTypeOK /\ DiskWithinLimit)
  BY ShardInvariant, ShardInvImplies, PTL

\* A quorum read returns what the last quorum write wrote, or nothing, if that
\* write put its data in the volume; one whose quorum was made of other nodes
\* alone (_sync_via_fmp without an event loop) is the exception the property
\* names (quorum_write, quorum_read).
THEOREM QuorumReadsAreLatest == ShardSpec => []QuorumReadIsLatest
  BY ShardInvariant, ShardInvImplies, PTL

-----------------------------------------------------------------------------
(* The KV cache of a node.                                                 *)

Entry == [id : CacheIds, key : Keys, size : Nat, tensor : BOOLEAN, expired : BOOLEAN]
Distinct(c) == \A m, n \in DOMAIN c : m # n => c[m].id # c[n].id
Caches == {c \in Seq(Entry) : Distinct(c)}

\* The running sums of the sizes of a sequence of entries.
IsSums(p, c) ==
    /\ p \in [0..Len(c) -> Int] /\ p[0] = 0
    /\ \A i \in 1..Len(c) : p[i] = p[i - 1] + c[i].size

\* The members of a sequence of entries have sizes.
LEMMA EntriesHaveSizes ==
  ASSUME NEW c \in Seq(Entry), NEW i \in 1..Len(c)
  PROVE  c[i] \in Entry /\ c[i].size \in Nat
<1>1. c[i] \in Entry
  OBVIOUS
<1> QED  BY <1>1 DEF Entry

\* The sizes add up to the last of the running sums, which are unique.
LEMMA SizeIsSum ==
  ASSUME NEW c \in Seq(Entry), NEW p, IsSums(p, c)
  PROVE  SizeOf(c) = p[Len(c)] /\ SizeOf(c) \in Int
<1> DEFINE n == Len(c)
           D == DOMAIN c
           Plus(a, e) == a + e.size
           F == [i \in 1..n |-> [a \in Int |-> Plus(a, c[i])]]
           Filled(it) ==
               it = [q \in SUBSET D |-> IF q = {} THEN 0 ELSE Plus(it[q \ {Max(q)}], c[Max(q)])]
           iter == CHOOSE it : Filled(it)
<1>1. SizeOf(c) = iter[D]
  BY DEF SizeOf, FoldLeft, MapThenFoldSet
<1>2. n \in Nat /\ D = 1..n
  OBVIOUS
<1>3. \A i \in 1..n : c[i].size \in Int
  BY <1>2, EntriesHaveSizes
<1>4. \A i \in 1..n, a \in Int : Plus(a, c[i]) \in Int
  BY <1>3
<1> HIDE DEF n, D
<1>5. F \in [1..n -> [Int -> Int]] /\ 0 \in Int
  BY <1>4
<1>6. \A i \in 1..n, a \in Int : F[i][a] = Plus(a, c[i])
  OBVIOUS
<1> HIDE DEF F
<1>7. PICK t : IsFoldTable(t, n, Int, 0, F)
  BY ONLY <1>2, <1>5, FoldTable
<1>8. Filled(t)
  <2>1. ASSUME NEW q \in SUBSET (1..n), q # {}
        PROVE  t[q] = Plus(t[q \ {Max(q)}], c[Max(q)])
    <3>1. n \in Nat
      BY <1>2
    <3>2. /\ Max(q) \in 1..n /\ t[q \ {Max(q)}] \in Int
          /\ t[q] = F[Max(q)][t[q \ {Max(q)}]]
      BY ONLY ZenonT(30), <3>1, <1>7, <2>1, FoldSteps
    <3> QED  BY <1>6, <3>2
  <2> QED  BY <1>2, <1>7, <2>1 DEF IsFoldTable
<1>9. Filled(iter)
  BY <1>8
<1> HIDE DEF iter
<1>10. /\ iter[{}] = 0
       /\ \A q \in SUBSET (1..n) : q # {} => iter[q] = Plus(iter[q \ {Max(q)}], c[Max(q)])
  BY <1>2, <1>9
<1> DEFINE T == {k \in 0..n : iter[1..k] = p[k]}
<1>11. 0 \in T
  BY <1>2, <1>10 DEF IsSums
<1>12. ASSUME NEW k \in 0..n - 1, k \in T PROVE k + 1 \in T
  <2>1. k + 1 \in 1..n /\ 1..(k + 1) - 1 = 1..k /\ (k + 1) - 1 = k
    BY <1>2
  <2>2. /\ 1..k + 1 \in SUBSET (1..n) /\ 1..k + 1 # {}
        /\ Max(1..k + 1) = k + 1 /\ (1..k + 1) \ {k + 1} = 1..k
    BY <1>2, <2>1, LargestOfFirst
  <2>3. iter[1..k + 1] = Plus(iter[1..k], c[k + 1])
    BY <1>10, <2>2
  <2>4. p[k + 1] = p[k] + c[k + 1].size
    BY <2>1 DEF IsSums, n
  <2> QED  BY <1>2, <1>12, <2>1, <2>3, <2>4
<1> HIDE DEF T
<1>13. n \in T
  <2>1. 0..n \subseteq T
    BY ONLY <1>2, <1>11, <1>12, CountingUp
  <2> QED  BY <1>2, <2>1
<1>14. p[n] \in Int
  BY <1>2 DEF IsSums, n
<1> QED  BY <1>1, <1>2, <1>13, <1>14 DEF T, n

\* There are running sums.
LEMMA SumsExist ==
  ASSUME NEW c \in Seq(Entry)
  PROVE  \E p : IsSums(p, c)
<1> DEFINE Good(k) == \E p \in [0..k -> Int] :
                          p[0] = 0 /\ \A i \in 1..k : p[i] = p[i - 1] + c[i].size
           n == Len(c)
           T == {k \in 0..n : Good(k)}
<1>1. n \in Nat /\ \A i \in 1..n : c[i].size \in Int
  BY EntriesHaveSizes
<1>2. Good(0)
  <2>1. [i \in 0..0 |-> 0] \in [0..0 -> Int] /\ [i \in 0..0 |-> 0][0] = 0 /\ 1..0 = {}
    OBVIOUS
  <2> QED  BY <2>1
<1>3. ASSUME NEW k \in 0..n - 1, Good(k) PROVE Good(k + 1)
  <2>1. PICK p \in [0..k -> Int] : p[0] = 0 /\ \A i \in 1..k : p[i] = p[i - 1] + c[i].size
    BY <1>3
  <2> DEFINE q == [i \in 0..k + 1 |-> IF i <= k THEN p[i] ELSE p[k] + c[k + 1].size]
  <2>2. k \in Nat /\ k + 1 \in 1..n /\ k \in 0..k /\ (k + 1) - 1 = k
    BY <1>1
  <2>3. q \in [0..k + 1 -> Int]
    <3>1. p[k] + c[k + 1].size \in Int
      BY <1>1, <2>2
    <3> QED  BY <2>2, <3>1
  <2>4. q[0] = 0
    BY <2>1, <2>2
  <2>5. ASSUME NEW i \in 1..k + 1 PROVE q[i] = q[i - 1] + c[i].size
    <3>1. CASE i <= k
      BY SMTT(30), <2>1, <2>2, <3>1
    <3>2. CASE i = k + 1
      BY <2>2, <3>2
    <3> QED  BY <2>2, <3>1, <3>2
  <2> HIDE DEF q
  <2> QED  BY <2>3, <2>4, <2>5
<1> HIDE DEF Good
<1>4. 0 \in T /\ \A k \in 0..n - 1 : k \in T => k + 1 \in T
  BY <1>1, <1>2, <1>3
<1> HIDE DEF T
<1>5. 0..n \subseteq T
  BY ONLY <1>1, <1>4, CountingUp
<1>6. Good(n)
  BY <1>1, <1>5 DEF T
<1> QED  BY <1>6 DEF Good, IsSums

\* No entries, no bytes.
LEMMA SizeOfEmpty == SizeOf(<<>>) = 0
<1>1. <<>> \in Seq(Entry) /\ Len(<<>>) = 0
  OBVIOUS
<1>2. IsSums([i \in 0..0 |-> 0], <<>>)
  BY DEF IsSums
<1> QED  BY <1>1, <1>2, SizeIsSum

\* An entry is added.
LEMMA SizeOfAppend ==
  ASSUME NEW c \in Seq(Entry), NEW e \in Entry
  PROVE  SizeOf(Append(c, e)) = SizeOf(c) + e.size
<1> DEFINE n == Len(c)
           d == Append(c, e)
<1>1. PICK p : IsSums(p, c)
  BY SumsExist
<1> DEFINE q == [i \in 0..n + 1 |-> IF i <= n THEN p[i] ELSE p[n] + e.size]
<1>2. /\ n \in Nat /\ d \in Seq(Entry) /\ Len(d) = n + 1
      /\ \A i \in 1..n : d[i] = c[i]
      /\ d[n + 1] = e
  OBVIOUS
<1>3. e.size \in Int /\ p \in [0..n -> Int] /\ p[0] = 0
      /\ \A i \in 1..n : p[i] = p[i - 1] + c[i].size
  BY <1>1, EntriesHaveSizes DEF Entry, IsSums
<1> HIDE DEF n, d
<1>4. IsSums(q, d)
  <2>1. q \in [0..Len(d) -> Int] /\ q[0] = 0
    <3>1. p[n] + e.size \in Int
      BY <1>2, <1>3
    <3> QED  BY <1>2, <1>3, <3>1
  <2>2. ASSUME NEW i \in 1..n + 1 PROVE q[i] = q[i - 1] + d[i].size
    <3>1. CASE i <= n
      <4>1. i \in 1..n /\ i \in 0..n + 1 /\ i - 1 \in 0..n + 1 /\ i - 1 <= n
        BY <1>2, <3>1
      <4>2. q[i] = p[i] /\ q[i - 1] = p[i - 1] /\ d[i] = c[i]
        BY <1>2, <3>1, <4>1
      <4> QED  BY <1>3, <4>1, <4>2
    <3>2. CASE i = n + 1
      BY <1>2, <3>2
    <3> QED  BY <1>2, <3>1, <3>2
  <2> QED  BY <1>2, <2>1, <2>2 DEF IsSums
<1>5. q[n + 1] = p[n] + e.size
  BY <1>2
<1> HIDE DEF q
<1>6. SizeOf(d) = q[n + 1]
  BY <1>2, <1>4, SizeIsSum
<1>7. SizeOf(c) = p[n]
  BY <1>1, SizeIsSum DEF n
<1> QED  BY <1>5, <1>6, <1>7 DEF d

\* An entry is taken out.
LEMMA SizeOfTakenOut ==
  ASSUME NEW c \in Seq(Entry), NEW m \in 1..Len(c)
  PROVE  SizeOf(RemoveAt(c, m)) = SizeOf(c) - c[m].size
<1> DEFINE n == Len(c)
           d == RemoveAt(c, m)
<1>1. PICK p : IsSums(p, c)
  BY SumsExist
<1> DEFINE q == [i \in 0..n - 1 |-> IF i < m THEN p[i] ELSE p[i + 1] - c[m].size]
<1>2. /\ n \in Nat /\ d \in Seq(Entry) /\ Len(d) = n - 1 /\ m \in 1..n
      /\ \A i \in 1..n - 1 : d[i] = IF i < m THEN c[i] ELSE c[i + 1]
  BY TakenOut
<1>3. /\ p \in [0..n -> Int] /\ p[0] = 0
      /\ \A i \in 1..n : p[i] = p[i - 1] + c[i].size /\ c[i].size \in Int
  <2>1. \A i \in 1..n : c[i].size \in Int
    BY EntriesHaveSizes
  <2> QED  BY <1>1, <2>1 DEF IsSums
<1> HIDE DEF n, d
<1>4. IsSums(q, d)
  <2>1. q \in [0..Len(d) -> Int] /\ q[0] = 0
    <3>0. c[m].size \in Int
      BY <1>2, <1>3
    <3>1. ASSUME NEW i \in 0..n - 1 PROVE p[i] \in Int /\ p[i + 1] - c[m].size \in Int
      <4>1. i \in 0..n /\ i + 1 \in 0..n
        BY <1>2
      <4>2. p[i] \in Int /\ p[i + 1] \in Int
        BY <1>3, <4>1
      <4> QED  BY <3>0, <4>2
    <3>2. 0 < m
      BY <1>2
    <3>3. q \in [0..n - 1 -> Int]
      BY <3>1
    <3>4. q[0] = 0
      BY <1>2, <1>3, <3>2
    <3> QED  BY <1>2, <3>3, <3>4
  <2>2. ASSUME NEW i \in 1..n - 1 PROVE q[i] = q[i - 1] + d[i].size
    <3>0. i \in 1..n /\ i - 1 \in 0..n - 1 /\ i \in 0..n - 1 /\ i + 1 \in 1..n /\ (i + 1) - 1 = i
          /\ (i - 1) + 1 = i
      BY <1>2
    <3>1. CASE i < m
      <4>1. i - 1 < m
        BY <1>2, <3>1
      <4>2. q[i] = p[i] /\ q[i - 1] = p[i - 1] /\ d[i] = c[i]
        BY <1>2, <3>0, <3>1, <4>1
      <4> QED  BY <1>3, <3>0, <4>2
    <3>2. CASE i = m
      <4>1. q[i] = p[i + 1] - c[i].size /\ q[i - 1] = p[i - 1] /\ d[i] = c[i + 1]
        BY <1>2, <3>0, <3>2
      <4>2. p[i + 1] = p[i] + c[i + 1].size /\ p[i] = p[i - 1] + c[i].size
        BY <1>3, <3>0
      <4>3. p[i - 1] \in Int /\ c[i].size \in Int /\ c[i + 1].size \in Int
        <5>1. i - 1 \in 0..n
          BY <1>2, <3>0
        <5> QED  BY <1>3, <3>0, <5>1
      <4> QED  BY <4>1, <4>2, <4>3
    <3>3. CASE i > m
      <4>1. q[i] = p[i + 1] - c[m].size /\ q[i - 1] = p[i] - c[m].size /\ d[i] = c[i + 1]
        <5>1. ~(i < m) /\ ~(i - 1 < m)
          BY SMTT(30), <1>2, <3>0, <3>3
        <5>2. q[i] = p[i + 1] - c[m].size /\ d[i] = c[i + 1]
          BY <1>2, <3>0, <5>1
        <5>3. q[i - 1] = p[(i - 1) + 1] - c[m].size
          BY <3>0, <5>1
        <5> QED  BY <3>0, <5>2, <5>3
      <4>2. p[i + 1] = p[i] + c[i + 1].size
        BY <1>3, <3>0
      <4>3. p[i] \in Int /\ c[m].size \in Int /\ c[i + 1].size \in Int
        BY SMTT(30), <1>2, <1>3, <3>0
      <4> QED  BY <4>1, <4>2, <4>3
    <3> QED  BY <1>2, <3>1, <3>2, <3>3
  <2> QED  BY <1>2, <2>1, <2>2 DEF IsSums
<1>5. q[n - 1] = p[n] - c[m].size
  <2>1. CASE m = n
    <3>1. q[n - 1] = p[n - 1] /\ p[n] = p[n - 1] + c[n].size /\ p[n - 1] \in Int /\ c[n].size \in Int
      BY <1>2, <1>3, <2>1
    <3> QED  BY <2>1, <3>1
  <2>2. CASE m # n
    BY <1>2, <2>2
  <2> QED  BY <2>1, <2>2
<1> HIDE DEF q
<1>6. SizeOf(d) = q[n - 1]
  BY <1>2, <1>4, SizeIsSum
<1>7. SizeOf(c) = p[n]
  BY <1>1, SizeIsSum DEF n
<1> QED  BY <1>5, <1>6, <1>7 DEF d

\* An entry is replaced.
LEMMA SizeOfReplaced ==
  ASSUME NEW c \in Seq(Entry), NEW m \in 1..Len(c), NEW e \in Entry
  PROVE  SizeOf([c EXCEPT ![m] = e]) = SizeOf(c) - c[m].size + e.size
<1> DEFINE n == Len(c)
           d == [c EXCEPT ![m] = e]
           by == e.size - c[m].size
<1>1. PICK p : IsSums(p, c)
  BY SumsExist
<1> DEFINE q == [i \in 0..n |-> IF i < m THEN p[i] ELSE p[i] + by]
<1>2. /\ n \in Nat /\ d \in Seq(Entry) /\ Len(d) = n /\ m \in 1..n
      /\ \A i \in 1..n : d[i] = IF i = m THEN e ELSE c[i]
  OBVIOUS
<1>3. /\ p \in [0..n -> Int] /\ p[0] = 0 /\ e.size \in Int
      /\ \A i \in 1..n : p[i] = p[i - 1] + c[i].size /\ c[i].size \in Int
  <2>1. \A i \in 1..n : c[i].size \in Int
    BY EntriesHaveSizes
  <2>2. e.size \in Int
    BY DEF Entry
  <2> QED  BY <1>1, <2>1, <2>2 DEF IsSums
<1>4. by \in Int /\ e.size = c[m].size + by
  BY <1>2, <1>3
<1> HIDE DEF n, d, by
<1>5. IsSums(q, d)
  <2>1. q \in [0..Len(d) -> Int] /\ q[0] = 0
    <3>1. \A i \in 0..n : p[i] \in Int /\ p[i] + by \in Int
      BY SMTT(30), <1>2, <1>3, <1>4
    <3> QED  BY <1>2, <1>3, <3>1
  <2>2. ASSUME NEW i \in 1..n PROVE q[i] = q[i - 1] + d[i].size
    <3>0. i \in 0..n /\ i - 1 \in 0..n
      BY <1>2
    <3>1. p[i] = p[i - 1] + c[i].size /\ p[i - 1] \in Int /\ c[i].size \in Int
      BY <1>3, <3>0
    <3>2. CASE i < m
      <4>1. q[i] = p[i] /\ q[i - 1] = p[i - 1] /\ d[i] = c[i]
        BY <1>2, <3>0, <3>2
      <4> QED  BY <3>1, <4>1
    <3>3. CASE i = m
      <4>1. q[i] = p[i] + by /\ q[i - 1] = p[i - 1] /\ d[i] = e
        BY <1>2, <3>0, <3>3
      <4> QED  BY <1>4, <3>1, <3>3, <4>1
    <3>4. CASE i > m
      <4>1. q[i] = p[i] + by /\ q[i - 1] = p[i - 1] + by /\ d[i] = c[i]
        BY <1>2, <3>0, <3>4
      <4> QED  BY <1>4, <3>1, <4>1
    <3> QED  BY <1>2, <3>2, <3>3, <3>4
  <2> QED  BY <1>2, <2>1, <2>2 DEF IsSums
<1>6. q[n] = p[n] + by /\ p[n] \in Int
  BY <1>2, <1>3
<1> HIDE DEF q
<1>7. SizeOf(d) = q[n]
  BY <1>2, <1>5, SizeIsSum
<1>8. SizeOf(c) = p[n]
  BY <1>1, SizeIsSum DEF n
<1>9. c[m].size \in Int /\ e.size \in Int
  BY <1>2, <1>3
<1>10. SizeOf(d) = SizeOf(c) - c[m].size + e.size
  BY <1>4, <1>6, <1>7, <1>8, <1>9
<1> QED  BY <1>10 DEF d

\* A cache is a sequence of entries of which no two are one entry or have one id.
LEMMA CacheIff ==
  ASSUME NEW c \in Seq(Entry)
  PROVE  c \in Caches <=> /\ IsInjective(c)
                          /\ \A e, f \in ToSet(c) : e.id = f.id => e = f
<1>1. DOMAIN c = 1..Len(c)
  OBVIOUS
<1> QED  BY <1>1 DEF Caches, Distinct, IsInjective, ToSet

\* The ids of a cache are those of its entries.
LEMMA IdsAreOfEntries ==
  ASSUME NEW c \in Caches
  PROVE  /\ IdsOf(c) = {e.id : e \in ToSet(c)} /\ ToSet(c) \subseteq Entry
         /\ c \in Seq(Entry) /\ IsInjective(c)
         /\ \A e, f \in ToSet(c) : e.id = f.id => e = f
         /\ \A n \in 1..Len(c) : c[n] \in ToSet(c)
         /\ \A e \in ToSet(c) : /\ PlaceOf(c, e.id) \in 1..Len(c)
                                /\ c[PlaceOf(c, e.id)] = e
<1>1. c \in Seq(Entry) /\ DOMAIN c = 1..Len(c)
  BY DEF Caches
<1>2. IsInjective(c) /\ \A e, f \in ToSet(c) : e.id = f.id => e = f
  BY <1>1, CacheIff
<1>3. ASSUME NEW e \in ToSet(c)
      PROVE  PlaceOf(c, e.id) \in 1..Len(c) /\ c[PlaceOf(c, e.id)] = e
  <2>1. \E n \in DOMAIN c : c[n].id = e.id
    BY DEF ToSet
  <2> DEFINE n == PlaceOf(c, e.id)
  <2>2. n \in DOMAIN c /\ c[n].id = e.id
    BY <2>1 DEF PlaceOf
  <2> HIDE DEF n
  <2>3. c[n] \in ToSet(c)
    BY <2>2 DEF ToSet
  <2> QED  BY <1>1, <1>2, <2>2, <2>3 DEF n
<1>4. ToSet(c) \subseteq Entry
  BY <1>1 DEF ToSet
<1>5. IdsOf(c) = {e.id : e \in ToSet(c)}
  BY DEF IdsOf, ToSet
<1> QED  BY <1>1, <1>2, <1>3, <1>4, <1>5 DEF ToSet

\* An entry leaves the cache.
LEMMA EntryLeaves ==
  ASSUME NEW c \in Caches, NEW e \in ToSet(c)
  PROVE  LET r == RemoveFirst(c, e)
         IN  /\ r \in Caches /\ ToSet(r) = ToSet(c) \ {e}
             /\ SizeOf(r) = SizeOf(c) - e.size
             /\ r = RemoveAt(c, PlaceOf(c, e.id))
<1> DEFINE n == PlaceOf(c, e.id)
           r == RemoveFirst(c, e)
<1>1. c \in Seq(Entry) /\ IsInjective(c) /\ \A a, b \in ToSet(c) : a.id = b.id => a = b
  BY IdsAreOfEntries
<1>2. n \in 1..Len(c) /\ c[n] = e
  BY IdsAreOfEntries
<1> HIDE DEF n
<1>3. r = RemoveAt(c, n)
  BY ONLY <1>1, <1>2, ElementPlace
<1>4. r \in Seq(Entry) /\ IsInjective(r) /\ ToSet(r) = ToSet(c) \ {e}
  BY ONLY <1>1, ElementRemoved
<1>5. SizeOf(r) = SizeOf(c) - e.size
  BY <1>1, <1>2, <1>3, SizeOfTakenOut
<1> HIDE DEF r
<1>6. r \in Caches
  BY <1>1, <1>4, CacheIff
<1> QED  BY <1>3, <1>4, <1>5, <1>6 DEF r, n

\* An id leaves the cache with its entry.
LEMMA IdLeaves ==
  ASSUME cache \in Caches, NEW e \in ToSet(cache)
  PROVE  WithoutId(e.id) = RemoveFirst(cache, e)
<1> DEFINE n == PlaceOf(cache, e.id)
           I == {i \in 1..Len(cache) : cache[i].id = e.id}
<1>1. /\ n \in 1..Len(cache) /\ cache[n] = e /\ cache \in Seq(Entry)
      /\ \A a, b \in ToSet(cache) : a.id = b.id => a = b
      /\ \A i \in 1..Len(cache) : cache[i] \in ToSet(cache)
      /\ IsInjective(cache)
  BY IdsAreOfEntries
<1>2. I = {n}
  BY <1>1 DEF IsInjective
<1>3. Min({n}) = n
  BY DEF Min
<1>4. WithoutId(e.id) = RemoveAt(cache, n)
  BY <1>1, <1>2, <1>3 DEF WithoutId, RemoveFirstMatch, SelectInSeq
<1>5. RemoveFirst(cache, e) = RemoveAt(cache, n)
  BY EntryLeaves
<1> QED  BY <1>4, <1>5

\* An entry that leaves the cache and comes back, or comes, is its last one.
LEMMA EntryJoins ==
  ASSUME NEW c \in Caches, NEW e \in Entry, \A f \in ToSet(c) : f.id # e.id
  PROVE  /\ Append(c, e) \in Caches /\ ToSet(Append(c, e)) = ToSet(c) \cup {e}
         /\ SizeOf(Append(c, e)) = SizeOf(c) + e.size
<1>1. c \in Seq(Entry) /\ IsInjective(c) /\ \A a, b \in ToSet(c) : a.id = b.id => a = b
  BY IdsAreOfEntries
<1>2. e \notin ToSet(c)
  OBVIOUS
<1>3. /\ Append(c, e) \in Seq(Entry) /\ IsInjective(Append(c, e))
      /\ ToSet(Append(c, e)) = ToSet(c) \cup {e}
  BY ONLY <1>1, <1>2, e \in Entry, AppendedOnce
<1>4. Append(c, e) \in Caches
  <2>1. \A a, b \in ToSet(Append(c, e)) : a.id = b.id => a = b
    BY <1>1, <1>3
  <2> QED  BY <1>3, <2>1, CacheIff
<1> QED  BY <1>1, <1>3, <1>4, SizeOfAppend

\* An entry is replaced by one with its id.
LEMMA EntryReplaced ==
  ASSUME NEW c \in Caches, NEW e \in ToSet(c), NEW f \in Entry, f.id = e.id
  PROVE  LET d == [c EXCEPT ![PlaceOf(c, e.id)] = f]
         IN  /\ d \in Caches /\ ToSet(d) = (ToSet(c) \ {e}) \cup {f}
             /\ SizeOf(d) = SizeOf(c) - e.size + f.size
<1> DEFINE n == PlaceOf(c, e.id)
           d == [c EXCEPT ![n] = f]
<1>1. /\ c \in Seq(Entry) /\ IsInjective(c) /\ \A a, b \in ToSet(c) : a.id = b.id => a = b
      /\ n \in 1..Len(c) /\ c[n] = e /\ \A i \in 1..Len(c) : c[i] \in ToSet(c)
  BY IdsAreOfEntries
<1> HIDE DEF n
<1>2. /\ d \in Seq(Entry) /\ Len(d) = Len(c) /\ DOMAIN d = 1..Len(c) /\ DOMAIN c = 1..Len(c)
      /\ \A i \in 1..Len(c) : d[i] = IF i = n THEN f ELSE c[i]
  BY <1>1
<1>3. SizeOf(d) = SizeOf(c) - e.size + f.size
  BY <1>1, SizeOfReplaced
<1> HIDE DEF d
<1>4. \A i \in 1..Len(c) : c[i] = e => i = n
  BY <1>1, <1>2 DEF IsInjective
<1>5. ToSet(d) = (ToSet(c) \ {e}) \cup {f}
  <2>1. ASSUME NEW i \in 1..Len(c) PROVE d[i] \in (ToSet(c) \ {e}) \cup {f}
    BY <1>1, <1>2, <1>4
  <2>2. ASSUME NEW x \in ToSet(c) \ {e} PROVE x \in ToSet(d)
    <3>1. PICK i \in 1..Len(c) : x = c[i]
      BY <1>2 DEF ToSet
    <3>2. i # n /\ d[i] = x
      BY <1>1, <1>2, <2>2, <3>1
    <3> QED  BY <1>2, <3>2 DEF ToSet
  <2>3. f \in ToSet(d)
    BY <1>1, <1>2 DEF ToSet
  <2>4. ToSet(d) \subseteq (ToSet(c) \ {e}) \cup {f}
    BY <1>2, <2>1 DEF ToSet
  <2> QED  BY <2>2, <2>3, <2>4
<1>6. d \in Caches
  <2>1. DOMAIN d = 1..Len(c) /\ \A i, j \in 1..Len(c) : i # j => c[i].id # c[j].id
    BY <1>1, <1>2 DEF IsInjective
  <2>2. \A i, j \in 1..Len(c) : i # j => d[i].id # d[j].id
    BY <1>1, <1>2, <2>1
  <2> QED  BY <1>2, <2>2 DEF Caches, Distinct
<1> QED  BY <1>3, <1>5, <1>6 DEF d, n

\* What the cache, the index and the counter may be.
Mems == [cache : Caches, index : [Keys -> CacheIds \cup {KvNone}], bytes : Int, clean : BOOLEAN]

\* What an eviction does to m: entries leave, and the counter loses what they have.
Shrunk(m, w) ==
    /\ w \in Mems /\ ToSet(w.cache) \subseteq ToSet(m.cache) /\ w.clean = m.clean
    /\ w.bytes - SizeOf(w.cache) = m.bytes - SizeOf(m.cache)

\* The sizes of a cache add up.
LEMMA SizeIsInt == ASSUME NEW c \in Caches PROVE SizeOf(c) \in Int
  BY SumsExist, SizeIsSum DEF Caches

\* The oldest entry leaves the cache and the counter (_evict).
LEMMA PopStep ==
  ASSUME NEW m \in Mems, NEW w, Shrunk(m, w), w.cache # <<>>
  PROVE  /\ Shrunk(m, PopOldest(w)) /\ Len(w.cache) \in Nat
         /\ Len(PopOldest(w).cache) = Len(w.cache) - 1
<1> DEFINE c == w.cache
           r == PopOldest(w)
<1>1. /\ w \in Mems /\ c \in Caches /\ w.bytes \in Int /\ w.clean \in BOOLEAN
      /\ w.index \in [Keys -> CacheIds \cup {KvNone}]
      /\ m.bytes \in Int /\ m.cache \in Caches
  BY DEF Shrunk, Mems
<1>2. c \in Seq(Entry) /\ IsInjective(c) /\ c # <<>>
  BY <1>1, IdsAreOfEntries
<1> HIDE DEF c
<1>3. 1 \in 1..Len(c) /\ Tail(c) = RemoveAt(c, 1) /\ Head(c) = c[1]
  BY ONLY <1>2, TailIsTakenOut
<1>4. Tail(c) = RemoveFirst(c, Head(c))
  <2>1. RemoveFirst(c, c[1]) = RemoveAt(c, 1)
    BY ONLY <1>2, <1>3, ElementPlace
  <2> QED  BY <1>3, <2>1
<1>5. Head(c) \in ToSet(c) /\ Head(c) \in Entry /\ Head(c).size \in Nat /\ Head(c).key \in Keys
  <2>1. c[1] \in ToSet(c) /\ c[1] \in Entry
    BY <1>1, <1>3, IdsAreOfEntries
  <2> QED  BY <1>3, <2>1 DEF Entry
<1>6. /\ Tail(c) \in Caches /\ ToSet(Tail(c)) \subseteq ToSet(c)
      /\ SizeOf(Tail(c)) = SizeOf(c) - Head(c).size
  <2>1. LET q == RemoveFirst(c, Head(c))
        IN  /\ q \in Caches /\ ToSet(q) = ToSet(c) \ {Head(c)}
            /\ SizeOf(q) = SizeOf(c) - Head(c).size
    BY ONLY <1>1, <1>5, EntryLeaves
  <2> QED  BY <1>4, <2>1
<1>7. /\ r.cache = Tail(c) /\ r.bytes = w.bytes - Head(c).size /\ r.clean = w.clean
      /\ r.index = [w.index EXCEPT ![Head(c).key] = KvNone]
      /\ r = [cache |-> r.cache, index |-> r.index, bytes |-> r.bytes, clean |-> r.clean]
  BY DEF PopOldest, c
<1> HIDE DEF r
<1>8. r.index \in [Keys -> CacheIds \cup {KvNone}] /\ r.bytes \in Int
  BY <1>1, <1>5, <1>7
<1>9. r \in Mems
  <2>1. [cache |-> r.cache, index |-> r.index, bytes |-> r.bytes, clean |-> r.clean] \in Mems
    BY <1>1, <1>6, <1>7, <1>8 DEF Mems
  <2> QED  BY <1>7, <2>1
<1>10. r.bytes - SizeOf(r.cache) = m.bytes - SizeOf(m.cache)
  <2>1. w.bytes - SizeOf(c) = m.bytes - SizeOf(m.cache)
    BY DEF Shrunk, c
  <2>2. SizeOf(c) \in Int /\ SizeOf(m.cache) \in Int
    BY <1>1, SizeIsInt
  <2> QED  BY <1>1, <1>5, <1>6, <1>7, <2>1, <2>2
<1>11. ToSet(r.cache) \subseteq ToSet(m.cache) /\ r.clean = m.clean
  BY <1>6, <1>7 DEF Shrunk, c
<1>12. Len(c) \in Nat /\ Len(r.cache) = Len(c) - 1
  BY <1>2, <1>7
<1> QED  BY <1>9, <1>10, <1>11, <1>12 DEF Shrunk, r, c

\* An eviction, however many entries leave.
LEMMA EvictHolds ==
  ASSUME NEW m \in Mems, NEW need \in Nat
  PROVE  Shrunk(m, Evict(m, need))
<1> DEFINE n == Len(m.cache)
           X == {w \in Mems : Shrunk(m, w)}
           Pop(w) == IF w.cache = <<>> THEN w ELSE PopOldest(w)
           F == [i \in 1..n |-> [w \in X |-> Pop(w)]]
           Filled(f) == f = [k \in 0..n |-> IF k = 0 THEN m ELSE PopOldest(f[k - 1])]
           After == CHOOSE f : Filled(f)
           Stops == {k \in 0..n : k = n \/ Room(After[k].bytes, need)}
<1>1. m.cache \in Seq(Entry) /\ n \in Nat /\ (n = 0 => m.cache = <<>>)
  BY DEF Mems, Caches
<1>2. Evict(m, need) = After[Min(Stops)]
  BY DEF Evict
<1>3. m \in X
  BY DEF Shrunk
<1>4. \A w \in X : Pop(w) \in X
  BY PopStep DEF Shrunk
<1> HIDE DEF n, X
<1>5. F \in [1..n -> [X -> X]]
  BY <1>4
<1>6. \A i \in 1..n, w \in X : F[i][w] = Pop(w)
  OBVIOUS
<1> HIDE DEF F, Pop
<1>7. PICK t : t \in [0..n -> X] /\ t[0] = m /\ \A k \in 1..n : t[k] = F[k][t[k - 1]]
  <2>1. n \in Nat
    BY <1>1
  <2>2. \E t : IsStepTable(t, n, X, m, F)
    BY ONLY <2>1, <1>3, <1>5, StepTable
  <2> QED  BY <2>2 DEF IsStepTable
<1>8. \A k \in 1..n : t[k] = Pop(t[k - 1])
  <2> SUFFICES ASSUME NEW k \in 1..n PROVE t[k] = Pop(t[k - 1])
    OBVIOUS
  <2>1. k - 1 \in 0..n
    BY <1>1
  <2> QED  BY <1>6, <1>7, <2>1
<1> DEFINE T == {k \in 0..n : Len(t[k].cache) = n - k}
<1>9. 0 \in T
  BY <1>1, <1>7 DEF n
<1>10. ASSUME NEW k \in 0..n - 1, k \in T PROVE k + 1 \in T /\ t[k + 1] = PopOldest(t[k])
  <2>1. k + 1 \in 1..n /\ (k + 1) - 1 = k /\ k \in 0..n /\ k + 1 \in 0..n
    BY <1>1
  <2>2. t[k] \in X /\ Len(t[k].cache) = n - k /\ n - k > 0
    BY <1>1, <1>7, <1>10, <2>1
  <2>3. t[k].cache # <<>> /\ Shrunk(m, t[k])
    BY <2>2 DEF X
  <2>4. t[k + 1] = PopOldest(t[k])
    BY <1>8, <2>1, <2>3 DEF Pop
  <2>5. Len(t[k + 1].cache) = Len(t[k].cache) - 1
    BY <2>3, <2>4, PopStep
  <2> QED  BY <1>1, <2>1, <2>2, <2>4, <2>5
<1> HIDE DEF T
<1>11. 0..n \subseteq T
  BY ONLY <1>1, <1>9, <1>10, CountingUp
<1>12. \A k \in 1..n : t[k] = PopOldest(t[k - 1])
  <2> SUFFICES ASSUME NEW k \in 1..n PROVE t[k] = PopOldest(t[k - 1])
    OBVIOUS
  <2>1. k - 1 \in 0..n - 1 /\ k - 1 \in 0..n /\ (k - 1) + 1 = k
    BY <1>1
  <2> QED  BY <1>10, <1>11, <2>1
<1>13. Filled(t)
  <2>1. \A k \in 0..n : t[k] = IF k = 0 THEN m ELSE PopOldest(t[k - 1])
    BY <1>1, <1>7, <1>12
  <2> QED  BY <1>7, <2>1
<1>14. Filled(After)
  BY <1>13
<1> HIDE DEF After
<1>15. After[0] = m /\ \A k \in 1..n : After[k] = PopOldest(After[k - 1])
  <2>1. 0 \in 0..n /\ 1..n \subseteq 0..n /\ \A k \in 1..n : k # 0
    BY <1>1
  <2> QED  BY <1>14, <2>1
<1> DEFINE U == {k \in 0..n : After[k] = t[k]}
<1>16. 0 \in U
  BY <1>1, <1>7, <1>15
<1>17. ASSUME NEW k \in 0..n - 1, k \in U PROVE k + 1 \in U
  <2>1. k + 1 \in 1..n /\ (k + 1) - 1 = k /\ k + 1 \in 0..n
    BY <1>1
  <2> QED  BY <1>12, <1>15, <1>17, <2>1
<1> HIDE DEF U
<1>18. 0..n \subseteq U
  BY ONLY <1>1, <1>16, <1>17, CountingUp
<1>19. Min(Stops) \in 0..n
  <2>1. Stops \in SUBSET Nat /\ n \in Stops /\ Stops \subseteq 0..n
    BY <1>1
  <2> HIDE DEF Stops
  <2>2. \E k \in Stops : \A j \in Stops : k <= j
    BY ONLY <2>1, LeastNumber
  <2>3. Min(Stops) \in Stops
    BY <2>2 DEF Min
  <2> QED  BY <2>1, <2>3
<1> HIDE DEF Stops
<1>20. After[Min(Stops)] \in X
  BY <1>7, <1>18, <1>19 DEF U
<1> QED  BY <1>2, <1>20 DEF X

\* What storing e does to m: e is there, other entries may be gone, and the counter
\* is right as long as m says that nothing has happened that it does not survive.
Stored(m, e, r) ==
    /\ r \in Mems
    /\ IF e.size > MaxBytes THEN r = m
       ELSE e \in ToSet(r.cache) /\ ToSet(r.cache) \subseteq ToSet(m.cache) \cup {e}
    /\ r.clean => m.clean
    /\ r.clean /\ m.bytes = SizeOf(m.cache) => r.bytes = SizeOf(r.cache)

\* An entry is stored (store_local).
LEMMA StoreHolds ==
  ASSUME NEW m \in Mems, NEW e \in Entry
  PROVE  Stored(m, e, StoreLocal(m, e))
<1> DEFINE r == StoreLocal(m, e)
           old == e.id \in IdsOf(m.cache)
           back == IF old THEN m.cache[PlaceOf(m.cache, e.id)].size ELSE 0
           m0 == [m EXCEPT !.bytes = @ - back]
           room == Evict(m0, e.size)
           kept == e.id \in IdsOf(room.cache)
           nc == IF kept THEN [room.cache EXCEPT ![PlaceOf(room.cache, e.id)] = e]
                 ELSE Append(room.cache, e)
<1>1. CASE e.size > MaxBytes
  BY <1>1 DEF StoreLocal, Stored
<1>2. CASE ~(e.size > MaxBytes)
  <2>1. r = [cache |-> nc, bytes |-> room.bytes + e.size,
             index |-> [room.index EXCEPT ![e.key] = e.id], clean |-> m.clean /\ kept = old]
    BY <1>2 DEF StoreLocal
  <2>2. /\ m.cache \in Caches /\ m.bytes \in Int /\ m.clean \in BOOLEAN
        /\ m = [cache |-> m.cache, index |-> m.index, bytes |-> m.bytes, clean |-> m.clean]
        /\ m.index \in [Keys -> CacheIds \cup {KvNone}]
    BY DEF Mems
  <2>3. back \in Nat
    <3>1. CASE ~old
      BY <3>1
    <3>2. CASE old
      <4>1. PICK f \in ToSet(m.cache) : f.id = e.id
        BY SMTT(30), <2>2, <3>2, IdsAreOfEntries
      <4>2. m.cache[PlaceOf(m.cache, e.id)] = f /\ f \in Entry
        BY <2>2, <4>1, IdsAreOfEntries
      <4> QED  BY <3>2, <4>2 DEF Entry
    <3> QED  BY <3>1, <3>2
  <2>4. /\ m0 = [cache |-> m.cache, index |-> m.index, bytes |-> m.bytes - back, clean |-> m.clean]
        /\ m0 \in Mems
    <3> HIDE DEF back
    <3>1. m0 = [cache |-> m.cache, index |-> m.index, bytes |-> m.bytes - back, clean |-> m.clean]
      BY <2>2
    <3>2. m.bytes - back \in Int
      BY <2>2, <2>3
    <3> QED  BY <2>2, <3>1, <3>2 DEF Mems
  <2>5. e.size \in Nat /\ e.id \in CacheIds /\ e.key \in Keys
    BY DEF Entry
  <2>6. Shrunk(m0, room)
    BY <2>4, <2>5, EvictHolds
  <2> HIDE DEF m0, room
  <2>7. /\ room.cache \in Caches /\ room.bytes \in Int /\ ToSet(room.cache) \subseteq ToSet(m.cache)
        /\ room.index \in [Keys -> CacheIds \cup {KvNone}]
        /\ room.bytes - SizeOf(room.cache) = (m.bytes - back) - SizeOf(m.cache)
    BY <2>4, <2>6 DEF Shrunk, Mems
  <2>8. SizeOf(room.cache) \in Int /\ SizeOf(m.cache) \in Int
    BY <2>2, <2>7, SizeIsInt
  <2> HIDE DEF back
  <2>9. /\ nc \in Caches /\ e \in ToSet(nc) /\ ToSet(nc) \subseteq ToSet(m.cache) \cup {e}
        /\ kept = old => SizeOf(nc) = SizeOf(room.cache) - back + e.size
    <3>1. CASE kept
      <4>1. PICK f \in ToSet(room.cache) : f.id = e.id
        BY <2>7, <3>1, IdsAreOfEntries
      <4>2. LET d == [room.cache EXCEPT ![PlaceOf(room.cache, f.id)] = e]
            IN  /\ d \in Caches /\ ToSet(d) = (ToSet(room.cache) \ {f}) \cup {e}
                /\ SizeOf(d) = SizeOf(room.cache) - f.size + e.size
        BY ONLY <2>7, <4>1, e \in Entry, EntryReplaced
      <4>3. nc = [room.cache EXCEPT ![PlaceOf(room.cache, f.id)] = e]
        BY <3>1, <4>1
      <4>4. old => back = f.size
        <5>1. m.cache[PlaceOf(m.cache, f.id)] = f
          BY <2>2, <2>7, <4>1, IdsAreOfEntries
        <5> QED  BY <4>1, <5>1 DEF back
      <4> HIDE DEF nc
      <4> QED  BY <2>7, <3>1, <4>2, <4>3, <4>4
    <3>2. CASE ~kept
      <4>1. \A f \in ToSet(room.cache) : f.id # e.id
        BY <2>7, <3>2, IdsAreOfEntries
      <4>2. /\ Append(room.cache, e) \in Caches
            /\ ToSet(Append(room.cache, e)) = ToSet(room.cache) \cup {e}
            /\ SizeOf(Append(room.cache, e)) = SizeOf(room.cache) + e.size
        BY ONLY <2>7, <4>1, e \in Entry, EntryJoins
      <4>3. nc = Append(room.cache, e)
        BY <3>2
      <4>4. ~old => back = 0
        BY DEF back
      <4> HIDE DEF nc
      <4> QED  BY <2>5, <2>7, <2>8, <3>2, <4>2, <4>3, <4>4
    <3> QED  BY <3>1, <3>2
  <2> HIDE DEF nc, kept, old
  <2>10. /\ r.cache = nc /\ r.bytes = room.bytes + e.size
         /\ r.clean = (m.clean /\ kept = old)
    BY <2>1
  <2>11. r \in Mems
    <3>1. [room.index EXCEPT ![e.key] = e.id] \in [Keys -> CacheIds \cup {KvNone}]
      BY <2>5, <2>7
    <3>2. room.bytes + e.size \in Int /\ (m.clean /\ kept = old) \in BOOLEAN
      BY <2>2, <2>5, <2>7
    <3> HIDE DEF r
    <3> QED  BY <2>1, <2>9, <3>1, <3>2 DEF Mems
  <2>12. r.clean => m.clean /\ kept = old
    BY <2>2, <2>10
  <2>13. ASSUME kept = old, m.bytes = SizeOf(m.cache)
         PROVE  room.bytes + e.size = SizeOf(nc)
    BY <2>2, <2>3, <2>5, <2>7, <2>8, <2>9, <2>13
  <2> HIDE DEF r
  <2> QED  BY <1>2, <2>9, <2>10, <2>11, <2>12, <2>13 DEF Stored, r
<1> QED  BY <1>1, <1>2

\* A counter that is right unless something has happened that it does not survive.
GoodMem(m) == m \in Mems /\ (m.clean => m.bytes = SizeOf(m.cache))

\* Some entries of a file, in their order.
LEMMA ThoseAreEntries ==
  ASSUME NEW c \in Seq(Entry), NEW keep
  PROVE  Those(c, keep) \in Seq(Entry)
<1> DEFINE n == Len(c)
           D == DOMAIN c
           X == Seq(Entry)
           Add(s, e) == IF e \in keep THEN Append(s, e) ELSE s
           F == [i \in 1..n |-> [s \in X |-> Add(s, c[i])]]
           Filled(it) ==
               it = [q \in SUBSET D |-> IF q = {} THEN <<>> ELSE Add(it[q \ {Max(q)}], c[Max(q)])]
           iter == CHOOSE it : Filled(it)
<1>1. Those(c, keep) = iter[D]
  BY DEF Those, FoldLeft, MapThenFoldSet
<1>2. n \in Nat /\ D = 1..n
  OBVIOUS
<1>3. <<>> \in X
  OBVIOUS
<1>4. \A i \in 1..n, s \in X : Add(s, c[i]) \in X
  OBVIOUS
<1> HIDE DEF n, D, X, Add
<1>5. F \in [1..n -> [X -> X]]
  BY <1>4
<1>6. \A i \in 1..n, s \in X : F[i][s] = Add(s, c[i])
  OBVIOUS
<1> HIDE DEF F
<1>7. PICK t : IsFoldTable(t, n, X, <<>>, F)
  BY ONLY <1>2, <1>3, <1>5, FoldTable
<1>8. Filled(t)
  <2>1. ASSUME NEW q \in SUBSET (1..n), q # {}
        PROVE  t[q] = Add(t[q \ {Max(q)}], c[Max(q)])
    <3>1. n \in Nat
      BY <1>2
    <3>2. /\ Max(q) \in 1..n /\ t[q \ {Max(q)}] \in X
          /\ t[q] = F[Max(q)][t[q \ {Max(q)}]]
      BY ONLY ZenonT(30), <3>1, <1>7, <2>1, FoldSteps
    <3> QED  BY <1>6, <3>2
  <2> QED  BY <1>2, <1>7, <2>1 DEF IsFoldTable
<1>9. Filled(iter)
  BY <1>8
<1> HIDE DEF iter
<1>10. /\ iter[{}] \in X
       /\ \A q \in SUBSET (1..n) : q # {} /\ iter[q \ {Max(q)}] \in X =>
                                     iter[q] = F[Max(q)][iter[q \ {Max(q)}]]
  <2> SUFFICES ASSUME NEW q \in SUBSET (1..n), q # {}, iter[q \ {Max(q)}] \in X
               PROVE  iter[q] = F[Max(q)][iter[q \ {Max(q)}]]
    BY <1>2, <1>3, <1>9
  <2>0. n \in Nat
    BY <1>2
  <2>1. Max(q) \in 1..n
    BY ONLY <2>0, <1>7, q \in SUBSET (1..n), q # {}, FoldSteps
  <2>2. iter[q] = Add(iter[q \ {Max(q)}], c[Max(q)])
    BY <1>2, <1>9
  <2> QED  BY <1>6, <2>1, <2>2
<1>11. iter[1..n] \in X
  <2>1. n \in Nat
    BY <1>2
  <2> QED  BY ONLY <2>1, <1>5, <1>10, FoldStays
<1> QED  BY <1>1, <1>2, <1>11 DEF X

\* The entries of a file are stored one after the other (load).
LEMMA LoadHolds ==
  ASSUME NEW f \in Seq(Entry)
  PROVE  GoodMem(FoldLeft(StoreLocal, Nothing, f))
<1> DEFINE n == Len(f)
           D == DOMAIN f
           X == {m \in Mems : GoodMem(m)}
           F == [i \in 1..n |-> [m \in X |-> StoreLocal(m, f[i])]]
           Filled(it) ==
               it = [q \in SUBSET D |->
                        IF q = {} THEN Nothing ELSE StoreLocal(it[q \ {Max(q)}], f[Max(q)])]
           iter == CHOOSE it : Filled(it)
<1>1. FoldLeft(StoreLocal, Nothing, f) = iter[D]
  BY DEF FoldLeft, MapThenFoldSet
<1>2. n \in Nat /\ D = 1..n /\ \A i \in 1..n : f[i] \in Entry
  OBVIOUS
<1>3. Nothing \in X
  <2>1. <<>> \in Caches
    BY DEF Caches, Distinct
  <2>2. Nothing \in Mems
    BY <2>1 DEF Nothing, Mems
  <2> QED  BY <2>2, SizeOfEmpty DEF Nothing, GoodMem
<1>4. ASSUME NEW i \in 1..n, NEW m \in X PROVE StoreLocal(m, f[i]) \in X
  <2>1. Stored(m, f[i], StoreLocal(m, f[i]))
    BY <1>2, StoreHolds
  <2> QED  BY <2>1 DEF Stored, GoodMem
<1> HIDE DEF n, D, X
<1>5. F \in [1..n -> [X -> X]]
  BY <1>4
<1>6. \A i \in 1..n, m \in X : F[i][m] = StoreLocal(m, f[i])
  OBVIOUS
<1> HIDE DEF F
<1>7. PICK t : IsFoldTable(t, n, X, Nothing, F)
  <2>1. n \in Nat
    BY <1>2
  <2> QED  BY ONLY <2>1, <1>3, <1>5, FoldTable
<1>8. Filled(t)
  <2>1. ASSUME NEW q \in SUBSET (1..n), q # {}
        PROVE  t[q] = StoreLocal(t[q \ {Max(q)}], f[Max(q)])
    <3>1. n \in Nat
      BY <1>2
    <3>2. /\ Max(q) \in 1..n /\ t[q \ {Max(q)}] \in X
          /\ t[q] = F[Max(q)][t[q \ {Max(q)}]]
      BY ONLY SMTT(30), <3>1, <1>7, <2>1, FoldSteps
    <3> QED  BY <1>6, <3>2
  <2> QED  BY <1>2, <1>7, <2>1 DEF IsFoldTable
<1>9. Filled(iter)
  BY <1>8
<1> HIDE DEF iter
<1>10. /\ iter[{}] \in X
       /\ \A q \in SUBSET (1..n) : q # {} /\ iter[q \ {Max(q)}] \in X =>
                                     iter[q] = F[Max(q)][iter[q \ {Max(q)}]]
  <2> SUFFICES ASSUME NEW q \in SUBSET (1..n), q # {}, iter[q \ {Max(q)}] \in X
               PROVE  iter[q] = F[Max(q)][iter[q \ {Max(q)}]]
    BY <1>2, <1>3, <1>9
  <2>0. n \in Nat
    BY <1>2
  <2>1. Max(q) \in 1..n
    BY ONLY <2>0, <1>7, q \in SUBSET (1..n), q # {}, FoldSteps
  <2>2. iter[q] = StoreLocal(iter[q \ {Max(q)}], f[Max(q)])
    BY <1>2, <1>9
  <2> QED  BY <1>6, <2>1, <2>2
<1>11. iter[1..n] \in X
  <2>1. n \in Nat
    BY <1>2
  <2> QED  BY ONLY <2>1, <1>5, <1>10, FoldStays
<1> QED  BY <1>1, <1>2, <1>11 DEF X

\* What a running export may hold: while nothing has happened that the counter does not
\* survive, an entry that is cached if its id is, with the size it had, and
\* no other export's.
Held == [id : CacheIds \cup {KvNone}, old : Nat, live : BOOLEAN]
ExportsOK ==
    /\ \A x \in Exports : export[x] # NoExport =>
          export[x].id \in CacheIds /\ (export[x].id \in IdsOf(cache) => export[x].live)
    /\ \A x \in Exports, e \in ToSet(cache) :
          export[x].live /\ e.id = export[x].id => e.size = export[x].old
    /\ \A x, y \in Exports : x # y /\ export[x].id = export[y].id => export[x].id = KvNone

KvTyped ==
    /\ cache \in Caches /\ index \in [Keys -> CacheIds \cup {KvNone}]
    /\ bytes \in Int /\ clean \in BOOLEAN /\ kvFile \in Seq(Entry)
    /\ export \in [Exports -> Held]
    /\ \A x \in Exports : export[x].live => export[x].id \in IdsOf(cache)

KvInv == KvTyped /\ (clean => bytes = SizeOf(cache) /\ ExportsOK)
\* An export that loses its entry keeps the rest of what it holds.
LEMMA ExportingHolds ==
  ASSUME export \in [Exports -> Held], NEW gone
  PROVE  /\ Exporting(gone) \in [Exports -> Held]
         /\ \A x \in Exports :
               /\ Exporting(gone)[x].id = export[x].id /\ Exporting(gone)[x].old = export[x].old
               /\ Exporting(gone)[x].live = (export[x].live /\ export[x].id \notin gone)
               /\ export[x] = NoExport => Exporting(gone)[x] = NoExport
<1> DEFINE X == Exporting(gone)
<1>1. ASSUME NEW x \in Exports
      PROVE  /\ X[x] \in Held /\ X[x].id = export[x].id /\ X[x].old = export[x].old
             /\ X[x].live = (export[x].live /\ export[x].id \notin gone)
             /\ export[x] = NoExport => X[x] = NoExport
  <2>1. export[x] \in Held
    OBVIOUS
  <2>2. export[x] = [id |-> export[x].id, old |-> export[x].old, live |-> export[x].live]
    BY <2>1 DEF Held
  <2>3. X[x] = [id |-> export[x].id, old |-> export[x].old,
                live |-> export[x].live /\ export[x].id \notin gone]
    BY <2>2 DEF Exporting
  <2>4. export[x].id \in CacheIds \cup {KvNone} /\ export[x].old \in Nat /\ export[x].live \in BOOLEAN
    BY <2>1 DEF Held
  <2>5. export[x] = NoExport => export[x].live = FALSE
    BY DEF NoExport
  <2> HIDE DEF X
  <2>6. X[x] \in Held
    BY <2>3, <2>4 DEF Held
  <2>7. export[x] = NoExport => X[x] = NoExport
    <3>1. SUFFICES ASSUME export[x] = NoExport PROVE X[x] = NoExport
      OBVIOUS
    <3>2. export[x].id = KvNone /\ export[x].old = 0 /\ export[x].live = FALSE
      BY <3>1 DEF NoExport
    <3>3. X[x] = [id |-> KvNone, old |-> 0, live |-> FALSE]
      BY <2>3, <3>2
    <3> QED  BY <3>3 DEF NoExport
  <2> QED  BY <2>3, <2>6, <2>7
<1>2. X = [x \in Exports |-> X[x]]
  BY DEF Exporting
<1> HIDE DEF X
<1>3. X \in [Exports -> Held]
  BY <1>1, <1>2
<1> QED  BY <1>1, <1>3 DEF X

\* The cache changes: entries that no export holds come, others leave, and the exports
\* that held those know.
LEMMA CacheChanges ==
  ASSUME KvTyped, ExportsOK, NEW gone, cache' \in Caches, export' = Exporting(gone),
         \A e \in ToSet(cache') : e \in ToSet(cache) \/ \A x \in Exports : export[x].id # e.id,
         \A x \in Exports : export[x].live =>
            (export[x].id \in gone <=> export[x].id \notin IdsOf(cache'))
  PROVE  /\ export' \in [Exports -> Held] /\ ExportsOK'
         /\ \A x \in Exports : export'[x].live => export'[x].id \in IdsOf(cache')
<1>1. /\ export' \in [Exports -> Held]
      /\ \A x \in Exports :
            /\ export'[x].id = export[x].id /\ export'[x].old = export[x].old
            /\ export'[x].live = (export[x].live /\ export[x].id \notin gone)
            /\ export[x] = NoExport => export'[x] = NoExport
  BY ExportingHolds DEF KvTyped
<1>2. /\ IdsOf(cache) = {e.id : e \in ToSet(cache)}
      /\ IdsOf(cache') = {e.id : e \in ToSet(cache')}
  BY IdsAreOfEntries DEF KvTyped
<1>3. \A x \in Exports : export'[x].live => export'[x].id \in IdsOf(cache')
  BY <1>1
<1>4. ASSUME NEW x \in Exports, export'[x] # NoExport
      PROVE  export'[x].id \in CacheIds /\ (export'[x].id \in IdsOf(cache') => export'[x].live)
  <2>1. export[x] # NoExport /\ export'[x].id = export[x].id
    BY <1>1, <1>4
  <2>2. export[x].id \in CacheIds /\ (export[x].id \in IdsOf(cache) => export[x].live)
    BY <2>1 DEF ExportsOK
  <2>3. ASSUME export[x].id \in IdsOf(cache') PROVE export'[x].live
    <3>1. PICK e \in ToSet(cache') : e.id = export[x].id
      BY <1>2, <2>3
    <3>2. e \in ToSet(cache)
      BY <3>1
    <3>3. export[x].live
      BY <1>2, <2>2, <3>1, <3>2
    <3>4. export[x].id \notin gone
      BY <2>3, <3>3
    <3> QED  BY <1>1, <3>3, <3>4
  <2> QED  BY <2>1, <2>2, <2>3
<1>5. ASSUME NEW x \in Exports, NEW e \in ToSet(cache'), export'[x].live, e.id = export'[x].id
      PROVE  e.size = export'[x].old
  <2>1. export[x].live /\ e.id = export[x].id /\ export'[x].old = export[x].old
    BY <1>1, <1>5
  <2>2. e \in ToSet(cache)
    BY <2>1
  <2> QED  BY <2>1, <2>2 DEF ExportsOK
<1>6. \A x, y \in Exports : x # y /\ export'[x].id = export'[y].id => export'[x].id = KvNone
  BY <1>1 DEF ExportsOK
<1> QED  BY <1>1, <1>3, <1>4, <1>5, <1>6 DEF ExportsOK

\* An entry is stored by whichever route.
LEMMA StoreStep ==
  ASSUME KvInv, NEW e \in Entry, StoreKv(e)
  PROVE  KvInv'
<1> DEFINE m == StoreLocal(Mem, e)
           stored == e.size <= MaxBytes
           gone == (IdsOf(cache) \ IdsOf(m.cache)) \cup {e.id}
<1>1. /\ clean /\ KvTyped /\ ExportsOK /\ bytes = SizeOf(cache) /\ UNCHANGED kvFile
      /\ SetMem([m EXCEPT !.clean = @ /\ ~(stored /\ \E x \in Exports : export[x].id = e.id)])
      /\ export' = IF stored THEN Exporting(gone) ELSE export
  BY DEF StoreKv, KvInv
<1>2. Mem \in Mems /\ Mem.cache = cache /\ Mem.bytes = bytes
  BY <1>1 DEF Mem, Mems, KvTyped
<1>3. Stored(Mem, e, m)
  BY <1>2, StoreHolds
<1> HIDE DEF m
<1>4. m \in Mems /\ m = [cache |-> m.cache, index |-> m.index, bytes |-> m.bytes, clean |-> m.clean]
  BY <1>3 DEF Stored, Mems
<1>5. /\ cache' = m.cache /\ index' = m.index /\ bytes' = m.bytes
      /\ clean' = (m.clean /\ ~(stored /\ \E x \in Exports : export[x].id = e.id))
  <2> HIDE DEF stored
  <2>1. \A b : [m EXCEPT !.clean = b]
               = [cache |-> m.cache, index |-> m.index, bytes |-> m.bytes, clean |-> b]
    BY <1>4
  <2> QED  BY <1>1, <2>1 DEF SetMem
<1>6. /\ cache' \in Caches /\ index' \in [Keys -> CacheIds \cup {KvNone}]
      /\ bytes' \in Int /\ clean' \in BOOLEAN /\ kvFile' \in Seq(Entry)
      /\ clean' => bytes' = SizeOf(cache')
  BY <1>1, <1>2, <1>3, <1>4, <1>5 DEF Mems, Stored, KvTyped
<1>7. CASE ~stored
  <2>1. m = Mem
    BY <1>1, <1>3, <1>7, KvAssumption DEF Stored, Entry
  <2>2. cache' = cache /\ export' = export /\ index' = index /\ bytes' = bytes
    BY <1>1, <1>5, <1>7, <2>1 DEF Mem
  <2>3. ExportsOK'
    BY ZenonT(30), <1>1, <2>2 DEF ExportsOK
  <2>4. KvTyped'
    BY <1>1, <1>6, <2>2 DEF KvTyped
  <2> QED  BY <1>6, <2>3, <2>4 DEF KvInv
<1>8. CASE stored
  <2>1. export' = Exporting(gone) /\ ToSet(cache') \subseteq ToSet(cache) \cup {e} /\ e \in ToSet(cache')
    <3>1. ~(e.size > MaxBytes)
      BY <1>8, KvAssumption DEF Entry
    <3> QED  BY <1>1, <1>2, <1>3, <1>5, <1>8, <3>1 DEF Stored
  <2>2. /\ IdsOf(cache) = {f.id : f \in ToSet(cache)}
        /\ IdsOf(cache') = {f.id : f \in ToSet(cache')}
    BY <1>1, <1>6, IdsAreOfEntries DEF KvTyped
  <2>3. \A x \in Exports : export[x].live => export[x].id \in IdsOf(cache)
    BY <1>1 DEF KvTyped
  <2>4. gone = (IdsOf(cache) \ IdsOf(cache')) \cup {e.id}
    BY <1>5
  <2> HIDE DEF gone, stored
  <2>5. CASE clean'
    <3>1. \A x \in Exports : export[x].id # e.id
      BY <1>5, <1>8, <2>5
    <3>2. /\ export' \in [Exports -> Held] /\ ExportsOK'
          /\ \A x \in Exports : export'[x].live => export'[x].id \in IdsOf(cache')
      <4>1. \A f \in ToSet(cache') : f \in ToSet(cache) \/ \A x \in Exports : export[x].id # f.id
        BY <2>1, <3>1
      <4>2. \A x \in Exports : export[x].live =>
               (export[x].id \in gone <=> export[x].id \notin IdsOf(cache'))
        BY <2>3, <2>4, <3>1
      <4> QED  BY ONLY <1>1, <1>6, <2>1, <4>1, <4>2, CacheChanges
    <3>3. KvTyped'
      BY <1>6, <3>2 DEF KvTyped
    <3> QED  BY <1>6, <3>2, <3>3 DEF KvInv
  <2>6. CASE ~clean'
    <3>1. /\ export' \in [Exports -> Held]
          /\ \A x \in Exports :
                /\ export'[x].id = export[x].id
                /\ export'[x].live = (export[x].live /\ export[x].id \notin gone)
      BY <1>1, <2>1, ExportingHolds DEF KvTyped
    <3>2. \A x \in Exports : export'[x].live => export'[x].id \in IdsOf(cache')
      BY <2>3, <2>4, <3>1
    <3>3. KvTyped'
      BY <1>6, <3>1, <3>2 DEF KvTyped
    <3> QED  BY <2>6, <3>3 DEF KvInv
  <2> QED  BY <2>5, <2>6
<1> QED  BY <1>7, <1>8

\* An expired entry is dropped.
LEMMA DropStep ==
  ASSUME KvInv, clean, NEW e \in ToSet(cache), NEW k \in Keys, Drop(e, k)
  PROVE  KvInv'
<1>1. /\ KvTyped /\ ExportsOK /\ bytes = SizeOf(cache) /\ cache \in Caches
      /\ cache' = RemoveFirst(cache, e) /\ bytes' = bytes - e.size
      /\ index' = [index EXCEPT ![k] = KvNone] /\ export' = Exporting({e.id})
      /\ UNCHANGED <<kvFile, clean>>
  BY IdLeaves DEF KvInv, KvTyped, Drop
<1>2. cache' \in Caches /\ ToSet(cache') = ToSet(cache) \ {e} /\ SizeOf(cache') = SizeOf(cache) - e.size
  BY <1>1, EntryLeaves
<1>3. /\ IdsOf(cache) = {f.id : f \in ToSet(cache)}
      /\ IdsOf(cache') = {f.id : f \in ToSet(cache')}
      /\ \A a, b \in ToSet(cache) : a.id = b.id => a = b
      /\ e \in Entry
  BY <1>1, <1>2, IdsAreOfEntries
<1>4. /\ export' \in [Exports -> Held] /\ ExportsOK'
      /\ \A x \in Exports : export'[x].live => export'[x].id \in IdsOf(cache')
  <2>1. \A f \in ToSet(cache') : f \in ToSet(cache) \/ \A x \in Exports : export[x].id # f.id
    BY <1>2
  <2>2. \A x \in Exports : export[x].live =>
           (export[x].id \in {e.id} <=> export[x].id \notin IdsOf(cache'))
    BY <1>1, <1>2, <1>3 DEF KvTyped
  <2> QED  BY ONLY <1>1, <1>2, <2>1, <2>2, CacheChanges
<1>5. /\ index' \in [Keys -> CacheIds \cup {KvNone}] /\ bytes' \in Int
      /\ clean' \in BOOLEAN /\ kvFile' \in Seq(Entry)
  BY <1>1, <1>3 DEF KvTyped, Entry
<1>6. KvTyped'
  BY <1>2, <1>4, <1>5 DEF KvTyped
<1> QED  BY <1>1, <1>2, <1>4, <1>6 DEF KvInv

\* A lookup finds nothing, an expired entry, or an entry that becomes the last one.
LEMMA LookupStep ==
  ASSUME KvInv, NEW k \in Keys, LookupLocal(k)
  PROVE  KvInv'
<1>1. KvTyped /\ ExportsOK /\ bytes = SizeOf(cache) /\ cache \in Caches /\ clean
  BY DEF KvInv, KvTyped, LookupLocal
<1>2. CASE /\ index' = [index EXCEPT ![k] = KvNone]
           /\ UNCHANGED <<cache, bytes, export, kvFile, clean>>
  BY <1>1, <1>2 DEF KvInv, KvTyped, ExportsOK
<1>3. ASSUME NEW e \in ToSet(cache), Drop(e, k) PROVE KvInv'
  BY <1>1, <1>3, DropStep
<1>4. ASSUME NEW e \in ToSet(cache), cache' = Append(WithoutId(e.id), e),
             UNCHANGED <<index, bytes, export, kvFile, clean>>
      PROVE  KvInv'
  <2> DEFINE r == RemoveFirst(cache, e)
  <2>1. cache' = Append(r, e)
    BY <1>1, <1>4, IdLeaves
  <2>2. r \in Caches /\ ToSet(r) = ToSet(cache) \ {e} /\ SizeOf(r) = SizeOf(cache) - e.size
    BY <1>1, EntryLeaves
  <2>3. e \in Entry /\ \A a, b \in ToSet(cache) : a.id = b.id => a = b
    BY <1>1, IdsAreOfEntries
  <2> HIDE DEF r
  <2>4. \A f \in ToSet(r) : f.id # e.id
    BY <2>2, <2>3
  <2>5. /\ Append(r, e) \in Caches /\ ToSet(Append(r, e)) = ToSet(r) \cup {e}
        /\ SizeOf(Append(r, e)) = SizeOf(r) + e.size
    BY ONLY <2>2, <2>3, <2>4, EntryJoins
  <2>6. cache' \in Caches /\ ToSet(cache') = ToSet(cache) /\ SizeOf(cache') = SizeOf(cache)
    <3>1. SizeOf(cache) \in Int /\ e.size \in Int
      BY <1>1, <2>3, SizeIsInt DEF Entry
    <3> QED  BY <2>1, <2>2, <2>5, <3>1
  <2>7. IdsOf(cache') = IdsOf(cache)
    <3>1. IdsOf(cache) = {f.id : f \in ToSet(cache)} /\ IdsOf(cache') = {f.id : f \in ToSet(cache')}
      BY <1>1, <2>6, IdsAreOfEntries
    <3> QED  BY <2>6, <3>1
  <2>8. ExportsOK'
    BY <1>1, <1>4, <2>6, <2>7 DEF ExportsOK
  <2>9. KvTyped'
    BY <1>1, <1>4, <2>6, <2>7 DEF KvTyped
  <2> QED  BY <1>1, <1>4, <2>6, <2>8, <2>9 DEF KvInv
<1> QED  BY <1>2, <1>3, <1>4 DEF LookupLocal

\* An entry changes in place and keeps its id.
LEMMA ChangedInPlace ==
  ASSUME KvTyped, NEW n \in DOMAIN cache, NEW f \in Entry, f.id = cache[n].id,
         cache' = [cache EXCEPT ![n] = f]
  PROVE  /\ cache' \in Caches /\ IdsOf(cache') = IdsOf(cache)
         /\ cache[n] \in ToSet(cache) /\ ToSet(cache') = (ToSet(cache) \ {cache[n]}) \cup {f}
         /\ SizeOf(cache') = SizeOf(cache) - cache[n].size + f.size
<1> DEFINE e == cache[n]
<1>1. cache \in Caches /\ DOMAIN cache = 1..Len(cache) /\ n \in 1..Len(cache)
  BY DEF KvTyped, Caches
<1>2. e \in ToSet(cache) /\ PlaceOf(cache, e.id) = n
  <2>1. e \in ToSet(cache)
    BY <1>1, IdsAreOfEntries
  <2>2. /\ PlaceOf(cache, e.id) \in 1..Len(cache) /\ cache[PlaceOf(cache, e.id)] = e
        /\ IsInjective(cache)
    BY <1>1, <2>1, IdsAreOfEntries
  <2> QED  BY <1>1, <2>1, <2>2 DEF IsInjective
<1> HIDE DEF e
<1>3. f.id = e.id
  BY DEF e
<1>4. LET d == [cache EXCEPT ![PlaceOf(cache, e.id)] = f]
      IN  /\ d \in Caches /\ ToSet(d) = (ToSet(cache) \ {e}) \cup {f}
          /\ SizeOf(d) = SizeOf(cache) - e.size + f.size
  BY ONLY <1>1, <1>2, <1>3, f \in Entry, EntryReplaced
<1>5. /\ cache' \in Caches /\ ToSet(cache') = (ToSet(cache) \ {e}) \cup {f}
      /\ SizeOf(cache') = SizeOf(cache) - e.size + f.size
  BY <1>2, <1>4
<1>6. /\ IdsOf(cache) = {g.id : g \in ToSet(cache)} /\ IdsOf(cache') = {g.id : g \in ToSet(cache')}
  BY <1>1, <1>5, IdsAreOfEntries
<1>7. IdsOf(cache') = IdsOf(cache)
  <2>1. ASSUME NEW g \in ToSet(cache') PROVE g.id \in IdsOf(cache)
    BY <1>2, <1>3, <1>5, <1>6, <2>1
  <2>2. ASSUME NEW g \in ToSet(cache) PROVE g.id \in IdsOf(cache')
    <3>1. f \in ToSet(cache') /\ (g # e => g \in ToSet(cache'))
      BY <1>5
    <3>2. f.id \in IdsOf(cache') /\ (g # e => g.id \in IdsOf(cache'))
      BY <1>6, <3>1
    <3> QED  BY <1>3, <3>2
  <2>3. IdsOf(cache') \subseteq IdsOf(cache)
    BY <1>6, <2>1
  <2>4. IdsOf(cache) \subseteq IdsOf(cache')
    BY <1>6, <2>2
  <2> QED  BY <2>3, <2>4
<1> QED  BY <1>2, <1>5, <1>7 DEF e

\* An entry expires where it is.
LEMMA ExpireStep ==
  ASSUME KvInv, NEW n \in DOMAIN cache, Expire(n)
  PROVE  KvInv'
<1> DEFINE e == cache[n]
           f == [e EXCEPT !.expired = TRUE]
<1>1. KvTyped /\ ExportsOK /\ bytes = SizeOf(cache) /\ cache \in Caches /\ clean
  BY DEF KvInv, KvTyped, Expire
<1>2. e \in ToSet(cache) /\ e \in Entry
  BY <1>1, IdsAreOfEntries DEF ToSet
<1>3. cache' = [cache EXCEPT ![n] = f] /\ UNCHANGED <<index, bytes, export, kvFile, clean>>
  BY DEF Expire
<1>4. f \in Entry /\ f.id = cache[n].id /\ f.size = e.size
  BY <1>2 DEF Entry
<1> HIDE DEF f
<1>5. /\ cache' \in Caches /\ IdsOf(cache') = IdsOf(cache)
      /\ ToSet(cache') = (ToSet(cache) \ {e}) \cup {f}
      /\ SizeOf(cache') = SizeOf(cache) - e.size + f.size
  BY <1>1, <1>3, <1>4, ChangedInPlace
<1>6. SizeOf(cache') = SizeOf(cache)
  <2>1. SizeOf(cache) \in Int /\ e.size \in Int
    BY <1>1, <1>2, SizeIsInt DEF Entry
  <2> HIDE DEF e
  <2> QED  BY <1>4, <1>5, <2>1
<1> HIDE DEF e
<1>7. ExportsOK'
  <2>1. ASSUME NEW x \in Exports, NEW g \in ToSet(cache'), export[x].live, g.id = export[x].id
        PROVE  g.size = export[x].old
    <3>1. CASE g \in ToSet(cache)
      BY <1>1, <2>1, <3>1 DEF ExportsOK
    <3>2. CASE g = f
      BY <1>1, <1>2, <1>4, <2>1, <3>2 DEF ExportsOK, e
    <3> QED  BY <1>5, <3>1, <3>2
  <2> QED  BY <1>1, <1>3, <1>5, <2>1 DEF ExportsOK
<1>8. KvTyped'
  BY <1>1, <1>3, <1>5 DEF KvTyped
<1> QED  BY <1>1, <1>3, <1>6, <1>7, <1>8 DEF KvInv

\* An export finds an entry and holds it.
LEMMA ExportBeginsStep ==
  ASSUME KvInv, NEW x \in Exports, NEW e \in ToSet(cache), ExportBegins(x, e)
  PROVE  KvInv'
<1> DEFINE h == [id |-> e.id, old |-> e.size, live |-> TRUE]
<1>1. KvTyped /\ ExportsOK /\ bytes = SizeOf(cache) /\ cache \in Caches
  BY DEF KvInv, KvTyped, ExportBegins
<1>2. /\ e \in Entry /\ e.id \in CacheIds /\ e.size \in Nat /\ e.id \in IdsOf(cache)
      /\ \A a, b \in ToSet(cache) : a.id = b.id => a = b
  BY <1>1, IdsAreOfEntries DEF Entry
<1>3. /\ export' = [export EXCEPT ![x] = h]
      /\ clean' = \A y \in Exports : export[y].id # e.id
      /\ UNCHANGED <<cache, index, bytes, kvFile>>
  BY DEF ExportBegins
<1>4. h \in Held /\ h.id = e.id /\ h.old = e.size /\ h.live
  BY <1>2 DEF Held
<1> HIDE DEF h
<1>5. /\ export' \in [Exports -> Held] /\ export'[x] = h
      /\ \A y \in Exports : y # x => export'[y] = export[y]
  BY <1>1, <1>3, <1>4 DEF KvTyped
<1>6. KvTyped'
  <2>1. \A y \in Exports : export'[y].live => export'[y].id \in IdsOf(cache)
    BY <1>1, <1>2, <1>4, <1>5 DEF KvTyped
  <2>2. clean' \in BOOLEAN
    BY <1>3
  <2> QED  BY <1>1, <1>3, <1>5, <2>1, <2>2 DEF KvTyped
<1>7. ASSUME clean' PROVE ExportsOK'
  <2>0. \A y \in Exports : export[y].id # e.id
    BY <1>3, <1>7
  <2>1. ASSUME NEW y \in Exports, export'[y] # NoExport
        PROVE  export'[y].id \in CacheIds /\ (export'[y].id \in IdsOf(cache) => export'[y].live)
    BY <1>1, <1>2, <1>4, <1>5, <2>1 DEF ExportsOK
  <2>2. ASSUME NEW y \in Exports, NEW g \in ToSet(cache), export'[y].live, g.id = export'[y].id
        PROVE  g.size = export'[y].old
    BY <1>1, <1>2, <1>4, <1>5, <2>2 DEF ExportsOK
  <2>3. ASSUME NEW y \in Exports, NEW z \in Exports, y # z, export'[y].id = export'[z].id
        PROVE  export'[y].id = KvNone
    BY <1>1, <1>4, <1>5, <2>0, <2>3 DEF ExportsOK
  <2> QED  BY <1>3, <2>1, <2>2, <2>3 DEF ExportsOK
<1> QED  BY <1>1, <1>3, <1>6, <1>7 DEF KvInv

\* The record of an entry whose tensor was added.
LEMMA EntryFilled ==
  ASSUME NEW e \in Entry, NEW s, NEW b
  PROVE  [[e EXCEPT !.size = s] EXCEPT !.tensor = b]
         = [id |-> e.id, key |-> e.key, size |-> s, tensor |-> b, expired |-> e.expired]
<1> DEFINE d == [e EXCEPT !.size = s]
<1>1. e = [id |-> e.id, key |-> e.key, size |-> e.size, tensor |-> e.tensor,
           expired |-> e.expired]
  BY DEF Entry
<1>2. d = [id |-> e.id, key |-> e.key, size |-> s, tensor |-> e.tensor, expired |-> e.expired]
  BY <1>1
<1> HIDE DEF d
<1>3. [d EXCEPT !.tensor = b]
      = [id |-> e.id, key |-> e.key, size |-> s, tensor |-> b, expired |-> e.expired]
  BY <1>2
<1> QED  BY <1>3 DEF d

\* An export ends, and finds the id of its entry cached or not.
LEMMA ExportEndsStep ==
  ASSUME KvInv, NEW x \in Exports, ExportEnds(x)
  PROVE  KvInv'
<1> DEFINE i == export[x].id
           n == PlaceOf(cache, i)
           Size(got) == (IF export[x].live THEN cache[n].size ELSE export[x].old) + got
<1>1. KvTyped /\ ExportsOK /\ bytes = SizeOf(cache) /\ cache \in Caches /\ clean
  BY DEF KvInv, KvTyped, ExportEnds
<1>2. PICK got \in {0, TensorSize} :
         /\ cache' = IF export[x].live
                     THEN [cache EXCEPT ![n].size = Size(got), ![n].tensor = @ \/ got > 0]
                     ELSE cache
         /\ bytes' = SyncLocalSizeDelta(i, Size(got) - export[x].old)
  BY DEF ExportEnds
<1>3. /\ export' = [export EXCEPT ![x] = NoExport] /\ export[x] # NoExport
      /\ UNCHANGED <<index, kvFile, clean>>
  BY DEF ExportEnds
<1>4. got \in Nat /\ export[x] \in Held /\ export[x].old \in Nat /\ bytes \in Int
  BY <1>1, KvAssumption DEF KvTyped, Held
<1>5. i \in CacheIds /\ i # KvNone /\ (i \in IdsOf(cache) <=> export[x].live)
  BY <1>1, <1>3, KvAssumption DEF ExportsOK, KvTyped
<1>6. /\ export' \in [Exports -> Held] /\ export'[x] = NoExport
      /\ \A y \in Exports : y # x => export'[y] = export[y] /\ export[y].id # i
  <2>1. NoExport \in Held
    BY DEF NoExport, Held
  <2>2. \A y \in Exports : y # x => export[y].id # i
    BY <1>1, <1>5 DEF ExportsOK
  <2> QED  BY <1>1, <1>3, <2>1, <2>2 DEF KvTyped
<1>7. NoExport.live = FALSE /\ NoExport.id = KvNone
  BY DEF NoExport
<1>8. ASSUME cache' \in Caches, IdsOf(cache') = IdsOf(cache), bytes' = SizeOf(cache'),
             \A g \in ToSet(cache') : g \in ToSet(cache) \/ g.id = i
      PROVE  KvInv'
  <2>1. KvTyped'
    <3>1. \A y \in Exports : export'[y].live => export'[y].id \in IdsOf(cache')
      <4>1. \A y \in Exports : y # x => export'[y] = export[y]
        BY <1>6
      <4>2. \A y \in Exports : export[y].live => export[y].id \in IdsOf(cache)
        BY <1>1 DEF KvTyped
      <4>3. ~export'[x].live
        BY <1>6, <1>7
      <4> QED  BY <1>8, <4>1, <4>2, <4>3
    <3>2. bytes' \in Int
      BY <1>8, SizeIsInt
    <3> QED  BY <1>1, <1>3, <1>6, <1>8, <3>1, <3>2 DEF KvTyped
  <2>2. ExportsOK'
    <3>1. ASSUME NEW y \in Exports, export'[y] # NoExport
          PROVE  export'[y].id \in CacheIds /\ (export'[y].id \in IdsOf(cache') => export'[y].live)
      <4>1. y # x /\ export'[y] = export[y]
        BY <1>6, <3>1
      <4> QED  BY <1>1, <1>8, <3>1, <4>1 DEF ExportsOK
    <3>2. ASSUME NEW y \in Exports, NEW g \in ToSet(cache'), export'[y].live, g.id = export'[y].id
          PROVE  g.size = export'[y].old
      <4>1. y # x /\ export'[y] = export[y] /\ export[y].id # i
        BY <1>6, <1>7, <3>2
      <4>2. g \in ToSet(cache)
        BY <1>8, <3>2, <4>1
      <4> QED  BY <1>1, <3>2, <4>1, <4>2 DEF ExportsOK
    <3>3. ASSUME NEW y \in Exports, NEW z \in Exports, y # z, export'[y].id = export'[z].id
          PROVE  export'[y].id = KvNone
      <4>1. CASE y = x \/ z = x
        BY <1>6, <1>7, <3>3, <4>1
      <4>2. CASE y # x /\ z # x
        BY <1>1, <1>6, <3>3, <4>2 DEF ExportsOK
      <4> QED  BY <4>1, <4>2
    <3> QED  BY <3>1, <3>2, <3>3 DEF ExportsOK
  <2> QED  BY <1>8, <2>1, <2>2 DEF KvInv
<1>9. CASE ~export[x].live
  <2>1. cache' = cache /\ bytes' = bytes
    BY <1>2, <1>5, <1>9 DEF SyncLocalSizeDelta
  <2> QED  BY <1>1, <1>8, <2>1
<1>10. CASE export[x].live
  <2> DEFINE e == cache[n]
             b == e.tensor \/ got > 0
             f == [[e EXCEPT !.size = Size(got)] EXCEPT !.tensor = b]
  <2>1. PICK g \in ToSet(cache) : g.id = i
    BY <1>1, <1>5, <1>10, IdsAreOfEntries
  <2>2. n \in 1..Len(cache) /\ e = g /\ e \in Entry /\ e.id = i /\ n \in DOMAIN cache
    <3>1. n \in 1..Len(cache) /\ cache[n] = g /\ g \in Entry
      BY <1>1, <2>1, IdsAreOfEntries
    <3> QED  BY <1>1, <2>1, <3>1 DEF Caches
  <2>3. e.size = export[x].old
    BY <1>1, <1>10, <2>1, <2>2 DEF ExportsOK
  <2>4. Size(got) = e.size + got /\ Size(got) \in Nat
    BY <1>4, <1>10, <2>3
  <2>5. cache' = [cache EXCEPT ![n].size = Size(got), ![n].tensor = @ \/ got > 0]
    BY <1>2, <1>10
  <2>6. cache' = [cache EXCEPT ![n] = f]
    BY <2>2, <2>5
  <2>7. bytes' = bytes + got
    <3>1. bytes' = bytes + (Size(got) - export[x].old)
      BY <1>2, <1>5, <1>10 DEF SyncLocalSizeDelta
    <3> QED  BY <1>4, <2>3, <2>4, <3>1
  <2> HIDE DEF n, Size
  <2>8. f = [id |-> e.id, key |-> e.key, size |-> Size(got), tensor |-> b, expired |-> e.expired]
    BY <2>2, EntryFilled
  <2>9. e.id \in CacheIds /\ e.key \in Keys /\ e.expired \in BOOLEAN /\ e.size \in Nat
    BY <2>2 DEF Entry
  <2>10. b \in BOOLEAN
    OBVIOUS
  <2> HIDE DEF e, b, f
  <2>11. f \in Entry /\ f.id = i /\ f.size = e.size + got
    BY <2>2, <2>4, <2>8, <2>9, <2>10 DEF Entry
  <2>12. f.id = cache[n].id
    BY <2>2, <2>11 DEF e
  <2>13. /\ cache' \in Caches /\ IdsOf(cache') = IdsOf(cache)
         /\ ToSet(cache') = (ToSet(cache) \ {e}) \cup {f}
         /\ SizeOf(cache') = SizeOf(cache) - e.size + f.size
    BY <1>1, <2>2, <2>6, <2>11, <2>12, ChangedInPlace DEF e
  <2>14. bytes' = SizeOf(cache')
    BY <1>1, <1>4, <2>7, <2>9, <2>11, <2>13
  <2> QED  BY <1>8, <2>11, <2>13, <2>14
<1> QED  BY <1>9, <1>10

\* The entries of a file are loaded.
LEMMA LoadStep ==
  ASSUME NEW f \in Seq(Entry), LoadKv(f), kvFile' \in Seq(Entry)
  PROVE  KvInv'
<1> DEFINE m == FoldLeft(StoreLocal, Nothing, f)
<1>1. GoodMem(m)
  BY LoadHolds
<1>2. /\ SetMem(m) /\ export' = [y \in Exports |-> NoExport]
  BY DEF LoadKv
<1> HIDE DEF m
<1>3. /\ cache' \in Caches /\ index' \in [Keys -> CacheIds \cup {KvNone}]
      /\ bytes' \in Int /\ clean' \in BOOLEAN /\ (clean' => bytes' = SizeOf(cache'))
  BY <1>1, <1>2 DEF GoodMem, Mems, SetMem
<1>4. NoExport \in Held /\ NoExport.live = FALSE /\ NoExport.id = KvNone
  BY DEF NoExport, Held
<1>5. /\ export' \in [Exports -> Held]
      /\ \A y \in Exports : export'[y] = NoExport
  BY <1>2, <1>4
<1>6. KvTyped'
  BY <1>3, <1>4, <1>5 DEF KvTyped
<1>7. ExportsOK'
  BY <1>4, <1>5 DEF ExportsOK
<1> QED  BY <1>3, <1>6, <1>7 DEF KvInv

\* The cache is what a run of the node made of it: its ids differ, its exports hold what
\* is cached, and the counter is right as long as nothing has happened that it does not
\* survive.
THEOREM KvInvariant == KvSpec => []KvInv
<1>1. KvInit => KvInv
  <2> SUFFICES ASSUME KvInit PROVE KvInv
    OBVIOUS
  <2>1. NoExport \in Held /\ NoExport.live = FALSE /\ NoExport.id = KvNone
    BY DEF NoExport, Held
  <2>2. \A y \in Exports : export[y] = NoExport
    BY DEF KvInit
  <2>3. <<>> \in Caches /\ <<>> \in Seq(Entry)
    BY DEF Caches, Distinct
  <2>4. export \in [Exports -> Held]
    BY <2>1 DEF KvInit
  <2>5. index \in [Keys -> CacheIds \cup {KvNone}]
    BY DEF KvInit, Nothing
  <2>6. KvTyped
    BY <2>1, <2>2, <2>3, <2>4, <2>5 DEF KvTyped, KvInit
  <2>7. ExportsOK
    BY <2>1, <2>2 DEF ExportsOK
  <2> QED  BY <2>6, <2>7, SizeOfEmpty DEF KvInv, KvInit
<1>2. KvInv /\ [KvNext]_kvVars => KvInv'
  <2> SUFFICES ASSUME KvInv, [KvNext]_kvVars PROVE KvInv'
    OBVIOUS
  <2>1. ASSUME NEW i \in CacheIds, NEW k \in Keys, NEW s \in Sizes, NEW t \in BOOLEAN,
               StoreKv([id |-> i, key |-> k, size |-> s, tensor |-> t, expired |-> FALSE])
        PROVE  KvInv'
    <3>1. [id |-> i, key |-> k, size |-> s, tensor |-> t, expired |-> FALSE] \in Entry
      BY KvAssumption DEF Entry
    <3> QED  BY <2>1, <3>1, StoreStep
  <2>2. ASSUME NEW k \in Keys, LookupLocal(k) PROVE KvInv'
    BY <2>2, LookupStep
  <2>3. ASSUME NEW e \in ToSet(cache), LookupLocalById(e) PROVE KvInv'
    <3>1. e \in Entry
      BY IdsAreOfEntries DEF KvInv, KvTyped
    <3> QED  BY <2>3, <3>1, DropStep DEF LookupLocalById, Entry
  <2>4. ASSUME NEW n \in DOMAIN cache, Expire(n) PROVE KvInv'
    BY <2>4, ExpireStep
  <2>5. ASSUME NEW x \in Exports, NEW e \in ToSet(cache), ExportBegins(x, e) PROVE KvInv'
    BY <2>5, ExportBeginsStep
  <2>6. ASSUME NEW x \in Exports, ExportEnds(x) PROVE KvInv'
    BY <2>6, ExportEndsStep
  <2>7. CASE StopAndStart
    <3>1. cache \in Seq(Entry)
      BY IdsAreOfEntries DEF KvInv, KvTyped
    <3>2. kvFile' \in Seq(Entry) /\ LoadKv(kvFile')
      BY <2>7, <3>1, ThoseAreEntries DEF StopAndStart
    <3> QED  BY <3>2, LoadStep
  <2>8. CASE CrashAndStart
    <3>1. kvFile \in Seq(Entry) /\ kvFile' = kvFile
      BY <2>8 DEF CrashAndStart, KvInv, KvTyped
    <3>2. PICK keep : LoadKv(Those(kvFile, keep))
      BY <2>8 DEF CrashAndStart
    <3>3. Those(kvFile, keep) \in Seq(Entry)
      BY <3>1, ThoseAreEntries
    <3> QED  BY <3>1, <3>2, <3>3, LoadStep
  <2>9. CASE UNCHANGED kvVars
    BY <2>9 DEF kvVars, KvInv, KvTyped, ExportsOK
  <2> QED
    BY ZenonT(30), <2>1, <2>2, <2>3, <2>4, <2>5, <2>6, <2>7, <2>8, <2>9
    DEF KvNext, WarmKv, TransferFromRemote, ImportBundle, ImportStream
<1> QED  BY <1>1, <1>2, PTL DEF KvSpec

\* What the invariant says of the properties.
LEMMA KvInvImplies ==
  ASSUME KvInv
  PROVE  KvTypeOK /\ CounterIsExact
<1>1. /\ cache \in Caches /\ ToSet(cache) \subseteq Entry
      /\ \A m, n \in DOMAIN cache : m # n => cache[m].id # cache[n].id
  BY IdsAreOfEntries DEF KvInv, KvTyped, Caches, Distinct
<1>2. KvTypeOK
  BY <1>1 DEF KvTypeOK, KvInv, KvTyped, Entry
<1> QED  BY <1>2 DEF CounterIsExact, KvInv

\* Two cached entries never have one id, and an export that goes on with the entry it
\* found holds one that is cached.
THEOREM CacheTypes == KvSpec => []KvTypeOK
  BY KvInvariant, KvInvImplies, PTL

\* _local_size_bytes is what the cached entries add up to, through stores, evictions,
\* expirations and exports that end after their entry has gone.
THEOREM CounterIsKept == KvSpec => []CounterIsExact
  BY KvInvariant, KvInvImplies, PTL

-----------------------------------------------------------------------------
(* All of them.                                                            *)

\* A run with crashes moves one part, and is a behaviour of each.
LEMMA CrashesAreParts ==
  CrashSpec => /\ AccessSpec /\ AuditSpec /\ TranscriptSpec
               /\ KvSpec /\ StoreSpec /\ ShardSpec
<1>1. CrashInit => /\ AccessInit /\ AuditInit /\ TranscriptInit
                   /\ KvInit /\ StoreInit /\ ShardInit
  BY DEF CrashInit
<1>2. [CrashNext]_crashVars => /\ [AccessNext]_accessVars /\ [AuditNext]_auditVars
                               /\ [TranscriptNext]_transcriptVars /\ [KvNext]_kvVars
                               /\ [StoreNext]_storeVars /\ [ShardNext]_shardVars
  BY DEF CrashNext, MasterFilesNext, NodeFilesNext, crashVars, masterFiles, nodeFiles
<1> QED
  BY <1>1, <1>2, PTL
  DEF CrashSpec, AccessSpec, AuditSpec, TranscriptSpec, KvSpec, StoreSpec, ShardSpec

\* Whatever fails and whoever crashes, what is in memory is well formed and agrees with the
\* files as far as its owner believes it does.
THEOREM FilesAreKept == CrashSpec => []FilesOK
<1>1. KvInv /\ ShardInv => KvTypeOK /\ ShardTypeOK /\ DiskWithinLimit
  BY KvInvImplies, ShardInvImplies
<1>2. /\ AccessTypeOK /\ AnsweredChangesSurvive /\ KvTypeOK /\ StoreTypeOK
      /\ CleanIsSaved /\ ReportedPutWasMade /\ ShardTypeOK /\ DiskWithinLimit
      => FilesOK
  BY DEF FilesOK
<1> QED
  BY <1>1, <1>2, CrashesAreParts, AccessTypes, UsersSurvive, KvInvariant, KeysAreIndexed,
     CleanKeysAreSaved, ReportedPutsWereMade, ShardInvariant, PTL
=============================================================================
