---------------------------- MODULE GitHubPushProofs ----------------------------
(***************************************************************************)
(* Proofs about GitHubPush: its type, that one forced mint is enough, that *)
(* a push which reports success has landed, and that the default branch    *)
(* only grows but for pushes meant for it, for any clients, processes,     *)
(* installations and commits of other people, and whatever answer is lost. *)
(***************************************************************************)
EXTENDS GitHubPush, SequenceTheorems, TLAPS

\* The round trips of a request, its token and its place in the push fit together.
CallsTyped ==
  /\ pc \in [Clients -> Places]
  /\ stage \in [Clients -> Rounds \cup {"none"}]
  /\ tok \in [Clients -> Tokens \cup {None}]
  /\ \A c \in Clients : stage[c] \in Rounds <=> pc[c] \in Requests
  /\ \A c \in Clients : stage[c] \in {"minted", "reminted", "send", "resend"} <=> tok[c] # None
  /\ revoked \in [Clients -> BOOLEAN]

\* A forced token that is dead was made during this request, so the App was
\* uninstalled since; and a push asks for nothing after its pull request.
ForcedIsFresh ==
  /\ \A c \in Clients : stage[c] \in {"reminted", "resend"} => Valid(tok[c]) \/ revoked[c]
  /\ \A c \in Clients : pull[c] # "none" => pc[c] \in {"recording", "pushed", "recorded"}
  /\ DeniedOnlyIfRevoked

\* Whoever is past the ref has a commit where a ref pointed; whoever is done has a
\* pull request if it needs one and GitHub would open it.
RefFirst ==
  /\ PushLanded
  /\ \A c \in Clients : pc[c] \in {"pull", "recording"} => c \in landed
  /\ \A c \in Clients : pc[c] = "recording" => sawEmpty[c] \/ pulls \/ pull[c] \in {"failed", "denied"}

\* Refs are only looked at in a repository that exists, and one that does not has none.
RepoFirst ==
  /\ ~exists => main = NoRef
  /\ \A c \in Clients : pc[c] \in {"ref", "createRef", "updateRef", "pull"} => exists

\* The inductive invariant.
IInv == TypeOK /\ ForcedIsFresh /\ RefFirst /\ RepoFirst

------------------------------------------------------------------------------
(* What the operators of TokenCache do to one client's request.            *)

\* A request begins with the cached token, or with a mint if there is none.
LEMMA CallTyped ==
  ASSUME TypeOK, NEW c \in Clients, NEW op \in Requests, Call(c, op)
  PROVE  CallsTyped'
<1>1. Cached(c) \in Tokens \cup {None}
  BY DEF TypeOK, Cached
<1>2. op \in Places
  BY DEF Places
<1>3. /\ pc' = [pc EXCEPT ![c] = op]
      /\ stage' = [stage EXCEPT ![c] = IF Cached(c) = None THEN "mint" ELSE "send"]
      /\ tok' = [tok EXCEPT ![c] = Cached(c)]
      /\ revoked' = [revoked EXCEPT ![c] = FALSE]
  BY DEF Call
<1>4. pc' \in [Clients -> Places] /\ tok' \in [Clients -> Tokens \cup {None}]
  BY <1>1, <1>2, <1>3 DEF TypeOK
<1>5. stage' \in [Clients -> Rounds \cup {"none"}] /\ revoked' \in [Clients -> BOOLEAN]
  BY <1>3 DEF TypeOK, Rounds
<1>6. \A d \in Clients : stage'[d] \in Rounds <=> pc'[d] \in Requests
  BY <1>3 DEF TypeOK, Rounds
<1>7. \A d \in Clients : stage'[d] \in {"minted", "reminted", "send", "resend"} <=> tok'[d] # None
  BY <1>3 DEF TypeOK
<1> QED BY <1>4, <1>5, <1>6, <1>7 DEF CallsTyped

\* A client that waits for something else, or has ended, has no round and no token.
LEMMA RestTyped ==
  ASSUME TypeOK, NEW c \in Clients, NEW where \in Places \ Requests, Rest(c, where)
  PROVE  CallsTyped'
<1>1. /\ pc' = [pc EXCEPT ![c] = where]
      /\ stage' = [stage EXCEPT ![c] = "none"]
      /\ tok' = [tok EXCEPT ![c] = None]
      /\ revoked' = revoked
  BY DEF Rest
<1>2. \A d \in Clients : stage'[d] \in Rounds <=> pc'[d] \in Requests
  BY <1>1 DEF TypeOK, Rounds
<1>3. \A d \in Clients : stage'[d] \in {"minted", "reminted", "send", "resend"} <=> tok'[d] # None
  BY <1>1 DEF TypeOK
<1>4. /\ pc' \in [Clients -> Places] /\ tok' \in [Clients -> Tokens \cup {None}]
      /\ stage' \in [Clients -> Rounds \cup {"none"}] /\ revoked' \in [Clients -> BOOLEAN]
  BY <1>1 DEF TypeOK
<1> QED BY <1>2, <1>3, <1>4 DEF CallsTyped

\* Whatever step a push takes, it either begins a request or waits for none.
LEMMA CallOrRest ==
  ASSUME TypeOK, NEW c \in Clients, PushStep(c)
  PROVE  /\ \/ \E op \in Requests : Call(c, op)
            \/ \E where \in Places \ Requests : Rest(c, where)
         /\ UNCHANGED <<proc, installVars>>
<1> USE DEF Requests, Places, Ended
<1>1. CASE Start(c) \/ FetchMetadata(c) \/ CleanUp(c) \/ Evict(c)
  BY <1>1 DEF Start, FetchMetadata, CleanUp, Evict
<1>2. CASE Listed(c) \/ Exists(c) \/ CreateRepo(c) \/ GetRef(c)
  BY <1>2 DEF Listed, Exists, CreateRepo, NameBranch, GetRef
<1>3. CASE CreateRef(c) \/ UpdateRef(c) \/ CreatePull(c) \/ PullDenied(c)
  BY <1>3 DEF CreateRef, UpdateRef, CreatePull, PullDenied, AfterRef, Finish
<1>4. CASE Record(c) \/ Fail(c) \/ LoseAnswer(c)
  BY <1>4 DEF Record, Fail, LoseAnswer
<1> QED BY <1>1, <1>2, <1>3, <1>4 DEF PushStep

\* Setting a ref keeps both refs histories, and lands c's commit.
LEMMA PointToTyped ==
  ASSUME TypeOK, NEW c \in Clients, PointTo(c)
  PROVE  /\ main' \in Histories /\ branch' \in Histories
         /\ landed' = landed \cup {c} /\ UNCHANGED <<exists, pulls>>
BY DEF TypeOK, PointTo

\* What a request changes on GitHub's side, answered or not, keeps the types.
LEMMA EffectTyped ==
  ASSUME TypeOK, NEW c \in Clients, Effect(c)
  PROVE  /\ main' \in Histories /\ branch' \in Histories
         /\ exists' \in BOOLEAN /\ pulls' \in BOOLEAN /\ landed' \subseteq Clients
<1>1. <<Other>> \in Histories
  BY DEF Histories
<1>2. CASE PointTo(c)
  BY <1>2, PointToTyped DEF TypeOK
<1>3. CASE ~PointTo(c)
  BY <1>1, <1>3 DEF Effect, Created, TypeOK, repoVars
<1> QED BY <1>2, <1>3

------------------------------------------------------------------------------
\* The initial state satisfies the inductive invariant.
LEMMA InitIInv == Init => IInv
<1> SUFFICES ASSUME Init PROVE IInv
  OBVIOUS
<1>1. 1 \in Tokens
  BY MaxInstallsAssumption DEF Tokens
<1>2. CallsTyped
  BY DEF Init, CallsTyped, Places, Requests, Rounds
<1>3. main \in Histories /\ branch \in Histories /\ NoRef \in Histories
  <2>1. NoRef \in Histories /\ <<Other>> \in Histories
    BY DEF Histories, NoRef
  <2> QED BY <2>1 DEF Init
<1>4. /\ commit \in [Clients -> Histories] /\ cache \in [Procs -> Tokens \cup {None}]
      /\ sawEmpty \in [Clients -> BOOLEAN] /\ asked \in [Clients -> {"branch", "default"}]
      /\ pull \in [Clients -> {"none", "failed", "denied"}]
  BY <1>3 DEF Init
<1>5. TypeOK
  BY <1>1, <1>2, <1>3, <1>4 DEF Init, TypeOK, CallsTyped
<1>6. ForcedIsFresh /\ RefFirst /\ RepoFirst
  BY DEF Init, ForcedIsFresh, RefFirst, RepoFirst, DeniedOnlyIfRevoked, PushLanded
<1> QED BY <1>5, <1>6 DEF IInv

\* A mint, its answer, a first 401 and an entry that gets old keep the types.
LEMMA CacheTypeStep ==
  ASSUME TypeOK, CacheStep
  PROVE  TypeOK'
<1>1. UNCHANGED <<repoVars, pushVars, rowVars>>
  BY DEF CacheStep
<1>2. ASSUME NEW c \in Clients, Mint(c) PROVE CallsTyped' /\ UNCHANGED <<proc, installVars, cache>>
  <2>1. /\ stage[c] \in {"mint", "remint"}
        /\ stage' = [stage EXCEPT ![c] = IF @ = "mint" THEN "minted" ELSE "reminted"]
        /\ tok' = [tok EXCEPT ![c] = installs]
        /\ UNCHANGED <<pc, revoked>>
    BY <1>2 DEF Mint
  <2>2. installs \in Tokens /\ installs # None
    BY DEF TypeOK, Tokens, None
  <2>3. \A d \in Clients : stage'[d] \in Rounds <=> pc'[d] \in Requests
    BY <2>1 DEF TypeOK, Rounds
  <2>4. \A d \in Clients : stage'[d] \in {"minted", "reminted", "send", "resend"} <=> tok'[d] # None
    BY <2>1, <2>2 DEF TypeOK
  <2>5. /\ stage' \in [Clients -> Rounds \cup {"none"}]
        /\ tok' \in [Clients -> Tokens \cup {None}]
    BY <2>1, <2>2 DEF TypeOK, Rounds
  <2> QED BY <1>2, <2>1, <2>3, <2>4, <2>5 DEF Mint, CallsTyped, TypeOK
<1>3. ASSUME NEW c \in Clients, Minted(c)
      PROVE  /\ CallsTyped' /\ cache' \in [Procs -> Tokens \cup {None}]
             /\ UNCHANGED <<proc, installVars>>
  <2>1. /\ stage[c] \in {"minted", "reminted"}
        /\ stage' = [stage EXCEPT ![c] = IF @ = "minted" THEN "send" ELSE "resend"]
        /\ UNCHANGED <<pc, tok, revoked>>
    BY <1>3 DEF Minted
  <2>2. \A d \in Clients : stage'[d] \in Rounds <=> pc'[d] \in Requests
    BY <2>1 DEF TypeOK, Rounds
  <2>3. \A d \in Clients : stage'[d] \in {"minted", "reminted", "send", "resend"} <=> tok'[d] # None
    BY <2>1 DEF TypeOK
  <2>4. stage' \in [Clients -> Rounds \cup {"none"}]
    BY <2>1 DEF TypeOK, Rounds
  <2> QED BY <1>3, <2>1, <2>2, <2>3, <2>4 DEF Minted, CallsTyped, TypeOK
<1>4. ASSUME NEW c \in Clients, Unauthorized(c)
      PROVE  /\ CallsTyped' /\ cache' \in [Procs -> Tokens \cup {None}]
             /\ UNCHANGED <<proc, installVars>>
  <2>1. /\ stage[c] = "send"
        /\ stage' = [stage EXCEPT ![c] = "remint"]
        /\ tok' = [tok EXCEPT ![c] = None]
        /\ UNCHANGED <<pc, revoked>>
    BY <1>4 DEF Unauthorized
  <2>2. \A d \in Clients : stage'[d] \in Rounds <=> pc'[d] \in Requests
    BY <2>1 DEF TypeOK, Rounds
  <2>3. \A d \in Clients : stage'[d] \in {"minted", "reminted", "send", "resend"} <=> tok'[d] # None
    BY <2>1 DEF TypeOK
  <2>4. /\ stage' \in [Clients -> Rounds \cup {"none"}]
        /\ tok' \in [Clients -> Tokens \cup {None}]
    BY <2>1 DEF TypeOK, Rounds
  <2> QED BY <1>4, <2>1, <2>2, <2>3, <2>4 DEF Unauthorized, CallsTyped, TypeOK
<1>5. ASSUME NEW p \in Procs, Age(p)
      PROVE  /\ CallsTyped' /\ cache' \in [Procs -> Tokens \cup {None}]
             /\ UNCHANGED <<proc, installVars>>
  BY <1>5 DEF Age, callVars, CallsTyped, TypeOK
<1>6. /\ CallsTyped' /\ cache' \in [Procs -> Tokens \cup {None}]
      /\ UNCHANGED <<proc, installVars>>
  BY <1>2, <1>3, <1>4, <1>5 DEF CacheStep, TypeOK
<1> QED BY <1>1, <1>6 DEF TypeOK, CallsTyped, installVars, repoVars, pushVars, rowVars

\* What a push changes beside its request keeps the types.
LEMMA PushTypeStep ==
  ASSUME TypeOK, NEW c \in Clients, PushStep(c)
  PROVE  TypeOK'
<1>1. CallsTyped'
  BY CallOrRest, CallTyped, RestTyped
<1>2. /\ proc' \in [Clients -> Procs] /\ installs' \in Tokens /\ alive' \in BOOLEAN
  BY CallOrRest DEF TypeOK, installVars
<1> DEFINE RefsTyped == /\ main \in Histories /\ branch \in Histories
                        /\ exists \in BOOLEAN /\ pulls \in BOOLEAN /\ landed \subseteq Clients
           OthersTyped == /\ cache \in [Procs -> Tokens \cup {None}]
                          /\ sawEmpty \in [Clients -> BOOLEAN]
                          /\ asked \in [Clients -> {"branch", "default"}]
                          /\ commit \in [Clients -> Histories]
                          /\ pull \in [Clients -> {"none", "failed", "denied"}]
                          /\ records \subseteq Clients
                          /\ row \in BOOLEAN /\ evicting \in BOOLEAN
                          /\ callback \in {"none", "redirect", "fetched"}
<1>3. RefsTyped /\ OthersTyped
  BY DEF TypeOK
<1>4. RefsTyped'
  <2>1. CASE CreateRepo(c)
    <3>1. <<Other>> \in Histories
      BY DEF Histories
    <3> QED BY <1>3, <2>1, <3>1 DEF CreateRepo, NameBranch, Created, pushVars, repoVars
  <2>2. CASE CreateRef(c) \/ UpdateRef(c)
    BY <1>3, <2>2, PointToTyped DEF CreateRef, UpdateRef, repoVars
  <2>3. CASE CreatePull(c)
    BY <1>3, <2>3 DEF CreatePull
  <2>4. CASE LoseAnswer(c)
    BY <1>3, <2>4, EffectTyped DEF LoseAnswer, repoVars
  <2>5. CASE Start(c) \/ FetchMetadata(c) \/ CleanUp(c) \/ Evict(c) \/ Listed(c) \/ Exists(c)
    BY <1>3, <2>5 DEF Start, FetchMetadata, CleanUp, Evict, Listed, Exists, NameBranch, repoVars, pushVars
  <2>6. CASE GetRef(c) \/ PullDenied(c) \/ Record(c) \/ Fail(c)
    BY <1>3, <2>6 DEF GetRef, PullDenied, Record, Fail, repoVars, pushVars
  <2> QED BY <2>1, <2>2, <2>3, <2>4, <2>5, <2>6 DEF PushStep
<1>5. OthersTyped'
  <2>1. CASE GetRef(c)
    <3>1. Append(main, c) \in Histories
      BY <1>3 DEF Histories
    <3>2. (main = NoRef) \in BOOLEAN
      OBVIOUS
    <3>3. /\ commit' \in [Clients -> Histories] /\ sawEmpty' \in [Clients -> BOOLEAN]
      BY <1>3, <2>1, <3>1, <3>2 DEF GetRef
    <3> QED BY <1>3, <2>1, <3>3 DEF GetRef, rowVars
  <2>2. CASE CreatePull(c) \/ PullDenied(c)
    BY <1>3, <2>2 DEF CreatePull, PullDenied, rowVars
  <2>3. CASE CleanUp(c) \/ Evict(c)
    BY <1>3, <2>3 DEF CleanUp, Evict, pushVars, rowVars
  <2>4. CASE Record(c)
    BY <1>3, <2>4 DEF Record, rowVars
  <2>5. CASE LoseAnswer(c)
    BY <1>3, <2>5 DEF LoseAnswer, rowVars
  <2>6. CASE Start(c) \/ FetchMetadata(c) \/ Listed(c) \/ Exists(c) \/ CreateRepo(c)
    BY <1>3, <2>6 DEF Start, FetchMetadata, Listed, Exists, CreateRepo, NameBranch, pushVars, rowVars
  <2>7. CASE CreateRef(c) \/ UpdateRef(c) \/ Fail(c)
    BY <1>3, <2>7 DEF CreateRef, UpdateRef, Fail, pushVars, rowVars
  <2> QED BY <2>1, <2>2, <2>3, <2>4, <2>5, <2>6, <2>7 DEF PushStep
<1> QED BY <1>1, <1>2, <1>4, <1>5 DEF TypeOK, CallsTyped

\* The steps that are nobody's push: the installation's row and the world.
WorldStep ==
  \/ HandleDeleted \/ EvictDeleted \/ CallbackFetches \/ CallbackUpserts
  \/ UserUninstalls \/ UserInstalls \/ OthersCommit

\* The installation's row and the world keep the types.
LEMMA WorldTypeStep ==
  ASSUME TypeOK, WorldStep
  PROVE  TypeOK'
<1> USE DEF TypeOK, tokenVars, installVars, callVars, repoVars, pushVars, rowVars
<1>1. CASE HandleDeleted \/ CallbackFetches \/ CallbackUpserts
  BY <1>1 DEF HandleDeleted, CallbackFetches, CallbackUpserts
<1>2. CASE EvictDeleted
  BY <1>2 DEF EvictDeleted
<1>3. CASE UserUninstalls
  BY <1>3 DEF UserUninstalls, Uninstall
<1>4. CASE UserInstalls
  BY <1>4, MaxInstallsAssumption DEF UserInstalls, Install, Tokens
<1>5. CASE OthersCommit
  <2>1. Append(main, Other) \in Histories
    BY DEF Histories
  <2> QED BY <1>5, <2>1 DEF OthersCommit
<1> QED BY <1>1, <1>2, <1>3, <1>4, <1>5 DEF WorldStep

\* A step is the cache's, a push's, the world's, or none.
LEMMA Steps ==
  ASSUME [Next]_vars
  PROVE  \/ CacheStep \/ WorldStep \/ UNCHANGED vars
         \/ \E c \in Clients : PushStep(c)
BY DEF Next, WorldStep

\* Every step keeps the types.
LEMMA TypeStep == TypeOK /\ [Next]_vars => TypeOK'
<1> SUFFICES ASSUME TypeOK, UNCHANGED vars PROVE TypeOK'
  BY Steps, CacheTypeStep, PushTypeStep, WorldTypeStep
<1> QED BY DEF TypeOK, vars, tokenVars, installVars, callVars, repoVars, pushVars, rowVars

------------------------------------------------------------------------------
(* One forced mint is enough.                                              *)

\* What a push step does to its client's answers: it ends nobody's refusal, and it is
\* refused only by a second 401.
LEMMA RefusalEffect ==
  ASSUME TypeOK, NEW c \in Clients, PushStep(c)
  PROVE  /\ pc[c] \notin {"refused", "pushed", "recorded"}
         /\ \A d \in Clients \ {c} : pull'[d] = pull[d]
         /\ pull'[c] # pull[c] => pc[c] = "pull" /\ pc'[c] \in {"recording", "pushed"}
         /\ pull'[c] = "denied" /\ pull[c] # "denied" => Denied(c, "pull") /\ revoked'[c] = revoked[c]
         /\ pc'[c] = "refused" =>
              /\ \E op \in Requests \ {"pull"} : Denied(c, op)
              /\ revoked'[c] = revoked[c]
         /\ pc[c] = "recording" => pc'[c] = "recorded" /\ revoked'[c] = revoked[c]
<1> USE DEF Requests
<1>1. CASE CreatePull(c)
  BY <1>1 DEF CreatePull, Accepted, Finish, Rest, TypeOK
<1>2. CASE PullDenied(c)
  BY <1>2 DEF PullDenied, Denied, Finish, Rest, TypeOK
<1>3. CASE Fail(c)
  <2>1. pull' = pull /\ pc[c] \in Requests
    BY <1>3 DEF Fail, pushVars, Denied, MintFails
  <2>2. CASE \E op \in Requests \ {"pull"} : Denied(c, op) /\ Rest(c, "refused")
    BY <2>1, <2>2 DEF Rest, TypeOK
  <2>3. CASE \E op \in Requests : MintFails(c, op) /\ Rest(c, "failed")
    BY <2>1, <2>3 DEF Rest, TypeOK
  <2> QED BY <1>3, <2>2, <2>3 DEF Fail
<1>4. CASE Record(c)
  BY <1>4 DEF Record, Rest, TypeOK
<1>5. CASE LoseAnswer(c)
  BY <1>5 DEF LoseAnswer, Accepted, Rest, TypeOK
<1>6. CASE Start(c) \/ FetchMetadata(c) \/ CleanUp(c) \/ Evict(c)
  BY <1>6 DEF Start, FetchMetadata, CleanUp, Evict, pushVars, Call, Rest, TypeOK
<1>7. CASE Listed(c) \/ Exists(c) \/ CreateRepo(c)
  BY <1>7 DEF Listed, Exists, CreateRepo, NameBranch, pushVars, Accepted, Call, Rest, TypeOK
<1>8. CASE GetRef(c)
  BY <1>8 DEF GetRef, pushVars, Accepted, Call, TypeOK
<1>9. CASE CreateRef(c) \/ UpdateRef(c)
  BY <1>9 DEF CreateRef, UpdateRef, AfterRef, Finish, Accepted, Call, Rest, TypeOK
<1> QED BY <1>1, <1>2, <1>3, <1>4, <1>5, <1>6, <1>7, <1>8, <1>9 DEF PushStep

\* A forced token stays good, or the App was uninstalled meanwhile.
LEMMA ForcedIsFreshStep == TypeOK /\ ForcedIsFresh /\ [Next]_vars => ForcedIsFresh'
<1> SUFFICES ASSUME TypeOK, ForcedIsFresh, [Next]_vars PROVE ForcedIsFresh'
  OBVIOUS
<1> USE DEF ForcedIsFresh, DeniedOnlyIfRevoked, Valid
<1>1. CASE CacheStep
  <2>1. UNCHANGED <<installs, alive, pc, pull, revoked>>
    BY <1>1 DEF CacheStep, Mint, Minted, Unauthorized, Age, installVars, callVars, pushVars
  <2>2. ASSUME NEW c \in Clients, stage'[c] \in {"reminted", "resend"}
        PROVE  Valid(tok'[c]) \/ revoked[c]
    <3>1. ASSUME NEW d \in Clients, Mint(d) PROVE Valid(tok'[c]) \/ revoked[c]
      BY <2>2, <3>1 DEF Mint, TypeOK
    <3>2. ASSUME NEW d \in Clients, Minted(d) PROVE Valid(tok'[c]) \/ revoked[c]
      BY <2>2, <3>2 DEF Minted, TypeOK
    <3>3. ASSUME NEW d \in Clients, Unauthorized(d) PROVE Valid(tok'[c]) \/ revoked[c]
      BY <2>2, <3>3 DEF Unauthorized, TypeOK
    <3>4. ASSUME NEW p \in Procs, Age(p) PROVE Valid(tok'[c]) \/ revoked[c]
      BY <2>2, <3>4 DEF Age, callVars
    <3> QED BY <1>1, <3>1, <3>2, <3>3, <3>4 DEF CacheStep
  <2> QED BY <2>1, <2>2
<1>2. CASE WorldStep
  <2>1. UNCHANGED <<pc, stage, tok, pull>>
    BY <1>2 DEF WorldStep, HandleDeleted, EvictDeleted, CallbackFetches, CallbackUpserts,
       UserUninstalls, Uninstall, UserInstalls, Install, OthersCommit, tokenVars, callVars, pushVars
  <2>2. CASE UserUninstalls
    BY <2>1, <2>2 DEF UserUninstalls, Uninstall
  <2>3. CASE UserInstalls
    BY <2>1, <2>3 DEF UserInstalls, Install, callVars
  <2>4. CASE ~UserUninstalls /\ ~UserInstalls
    <3>1. UNCHANGED <<installs, alive, revoked>>
      BY <1>2, <2>4 DEF WorldStep, HandleDeleted, EvictDeleted, CallbackFetches, CallbackUpserts,
         OthersCommit, tokenVars, callVars, installVars
    <3> QED BY <2>1, <3>1
  <2> QED BY <2>2, <2>3, <2>4
<1>3. ASSUME NEW c \in Clients, PushStep(c) PROVE ForcedIsFresh'
  <2>1. /\ UNCHANGED <<installs, alive>>
        /\ \A d \in Clients \ {c} :
             /\ pc'[d] = pc[d] /\ stage'[d] = stage[d] /\ tok'[d] = tok[d]
             /\ revoked'[d] = revoked[d] /\ pull'[d] = pull[d]
        /\ stage'[c] \notin {"reminted", "resend"}
    BY <1>3, CallOrRest, RefusalEffect DEF Call, Rest, installVars, TypeOK
  <2>2. \A op : Denied(c, op) => revoked[c]
    BY DEF Denied
  <2>3. pull'[c] # "none" => pc'[c] \in {"recording", "pushed", "recorded"}
    BY <1>3, RefusalEffect
  <2>4. pc'[c] = "refused" \/ pull'[c] = "denied" => revoked'[c]
    BY <1>3, <2>2, RefusalEffect
  <2> QED BY <2>1, <2>3, <2>4
<1>4. CASE UNCHANGED vars
  BY <1>4 DEF vars, tokenVars, installVars, callVars, pushVars
<1> QED BY <1>1, <1>2, <1>3, <1>4, Steps

------------------------------------------------------------------------------
(* Success is only reported of a commit that landed.                       *)

\* What a push step does to what is known of landed commits and pull requests.
LEMMA LandingEffect ==
  ASSUME TypeOK, NEW c \in Clients, PushStep(c)
  PROVE  /\ landed \subseteq landed' /\ (pulls => pulls')
         /\ records \subseteq records' /\ records' \subseteq records \cup {c}
         /\ \A d \in Clients \ {c} :
              pc'[d] = pc[d] /\ sawEmpty'[d] = sawEmpty[d] /\ pull'[d] = pull[d]
         /\ c \in records' \ records => pc[c] = "recording"
         /\ pc'[c] = "pull" => c \in landed'
         /\ pc'[c] \in {"recording", "pushed"} =>
              /\ c \in landed' \/ pc[c] = "pull"
              /\ sawEmpty'[c] \/ pulls' \/ pull'[c] \in {"failed", "denied"}
         /\ pc'[c] = "recorded" =>
              pc[c] = "recording" /\ UNCHANGED <<sawEmpty, pulls, pull>>
<1> USE DEF Requests
<1>1. CASE CreateRef(c) \/ UpdateRef(c)
  <2>1. /\ UNCHANGED <<sawEmpty, pull, records, pulls>> /\ landed \subseteq landed'
        /\ (AfterRef(c) /\ c \in landed') \/ Call(c, "updateRef")
    BY <1>1, PointToTyped DEF CreateRef, UpdateRef, repoVars
  <2>2. CASE Call(c, "updateRef")
    BY <2>1, <2>2 DEF Call, TypeOK
  <2>3. CASE AfterRef(c) /\ c \in landed' /\ sawEmpty[c]
    BY <2>1, <2>3 DEF AfterRef, Finish, Rest, TypeOK
  <2>4. CASE AfterRef(c) /\ c \in landed' /\ ~sawEmpty[c]
    BY <2>1, <2>4 DEF AfterRef, Call, TypeOK
  <2> QED BY <2>1, <2>2, <2>3, <2>4
<1>2. CASE CreatePull(c)
  BY <1>2 DEF CreatePull, Accepted, Finish, Rest, TypeOK
<1>3. CASE PullDenied(c)
  BY <1>3 DEF PullDenied, Denied, Finish, Rest, TypeOK, repoVars
<1>4. CASE Record(c)
  BY <1>4 DEF Record, Rest, TypeOK, repoVars
<1>5. CASE Fail(c)
  <2>1. UNCHANGED <<landed, pulls, records, sawEmpty, pull>>
    BY <1>5 DEF Fail, pushVars, repoVars
  <2>2. Rest(c, "refused") \/ Rest(c, "failed")
    BY <1>5 DEF Fail
  <2> QED BY <2>1, <2>2 DEF Rest, TypeOK
<1>6. CASE LoseAnswer(c)
  <2>1. landed \subseteq landed' /\ (pulls => pulls')
    BY <1>6 DEF LoseAnswer, Effect, PointTo, Created, repoVars
  <2> QED BY <1>6, <2>1 DEF LoseAnswer, Rest, TypeOK
<1>7. CASE Start(c) \/ FetchMetadata(c) \/ CleanUp(c) \/ Evict(c)
  BY <1>7 DEF Start, FetchMetadata, CleanUp, Evict, pushVars, repoVars, Call, Rest, TypeOK
<1>8. CASE Listed(c) \/ Exists(c) \/ CreateRepo(c)
  <2>1. UNCHANGED <<landed, pulls, records, sawEmpty, pull>>
    BY <1>8 DEF Listed, Exists, CreateRepo, NameBranch, Created, pushVars, repoVars
  <2>2. Rest(c, "failed") \/ \E op \in Requests \ {"pull"} : Call(c, op)
    BY <1>8 DEF Listed, Exists, CreateRepo, NameBranch
  <2> QED BY <2>1, <2>2 DEF Call, Rest, TypeOK
<1>9. CASE GetRef(c)
  BY <1>9 DEF GetRef, repoVars, Call, TypeOK
<1> QED BY <1>1, <1>2, <1>3, <1>4, <1>5, <1>6, <1>7, <1>8, <1>9 DEF PushStep

\* The order ref, pull request, record is kept.
LEMMA RefFirstStep == TypeOK /\ RefFirst /\ [Next]_vars => RefFirst'
<1> SUFFICES ASSUME TypeOK, RefFirst, [Next]_vars PROVE RefFirst'
  OBVIOUS
<1> USE DEF RefFirst, PushLanded
<1>1. CASE CacheStep \/ WorldStep \/ UNCHANGED vars
  <2>1. UNCHANGED <<pc, sawEmpty, pull, landed, records, pulls>>
    <3>1. CASE CacheStep
      BY <3>1 DEF CacheStep, Mint, Minted, Unauthorized, Age, callVars, pushVars, repoVars
    <3>2. CASE WorldStep
      BY <3>2 DEF WorldStep, HandleDeleted, EvictDeleted, CallbackFetches, CallbackUpserts,
         UserUninstalls, Uninstall, UserInstalls, Install, OthersCommit,
         tokenVars, callVars, pushVars, repoVars
    <3> QED BY <1>1, <3>1, <3>2 DEF vars, tokenVars, callVars, pushVars, repoVars
  <2> QED BY <2>1
<1>2. ASSUME NEW c \in Clients, PushStep(c) PROVE RefFirst'
  <2>1. \A d \in Clients \ {c} :
          /\ pc'[d] \in {"pull", "recording", "pushed", "recorded"} => d \in landed'
          /\ pc'[d] \in {"recording", "pushed", "recorded"} =>
               sawEmpty'[d] \/ pulls' \/ pull'[d] \in {"failed", "denied"}
    BY <1>2, LandingEffect
  <2>2. /\ pc'[c] \in {"pull", "recording", "pushed", "recorded"} => c \in landed'
        /\ pc'[c] \in {"recording", "pushed", "recorded"} =>
             sawEmpty'[c] \/ pulls' \/ pull'[c] \in {"failed", "denied"}
    BY <1>2, LandingEffect
  <2>3. records' \subseteq landed'
    BY <1>2, LandingEffect
  <2> QED BY <2>1, <2>2, <2>3
<1> QED BY <1>1, <1>2, Steps

------------------------------------------------------------------------------
(* The default branch.                                                     *)

AtTheRefs == {"ref", "createRef", "updateRef", "pull"}

\* What a push step does to the repository and its default branch.
LEMMA RepoEffect ==
  ASSUME TypeOK, RepoFirst, NEW c \in Clients, PushStep(c)
  PROVE  /\ exists => exists'
         /\ pc'[c] \in AtTheRefs => exists'
         /\ \A d \in Clients \ {c} : pc'[d] = pc[d]
         /\ \/ main' = main
            \/ ~exists /\ exists' /\ main' = <<Other>>
            \/ exists /\ ToDefault(c) /\ main' = commit[c]
<1> USE DEF Requests, RepoFirst, AtTheRefs
<1>1. CASE CreateRef(c) \/ UpdateRef(c)
  <2>1. exists' = exists /\ exists /\ (main' = main \/ (ToDefault(c) /\ main' = commit[c]))
    BY <1>1 DEF CreateRef, UpdateRef, Accepted, PointTo, repoVars
  <2>2. \/ \E op \in Requests : Call(c, op)
        \/ \E where \in Places \ Requests : Rest(c, where)
    BY <1>1, CallOrRest DEF PushStep
  <2> QED BY <2>1, <2>2 DEF Call, Rest, TypeOK
<1>2. CASE CreateRepo(c)
  BY <1>2 DEF CreateRepo, NameBranch, Created, Call, Rest, TypeOK, repoVars
<1>3. CASE LoseAnswer(c)
  <2>1. pc'[c] = "failed" /\ \A d \in Clients \ {c} : pc'[d] = pc[d]
    BY <1>3 DEF LoseAnswer, Rest, TypeOK
  <2>2. CASE UNCHANGED <<repoVars, landed>>
    BY <2>1, <2>2 DEF repoVars
  <2>3. CASE Effect(c)
    <3>1. CASE pc[c] \in {"createRef", "updateRef"}
      <4>1. exists /\ (PointTo(c) \/ UNCHANGED <<repoVars, landed>>)
        BY <2>3, <3>1 DEF Effect
      <4> QED BY <2>1, <4>1 DEF PointTo, repoVars
    <3>2. CASE pc[c] \notin {"createRef", "updateRef"}
      <4>1. \/ pulls' = TRUE /\ UNCHANGED <<exists, main, branch, landed>>
            \/ Created /\ ~exists
            \/ UNCHANGED <<repoVars, landed>>
        BY <2>3, <3>2 DEF Effect
      <4> QED BY <2>1, <4>1 DEF Created, repoVars
    <3> QED BY <3>1, <3>2
  <2> QED BY <1>3, <2>2, <2>3 DEF LoseAnswer
<1>4. CASE CreatePull(c) \/ PullDenied(c) \/ Record(c) \/ Fail(c)
  <2>1. UNCHANGED <<exists, main>>
    BY <1>4 DEF CreatePull, PullDenied, Record, Fail, repoVars
  <2>2. \E where \in Places \ Requests : Rest(c, where)
    BY <1>4 DEF CreatePull, PullDenied, Record, Fail, Finish, Places, Ended
  <2> QED BY <2>1, <2>2 DEF Rest, TypeOK
<1>5. CASE Start(c) \/ FetchMetadata(c) \/ CleanUp(c) \/ Evict(c)
  BY <1>5 DEF Start, FetchMetadata, CleanUp, Evict, Call, Rest, TypeOK, repoVars
<1>6. CASE Listed(c) \/ Exists(c)
  BY <1>6 DEF Listed, Exists, NameBranch, Call, Rest, TypeOK, repoVars
<1>7. CASE GetRef(c)
  BY <1>7 DEF GetRef, Accepted, Call, TypeOK, repoVars
<1> QED BY <1>1, <1>2, <1>3, <1>4, <1>5, <1>6, <1>7 DEF PushStep

\* Nobody but a push and other people's commits touches the repository.
LEMMA OthersEffect ==
  ASSUME CacheStep \/ WorldStep \/ UNCHANGED vars
  PROVE  /\ exists' = exists /\ pc' = pc
         /\ main' = main \/ (exists /\ main' = Append(main, Other))
<1>1. CASE CacheStep
  BY <1>1 DEF CacheStep, Mint, Minted, Unauthorized, Age, callVars, repoVars
<1>2. CASE WorldStep
  BY <1>2 DEF WorldStep, HandleDeleted, EvictDeleted, CallbackFetches, CallbackUpserts,
     UserUninstalls, Uninstall, UserInstalls, Install, OthersCommit, tokenVars, callVars, repoVars
<1> QED BY <1>1, <1>2 DEF vars, tokenVars, callVars, repoVars

\* Refs stay with repositories that exist.
LEMMA RepoFirstStep == TypeOK /\ RepoFirst /\ [Next]_vars => RepoFirst'
<1> SUFFICES ASSUME TypeOK, RepoFirst, [Next]_vars PROVE RepoFirst'
  OBVIOUS
<1>1. CASE CacheStep \/ WorldStep \/ UNCHANGED vars
  BY <1>1, OthersEffect DEF RepoFirst
<1>2. ASSUME NEW c \in Clients, PushStep(c) PROVE RepoFirst'
  BY <1>2, RepoEffect DEF RepoFirst, AtTheRefs
<1> QED BY <1>1, <1>2, Steps

\* A history is a prefix of itself and of what is committed on top of it, and no
\* history at all is a prefix of any.
LEMMA PrefixFacts ==
  ASSUME NEW h \in Histories, NEW a \in Clients \cup {Other}
  PROVE  /\ IsPrefix(h, h) /\ IsPrefix(h, Append(h, a))
         /\ IsPrefix(NoRef, h)
<1> USE DEF Histories, IsPrefix
<1>1. SubSeq(h, 1, Len(h)) = h
  BY SubSeqFull
<1>2. SubSeq(Append(h, a), 1, Len(h)) = h
  <2>1. Append(h, a) = h \o <<a>> /\ <<a>> \in Seq(Clients \cup {Other})
    BY AppendIsConcat
  <2>2. CASE h = <<>>
    BY <2>2, SubSeqEmpty
  <2>3. CASE h # <<>>
    <3>1. 1 \in 1 .. Len(h) /\ Len(h) \in 1 .. Len(h)
      BY <2>3
    <3> QED BY <1>1, <2>1, <3>1, SubSeqOfConcat1
  <2> QED BY <2>2, <2>3
<1>3. SubSeq(NoRef, 1, Len(NoRef)) = SubSeq(h, 1, Len(NoRef))
  BY SubSeqEmpty DEF NoRef
<1> QED BY <1>1, <1>2, <1>3 DEF NoRef

------------------------------------------------------------------------------
\* The invariant is inductive.
LEMMA InvStep == IInv /\ [Next]_vars => IInv'
BY TypeStep, ForcedIsFreshStep, RefFirstStep, RepoFirstStep DEF IInv

\* The inductive invariant holds throughout.
THEOREM InvAlways == Spec => []IInv
BY InitIInv, InvStep, PTL DEF Spec

\* Every state of the pushes, the cached tokens and the installation is well typed.
THEOREM TypeCorrect == Spec => []TypeOK
<1>1. IInv => TypeOK
  BY DEF IInv
<1> QED BY <1>1, InvAlways, PTL

\* However many tasks share a cache and however often the App comes and goes: a push
\* is refused only if the App was uninstalled during the refused request.
THEOREM DeniedCorrect == Spec => []DeniedOnlyIfRevoked
<1>1. IInv => DeniedOnlyIfRevoked
  BY DEF IInv, ForcedIsFresh
<1> QED BY <1>1, InvAlways, PTL

\* A push reports success, and is recorded, only after its commit has landed and
\* a pull request is there, unless POST /pulls failed or had nothing to compare with.
THEOREM LandedCorrect == Spec => []PushLanded
<1>1. IInv => PushLanded
  BY DEF IInv, RefFirst
<1> QED BY <1>1, InvAlways, PTL

\* The default branch only grows, but for the steps of pushes that found the
\* repository empty or were asked for the default branch.
THEOREM DefaultCorrect == Spec => DefaultUntouched
<1> DEFINE Sent == \E c \in Clients : ToDefault(c) /\ main' = commit[c]
<1>1. ASSUME IInv, [Next]_vars PROVE IsPrefix(main, main') \/ Sent
  <2>1. main \in Histories
    BY <1>1 DEF IInv, TypeOK
  <2>2. <<Other>> \in Histories /\ Other \in Clients \cup {Other}
    BY DEF Histories
  <2>3. CASE CacheStep \/ WorldStep \/ UNCHANGED vars
    BY <2>1, <2>2, <2>3, OthersEffect, PrefixFacts
  <2>4. ASSUME NEW c \in Clients, PushStep(c) PROVE IsPrefix(main, main') \/ Sent
    <3>1. main' = main \/ (main = NoRef /\ main' = <<Other>>) \/ Sent
      BY <1>1, <2>4, RepoEffect DEF IInv, RepoFirst
    <3> QED BY <2>1, <2>2, <3>1, PrefixFacts
  <2> QED BY <1>1, <2>3, <2>4, Steps
<1>2. IInv /\ [Next]_vars => [IsPrefix(main, main') \/ Sent]_vars
  BY <1>1
<1> QED BY <1>2, InvAlways, PTL DEF Spec, DefaultUntouched

==============================================================================
