------------------------------ MODULE GitHubPush ------------------------------
(***************************************************************************)
(* Pushing a result to GitHub: push_files_as_branch (app/github_app.py) as *)
(* the API calls it for a project (app/api.py, github_push) and the worker *)
(* for a repository task (app/activities.py, push_repo_changes_activity),  *)
(* with the installation's row, its webhook and its callback.              *)
(*                                                                         *)
(* The clients push to one repository and ask for one branch of their own, *)
(* or, as the API lets a user do, for the default branch: they are the     *)
(* attempts of one activity, which overlap when the heartbeat is late, or  *)
(* requests of one user.  A commit is the history it ends, a sequence of   *)
(* authors.  The requests that reach no ref (the base commit, blobs, the   *)
(* tree, the commit) count as the one that reads the default branch.       *)
(***************************************************************************)
EXTENDS TokenCache, Sequences, SequencesExt

CONSTANT
  MaxOthers   \* bound on the commits other people make on the default branch

ASSUME MaxOthersAssumption == MaxOthers \in Nat

Other == "other"
NoRef == <<>>            \* a ref that does not exist
Histories == Seq(Clients \cup {Other})

VARIABLES
  exists,     \* is there a repository?
  main,       \* the default branch
  branch,     \* the branch asked for
  pulls,      \* is there a pull request from branch to main?
  asked,      \* client -> which branch it names: "branch" or "default"
  sawEmpty,   \* client -> is_empty_repo
  commit,     \* client -> its new commit
  pull,       \* client -> how POST /pulls failed, if it did
  landed,     \* history: clients whose commit a ref has pointed to
  records,    \* clients with a row in github_pushes
  row,        \* the installation's row in Postgres
  evicting,   \* has the row been deleted and the token not been evicted?
  callback    \* GET /github/callback: "none", "redirect", "fetched"

repoVars == <<exists, main, branch, pulls>>
pushVars == <<asked, sawEmpty, commit, pull, landed, records>>
rowVars == <<row, evicting, callback>>
tokenVars == <<proc, installVars, cache, callVars>>
vars == <<tokenVars, repoVars, pushVars, rowVars>>

Requests == {"list", "exists", "create", "ref", "createRef", "updateRef", "pull"}
Ended == {"pushed", "recorded", "failed", "refused"}
Places == {"idle", "meta", "cleaning", "evicting", "recording"} \cup Requests \cup Ended

TypeOK ==
  /\ proc \in [Clients -> Procs]
  /\ installs \in Tokens /\ alive \in BOOLEAN
  /\ cache \in [Procs -> Tokens \cup {None}]
  /\ pc \in [Clients -> Places]
  /\ stage \in [Clients -> Rounds \cup {"none"}]
  /\ tok \in [Clients -> Tokens \cup {None}]
  /\ \A c \in Clients : stage[c] \in Rounds <=> pc[c] \in Requests
  /\ \A c \in Clients : stage[c] \in {"minted", "reminted", "send", "resend"} <=> tok[c] # None
  /\ revoked \in [Clients -> BOOLEAN]
  /\ exists \in BOOLEAN
  /\ {main, branch} \subseteq Histories /\ pulls \in BOOLEAN
  /\ asked \in [Clients -> {"branch", "default"}]
  /\ sawEmpty \in [Clients -> BOOLEAN]
  /\ commit \in [Clients -> Histories]
  /\ pull \in [Clients -> {"none", "failed", "denied"}]
  /\ landed \subseteq Clients /\ records \subseteq Clients
  /\ row \in BOOLEAN
  /\ evicting \in BOOLEAN
  /\ callback \in {"none", "redirect", "fetched"}

\* The App is installed and known; the repository has a commit, or is empty,
\* or is still to be created.
Init ==
  /\ proc \in [Clients -> Procs]
  /\ installs = 1 /\ alive = TRUE
  /\ cache = [p \in Procs |-> None]
  /\ pc = [c \in Clients |-> "idle"]
  /\ stage = [c \in Clients |-> "none"]
  /\ tok = [c \in Clients |-> None]
  /\ revoked = [c \in Clients |-> FALSE]
  /\ exists \in BOOLEAN
  /\ main \in IF exists THEN {NoRef, <<Other>>} ELSE {NoRef}
  /\ branch = NoRef /\ pulls = FALSE
  /\ asked = [c \in Clients |-> "branch"]
  /\ sawEmpty = [c \in Clients |-> FALSE]
  /\ commit = [c \in Clients |-> NoRef]
  /\ pull = [c \in Clients |-> "none"]
  /\ landed = {} /\ records = {}
  /\ row = TRUE /\ evicting = FALSE /\ callback = "none"

------------------------------------------------------------------------------
(* Before the push: the API and the worker find out whether they may.      *)

\* The row is read.  The API goes on to ask GitHub as the App, without a
\* token; the worker lists the repositories of the installation.
Start(c) ==
  /\ pc[c] = "idle"
  /\ \/ ~row /\ Rest(c, "failed")
     \/ row /\ proc[c] = "api" /\ Rest(c, "meta")
     \/ row /\ proc[c] # "api" /\ Call(c, "list")
  /\ UNCHANGED <<proc, installVars, cache, repoVars, pushVars, rowVars>>

\* fetch_installation_metadata: 404 means uninstalled.
FetchMetadata(c) ==
  /\ pc[c] = "meta"
  /\ IF alive THEN Call(c, "exists") ELSE Rest(c, "cleaning")
  /\ UNCHANGED <<proc, installVars, cache, repoVars, pushVars, rowVars>>

\* The API deletes the row, evicts its token and answers 410.
CleanUp(c) ==
  /\ pc[c] = "cleaning"
  /\ row' = FALSE /\ Rest(c, "evicting")
  /\ UNCHANGED <<proc, installVars, cache, repoVars, pushVars, evicting, callback>>

Evict(c) ==
  /\ pc[c] = "evicting"
  /\ cache' = [cache EXCEPT ![proc[c]] = None]
  /\ Rest(c, "failed")
  /\ UNCHANGED <<proc, installVars, repoVars, pushVars, rowVars>>

\* The worker finds the repository in the installation's list.
Listed(c) ==
  /\ Accepted(c, "list")
  /\ IF exists THEN Call(c, "ref") ELSE Rest(c, "failed")
  /\ UNCHANGED <<proc, installVars, cache, repoVars, pushVars, rowVars>>

\* The API takes any well-formed name, the default branch's too; without one it
\* makes up a name of its own, as the worker always does.
NameBranch(c) ==
  /\ Call(c, "ref")
  /\ \E b \in {"branch", "default"} : asked' = [asked EXCEPT ![c] = b]

\* repo_exists decides which permissions the preflight asks for, of those the
\* installation has: a missing repository is created if the account and the
\* request allow it too.
Exists(c) ==
  /\ Accepted(c, "exists")
  /\ \/ exists /\ NameBranch(c)
     \/ ~exists /\ Call(c, "create") /\ UNCHANGED asked
     \/ Rest(c, "failed") /\ UNCHANGED asked
  /\ UNCHANGED <<proc, installVars, cache, repoVars, sawEmpty, commit, pull, landed, records, rowVars>>

\* The repository comes into being with a first commit (auto_init).
Created ==
  /\ exists' = TRUE /\ main' = <<Other>>
  /\ UNCHANGED <<branch, pulls>>

\* create_org_repo; then the branch's name is looked at, and may be malformed.
CreateRepo(c) ==
  /\ Accepted(c, "create")
  /\ \/ ~exists /\ Created /\ NameBranch(c)
     \/ ~exists /\ Created /\ Rest(c, "failed") /\ UNCHANGED asked
     \/ exists /\ Rest(c, "failed") /\ UNCHANGED <<repoVars, asked>>
  /\ UNCHANGED <<proc, installVars, cache, sawEmpty, commit, pull, landed, records, rowVars>>

------------------------------------------------------------------------------
(* push_files_as_branch.                                                   *)

\* GET of the repository and of its default branch: 409 if there is none.  The
\* blobs, the tree and the commit made next reach no ref and are part of this.
GetRef(c) ==
  /\ Accepted(c, "ref")
  /\ sawEmpty' = [sawEmpty EXCEPT ![c] = main = NoRef]
  /\ commit' = [commit EXCEPT ![c] = Append(main, c)]
  /\ Call(c, "createRef")
  /\ UNCHANGED <<proc, installVars, cache, repoVars, asked, pull, landed, records, rowVars>>

\* Is target_branch the default branch?
ToDefault(c) == sawEmpty[c] \/ asked[c] = "default"

\* target_branch
Target(c) == IF ToDefault(c) THEN main ELSE branch

\* Mutant of PointTo: every push goes to the default branch.
PointToMain(c) ==
  /\ main' = commit[c]
  /\ landed' = landed \cup {c}
  /\ UNCHANGED <<exists, branch, pulls>>

\* The target ref is set to c's commit.
PointTo(c) ==
  /\ IF ToDefault(c) THEN main' = commit[c] /\ UNCHANGED branch
                     ELSE branch' = commit[c] /\ UNCHANGED main
  /\ landed' = landed \cup {c}
  /\ UNCHANGED <<exists, pulls>>

\* The push is done; the API still records it.
Finish(c) == Rest(c, IF proc[c] = "api" THEN "recording" ELSE "pushed")

\* What follows the ref: a pull request (open_pr, as by default) unless the repository was empty.
AfterRef(c) == IF sawEmpty[c] THEN Finish(c) ELSE Call(c, "pull")

\* Mutant of CreateRef: the 422 of an existing branch is taken for success.
CreateRefOrNot(c) ==
  /\ Accepted(c, "createRef")
  /\ IF Target(c) = NoRef THEN PointTo(c) ELSE UNCHANGED <<repoVars, landed>>
  /\ AfterRef(c)
  /\ UNCHANGED <<proc, installVars, cache, asked, sawEmpty, commit, pull, records, rowVars>>

\* POST /git/refs: 201 if the ref is new, 422 if it exists.
CreateRef(c) ==
  /\ Accepted(c, "createRef")
  /\ \/ Target(c) = NoRef /\ PointTo(c) /\ AfterRef(c)
     \/ Target(c) # NoRef /\ Call(c, "updateRef") /\ UNCHANGED <<repoVars, landed>>
  /\ UNCHANGED <<proc, installVars, cache, asked, sawEmpty, commit, pull, records, rowVars>>

\* PATCH with force: whatever the ref pointed to.
UpdateRef(c) ==
  /\ Accepted(c, "updateRef")
  /\ PointTo(c)
  /\ AfterRef(c)
  /\ UNCHANGED <<proc, installVars, cache, asked, sawEmpty, commit, pull, records, rowVars>>

\* POST /pulls: 201, or 422 because an earlier attempt opened it; or another
\* failure (head is base, no rights, GitHub is down).  All are only logged.
CreatePull(c) ==
  /\ Accepted(c, "pull")
  /\ \/ ~ToDefault(c) /\ pulls' = TRUE /\ pull' = pull
     \/ pulls' = pulls /\ pull' = [pull EXCEPT ![c] = "failed"]
  /\ Finish(c)
  /\ UNCHANGED <<proc, installVars, cache, exists, main, branch, asked, sawEmpty, commit, landed, records, rowVars>>

PullDenied(c) ==
  /\ Denied(c, "pull")
  /\ pull' = [pull EXCEPT ![c] = "denied"]
  /\ Finish(c)
  /\ UNCHANGED <<proc, installVars, cache, repoVars, asked, sawEmpty, commit, landed, records, rowVars>>

\* record_github_push, the API only.
Record(c) ==
  /\ pc[c] = "recording"
  /\ records' = records \cup {c}
  /\ Rest(c, "recorded")
  /\ UNCHANGED <<proc, installVars, cache, repoVars, asked, sawEmpty, commit, pull, landed, rowVars>>

\* A second 401 or a failed mint ends the push.
Fail(c) ==
  /\ \/ \E op \in Requests \ {"pull"} : Denied(c, op) /\ Rest(c, "refused")
     \/ \E op \in Requests : MintFails(c, op) /\ Rest(c, "failed")
  /\ UNCHANGED <<proc, installVars, cache, repoVars, pushVars, rowVars>>

\* What c's request changes on GitHub's side.
Effect(c) ==
  CASE pc[c] = "createRef" /\ Target(c) = NoRef -> PointTo(c)
    [] pc[c] = "updateRef" -> PointTo(c)
    [] pc[c] = "pull" /\ ~ToDefault(c) -> pulls' = TRUE /\ UNCHANGED <<exists, main, branch, landed>>
    [] pc[c] = "create" /\ ~exists -> Created /\ UNCHANGED landed
    [] OTHER -> UNCHANGED <<repoVars, landed>>

\* A request or its answer does not arrive, and httpx raises; or it is
\* answered by an error of GitHub's own.  The push ends; whether it is
\* repeated is the caller's affair.
LoseAnswer(c) ==
  /\ \E op \in Requests : Accepted(c, op)
  /\ Effect(c) \/ UNCHANGED <<repoVars, landed>>
  /\ Rest(c, "failed")
  /\ UNCHANGED <<proc, installVars, cache, asked, sawEmpty, commit, pull, records, rowVars>>

------------------------------------------------------------------------------
(* The installation's row.                                                 *)

\* installation.deleted, delivered late, twice or never, or a user's DELETE of
\* a stale row: the row goes, and then the API's cached token.
HandleDeleted ==
  /\ ~alive \/ installs > 1
  /\ row' = FALSE /\ evicting' = TRUE
  /\ UNCHANGED <<tokenVars, repoVars, pushVars, callback>>

EvictDeleted ==
  /\ evicting /\ evicting' = FALSE
  /\ cache' = [p \in Procs |-> IF p = "api" THEN None ELSE cache[p]]
  /\ UNCHANGED <<proc, installVars, callVars, repoVars, pushVars, row, callback>>

\* github_callback: the metadata is fetched, then the row is written.
CallbackFetches ==
  /\ callback = "redirect"
  /\ callback' = IF alive THEN "fetched" ELSE "none"
  /\ UNCHANGED <<tokenVars, repoVars, pushVars, row, evicting>>

CallbackUpserts ==
  /\ callback = "fetched" /\ callback' = "none"
  /\ row' = TRUE
  /\ UNCHANGED <<tokenVars, repoVars, pushVars, evicting>>

------------------------------------------------------------------------------
(* The world.                                                              *)

UserUninstalls ==
  /\ Uninstall
  /\ UNCHANGED <<repoVars, pushVars, row, evicting, callback>>

UserInstalls ==
  /\ Install
  /\ callback' = "redirect"
  /\ UNCHANGED <<repoVars, pushVars, row, evicting>>

OthersCommit ==
  /\ exists
  /\ Len(SelectSeq(main, LAMBDA a : a = Other)) < MaxOthers
  /\ main' = Append(main, Other)
  /\ UNCHANGED <<tokenVars, exists, branch, pulls, pushVars, rowVars>>

CacheStep ==
  /\ \/ \E c \in Clients : Mint(c) \/ Minted(c) \/ Unauthorized(c)
     \/ \E p \in Procs : Age(p)
  /\ UNCHANGED <<repoVars, pushVars, rowVars>>

PushStep(c) ==
  \/ Start(c) \/ FetchMetadata(c) \/ CleanUp(c) \/ Evict(c) \/ Listed(c) \/ Exists(c) \/ CreateRepo(c)
  \/ GetRef(c) \/ CreateRef(c) \/ UpdateRef(c)
  \/ CreatePull(c) \/ PullDenied(c) \/ Record(c) \/ Fail(c) \/ LoseAnswer(c)

Next ==
  \/ CacheStep
  \/ \E c \in Clients : PushStep(c)
  \/ HandleDeleted \/ EvictDeleted \/ CallbackFetches \/ CallbackUpserts
  \/ UserUninstalls \/ UserInstalls \/ OthersCommit

Spec == Init /\ [][Next]_vars

------------------------------------------------------------------------------
(* Properties.                                                             *)

\* One retry is enough: a push is refused by a 401 only if the App was
\* uninstalled after the very token that was refused had been minted for it,
\* whatever dead tokens other tasks of the process cached meanwhile.
DeniedOnlyIfRevoked ==
  \A c \in Clients : pc[c] = "refused" \/ pull[c] = "denied" => revoked[c]

\* A push that reports success, and a row in github_pushes, has put its commit
\* where it says.  A reviewer then finds a pull request, be it one that an
\* earlier attempt opened whose answer was lost, unless there was nothing to
\* compare with or POST /pulls itself failed, which the code only logs.
PushLanded ==
  /\ records \subseteq landed
  /\ \A c \in Clients : pc[c] \in {"pushed", "recorded"} =>
       /\ c \in landed
       /\ sawEmpty[c] \/ pulls \/ pull[c] \in {"failed", "denied"}

\* The default branch only grows, however attempts overlap and repeat, but for
\* the very step in which a push that found the repository empty, or was asked
\* for the default branch by name, puts its own commit there.
DefaultUntouched ==
  [][IsPrefix(main, main') \/ \E c \in Clients : ToDefault(c) /\ main' = commit[c]]_vars

\* What github_app.py says of its forced update, "Only possible for non-empty
\* repos": as long as nobody asks for the default branch by name, it never
\* loses a commit.
DefaultNeverRewritten ==
  [][(\A c \in Clients : asked[c] = "branch") => IsPrefix(main, main')]_vars
==============================================================================
