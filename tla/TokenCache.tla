------------------------------ MODULE TokenCache ------------------------------
(***************************************************************************)
(* Authenticated requests of the GitHub App (app/github_app.py): each      *)
(* process caches an installation token; a request answered 401 evicts it, *)
(* mints by force and is sent once more.                                   *)
(*                                                                         *)
(* asyncio runs a task without interruption from one await to the next, so *)
(* the answer to one request and the look into the cache for the next one  *)
(* are one step.  A mint is two: GitHub makes the token, and later its     *)
(* answer reaches the process, which caches it.                            *)
(***************************************************************************)
EXTENDS Integers

CONSTANTS
  Clients,     \* tasks that push: attempts of the activity, requests to the API
  Procs,       \* the processes they run in, each with a _token_cache of its own
  MaxInstalls  \* bound on how often the App is installed

ASSUME MaxInstallsAssumption == MaxInstalls \in Nat \ {0}

None == 0
Tokens == 1 .. MaxInstalls      \* a token is known by the installation it is of

VARIABLES
  proc,      \* client -> the process it runs in
  installs,  \* how often the App has been installed
  alive,     \* is it installed now?
  cache,     \* process -> the token in _token_cache, None if absent or too old
  pc,        \* client -> the request it makes, or how it ended
  stage,     \* client -> how far _authed_request is with that request
  tok,       \* client -> the token of that request
  revoked    \* history: has the App been uninstalled since the request's forced mint?

installVars == <<installs, alive>>
callVars == <<pc, stage, tok, revoked>>

\* _authed_request waits for: a mint, its answer, the request's answer, and
\* the same again for the forced round.
Rounds == {"mint", "minted", "send", "remint", "reminted", "resend"}

Valid(t) == alive /\ t = installs
Cached(c) == cache[proc[c]]

\* Mutant of Call: the cache is not looked into before the request is sent.
CallUnchecked(c, op) ==
  /\ pc' = [pc EXCEPT ![c] = op]
  /\ stage' = [stage EXCEPT ![c] = "send"]
  /\ tok' = [tok EXCEPT ![c] = Cached(c)]
  /\ revoked' = [revoked EXCEPT ![c] = FALSE]

\* c begins request `op`.
Call(c, op) ==
  /\ pc' = [pc EXCEPT ![c] = op]
  /\ stage' = [stage EXCEPT ![c] = IF Cached(c) = None THEN "mint" ELSE "send"]
  /\ tok' = [tok EXCEPT ![c] = Cached(c)]
  /\ revoked' = [revoked EXCEPT ![c] = FALSE]

\* c waits for something else than an authenticated request, or has ended.
Rest(c, where) ==
  /\ pc' = [pc EXCEPT ![c] = where]
  /\ stage' = [stage EXCEPT ![c] = "none"]
  /\ tok' = [tok EXCEPT ![c] = None]
  /\ UNCHANGED revoked

------------------------------------------------------------------------------
(* get_installation_token.                                                 *)

\* GitHub makes a token of the present installation.
Mint(c) ==
  /\ stage[c] \in {"mint", "remint"} /\ alive
  /\ stage' = [stage EXCEPT ![c] = IF @ = "mint" THEN "minted" ELSE "reminted"]
  /\ tok' = [tok EXCEPT ![c] = installs]
  /\ UNCHANGED <<proc, installVars, cache, pc, revoked>>

\* The token arrives; the request is sent with it.
Minted(c) ==
  /\ stage[c] \in {"minted", "reminted"}
  /\ cache' = [cache EXCEPT ![proc[c]] = tok[c]]
  /\ stage' = [stage EXCEPT ![c] = IF @ = "minted" THEN "send" ELSE "resend"]
  /\ UNCHANGED <<proc, installVars, pc, tok, revoked>>

\* An entry comes within a minute of expires_at.
Age(p) ==
  /\ cache[p] # None
  /\ cache' = [cache EXCEPT ![p] = None]
  /\ UNCHANGED <<proc, installVars, callVars>>

------------------------------------------------------------------------------
(* _authed_request.                                                        *)

Accepted(c, op) == pc[c] = op /\ stage[c] \in {"send", "resend"} /\ Valid(tok[c])

\* Mutant of Unauthorized: the second round is as the first, from the cache.
UnauthorizedRetries(c) ==
  /\ stage[c] = "send" /\ ~Valid(tok[c])
  /\ stage' = [stage EXCEPT ![c] = IF Cached(c) = None THEN "remint" ELSE "resend"]
  /\ tok' = [tok EXCEPT ![c] = Cached(c)]
  /\ UNCHANGED <<proc, installVars, cache, pc, revoked>>

\* The first 401: whatever is cached is evicted, and a mint is forced.
Unauthorized(c) ==
  /\ stage[c] = "send" /\ ~Valid(tok[c])
  /\ cache' = [cache EXCEPT ![proc[c]] = None]
  /\ stage' = [stage EXCEPT ![c] = "remint"]
  /\ tok' = [tok EXCEPT ![c] = None]
  /\ UNCHANGED <<proc, installVars, pc, revoked>>

\* The second 401 is the caller's.
Denied(c, op) == pc[c] = op /\ stage[c] = "resend" /\ ~Valid(tok[c])

\* A mint is answered 404: GitHubAppError.
MintFails(c, op) == pc[c] = op /\ stage[c] \in {"mint", "remint"} /\ ~alive

------------------------------------------------------------------------------
(* The user, on github.com.                                                *)

Uninstall ==
  /\ alive
  /\ alive' = FALSE
  /\ revoked' = [c \in Clients |-> revoked[c] \/ stage[c] \in {"reminted", "resend"}]
  /\ UNCHANGED <<proc, installs, cache, pc, stage, tok>>

Install ==
  /\ ~alive /\ installs < MaxInstalls
  /\ alive' = TRUE /\ installs' = installs + 1
  /\ UNCHANGED <<proc, cache, callVars>>

==============================================================================
