----------------------------- MODULE LlmRouting -----------------------------
(***************************************************************************)
(* Which model answers an agent, and what its failure becomes              *)
(* (app/router.py, agents/runner.py, providers/).                          *)
(*                                                                         *)
(* reply[key] is what a call of the model key comes to: an answer with     *)
(* text, "prose", with an empty one, "blank", or with none, "missing"; or  *)
(* an error of its SDK, by the name of its class and the HTTP status it    *)
(* carries, 0 if none.                                                     *)
(***************************************************************************)
EXTENDS Integers, SequencesExt

Answer(text) == [kind |-> "answer", text |-> text]

Error(name, status) == [kind |-> "error", name |-> name, status |-> status]

ProviderOf ==
    [haiku |-> "anthropic", sonnet |-> "anthropic", opus |-> "anthropic",
     grok |-> "xai", grok_fast |-> "xai", grok_research |-> "xai", gpt54 |-> "openai"]

Keys == DOMAIN ProviderOf

RoleDefaults ==
    [ba |-> "sonnet", architect |-> "opus", se |-> "sonnet", estimator |-> "grok",
     reviewer |-> "opus", researcher |-> "grok_research", documenter |-> "grok_fast",
     coder |-> "haiku"]

Escalation ==
    [haiku |-> "sonnet", sonnet |-> "opus", grok_fast |-> "grok", grok |-> "opus"]

FallbackChain == [anthropic |-> <<"gpt54">>, xai |-> <<"gpt54">>, openai |-> <<>>]

Route(role, complexity) ==
    LET key == RoleDefaults[role]
    IN  IF complexity >= 3 /\ key \in DOMAIN Escalation THEN Escalation[key] ELSE key

(* ROLE_TOOLS: the roles that search the web.                              *)
Grounded == {"researcher", "ba", "architect"}

(* xAI is asked over its chat API unless there are tools.                  *)
Chats(role, key) == ProviderOf[key] = "xai" /\ role \notin Grounded

(* The providers raise an error of their own for an answer without text,   *)
(* but for xAI's chat API, of which an empty text is an answer.            *)
Complete(role, reply, key) ==
    IF \/ reply[key] = Answer("missing")
       \/ reply[key] = Answer("blank") /\ ~Chats(role, key)
    THEN Error("RuntimeError", 0)
    ELSE reply[key]

TransientNames ==
    {"APITimeoutError", "APIConnectionError", "RateLimitError", "InternalServerError",
     "APIStatusError", "TimeoutError", "ReadTimeout", "ConnectTimeout", "ConnectError"}

IsTransient(err) == err.name \in TransientNames \/ err.status >= 500 \/ err.status = 429

(***************************************************************************)
(* _complete_with_fallback: the routed model, then the chain of its        *)
(* provider, as long as the errors are transient; the primary's own error  *)
(* once the chain is exhausted.  asked is who was asked.                   *)
(***************************************************************************)
Attempts(primary) == <<primary>> \o FallbackChain[ProviderOf[primary]]

(* Mutant: the chain is walked after every error. *)
TriesNextAlways(end) == end.kind = "error"

TriesNext(end) == end.kind = "error" /\ IsTransient(end)

CompleteWithFallback(role, primary, reply) ==
    LET tries == Attempts(primary)
        stop  == SelectInSeq(tries, LAMBDA key : ~TriesNext(Complete(role, reply, key)))
    IN  IF stop = 0
        THEN [end |-> reply[primary], by |-> primary, asked |-> ToSet(tries)]
        ELSE [end   |-> Complete(role, reply, tries[stop]),
              by    |-> tries[stop],
              asked |-> {tries[i] : i \in 1..stop}]

----------------------------------------------------------------------------
(* A timeout, a connection that fails, a rate limit or a 5xx: what         *)
(* _is_transient says it takes for transient.                              *)
Unavailable(err) ==
    \/ err.name \in {"APITimeoutError", "APIConnectionError", "TimeoutError", "ReadTimeout",
                     "ConnectTimeout", "ConnectError"}
    \/ err.status = 429 \/ err.status >= 500

(* An answer is charged to the model that gave it, and it is blank only    *)
(* from xAI without tools.  Whoever was asked in vain before was           *)
(* unavailable, or gave a status the SDKs have no class for (402, say,     *)
(* which the docstring of _is_transient does not count): no error of the   *)
(* request or the credentials, and no empty answer, is papered over by     *)
(* another provider.  And an unavailable primary fails a role only if its  *)
(* substitute has no answer, with the primary's own error if that one is   *)
(* unavailable too (_complete_with_fallback, route).                       *)
AnswererChargedFor(role, complexity, reply) ==
    LET primary == Route(role, complexity)
        others  == ToSet(FallbackChain[ProviderOf[primary]])
        result  == CompleteWithFallback(role, primary, reply)
        Down(key) == reply[key].kind = "error" /\ Unavailable(reply[key])
    IN  /\ result.end.kind = "answer" =>
             /\ result.end = reply[result.by]
             /\ \/ result.end.text = "prose"
                \/ result.end.text = "blank" /\ Chats(role, result.by)
        /\ \A key \in result.asked \ {result.by} :
             Down(key) \/ (reply[key].kind = "error" /\ reply[key].name = "APIStatusError")
        /\ Down(primary) /\ result.end.kind = "error" =>
             /\ \A key \in others : reply[key] # Answer("prose")
             /\ (\A key \in others : Down(key)) => result.end = reply[primary]
        /\ \A key \in result.asked \ {primary} : ProviderOf[key] # ProviderOf[primary]
=============================================================================
