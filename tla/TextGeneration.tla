--------------------------- MODULE TextGeneration ---------------------------
(***************************************************************************)
(* How a text is obtained from a language model (app/llm/text_generation.py*)
(* for the verifier, the drafts and the duplicate check; app/chat for the  *)
(* reply to a conversation): a chain of providers, at most two POSTs to    *)
(* each, and a trace of the POSTs made.  Synchronous and asynchronous      *)
(* variants are the same function here.                                    *)
(*                                                                         *)
(* A world is what the providers would answer: for each of them the        *)
(* outcomes of a first and of a second POST.  "busy" is 429 or 503,        *)
(* "slow" a ReadTimeout, "broken" any other failure, "empty" a readable    *)
(* body without text and "unreadable" a 200 without the expected fields.   *)
(***************************************************************************)
EXTENDS Naturals, Sequences, FiniteSets, SequencesExt

Providers == {"groq", "gemini", "ollama"}
Outcomes == {"text", "busy", "slow", "broken", "empty", "unreadable"}

\* A call that names no model, one of the caller's choice, or the provider's
\* own default, which every provider after the first is asked for.
NoModel == "default"

(***************************************************************************)
(* app/llm                                                                 *)
(***************************************************************************)

\* _has_usable_api_key: a placeholder counts as no key; Ollama needs none.
Usable(keys, p) == p = "ollama" \/ p \in keys

Keyed(keys, p) == IF Usable(keys, p) THEN <<p>> ELSE <<>>

\* _build_attempt_chain: a preference for Ollama leaves no fallback.
Chain(preferred, keys) ==
    CASE preferred = "groq" -> Keyed(keys, "groq") \o Keyed(keys, "gemini") \o <<"ollama">>
      [] preferred = "gemini" -> Keyed(keys, "gemini") \o Keyed(keys, "groq") \o <<"ollama">>
      [] OTHER -> <<"ollama">>

\* A caller in a hurry retries as well.  (Used by a mutant.)
AttemptsAlways(p, fast) == IF p = "ollama" THEN 1 ELSE 2

\* max_attempts of the three callers; only Groq and Gemini have a loop.
Attempts(p, fast) == IF p = "ollama" \/ fast THEN 1 ELSE 2

Retriable(outcome) == outcome \in {"busy", "slow"}

\* _call_groq, _call_gemini, _call_ollama: the outcomes of the POSTs to p.  The
\* last attempt is never repeated, whatever it gives.
Call(world, p, fast) ==
    IF Attempts(p, fast) = 2 /\ Retriable(world[p][1])
    THEN <<world[p][1], world[p][2]>> ELSE <<world[p][1]>>

Got(outcomes) == Last(outcomes) = "text"

Posts(p, model, outcomes) ==
    [i \in DOMAIN outcomes |->
        [provider |-> p, model |-> model, outcome |-> outcomes[i]]]

\* One turn of the loop in generate_text: a provider that raises is logged and
\* passed over, the first text ends the loop.
TryProvider(world, chain, model, fast, soFar, idx) ==
    LET p == chain[idx]
        outcomes == Call(world, p, fast)
    IN  IF soFar.result # "none" THEN soFar
        ELSE [ posts |-> soFar.posts
                   \o Posts(p, IF idx = 1 THEN model ELSE NoModel, outcomes),
               result |-> IF Got(outcomes) THEN p ELSE "none",
               fallback |-> Got(outcomes) /\ idx > 1 ]

Untried == [posts |-> <<>>, result |-> "none", fallback |-> FALSE]

\* generate_text_sync, generate_text_async; "none" is the RuntimeError.
GenerateText(world, preferred, keys, model, fast) ==
    LET chain == Chain(preferred, keys)
        tried[i \in 0..Len(chain)] ==
            IF i = 0 THEN Untried
            ELSE TryProvider(world, chain, model, fast, tried[i - 1], i)
    IN  tried[Len(chain)]

(***************************************************************************)
(* app/chat                                                                *)
(***************************************************************************)

\* What the three generate() return without raising.  Gemini turns a body it
\* cannot read into an apology, and it and Ollama return an empty text.
Returns(p, outcome) ==
    \/ outcome = "text"
    \/ outcome = "empty" /\ p # "groq"
    \/ outcome = "unreadable" /\ p # "groq"

\* _resolve_model_route: a model whose name tells its provider, or "plain".
Route(names, primary) == IF names \in Providers THEN names ELSE primary

\* fallback_order
Others(p) ==
    CASE p = "groq" -> <<"gemini", "ollama">>
      [] p = "gemini" -> <<"groq", "ollama">>
      [] OTHER -> <<"groq", "gemini">>

\* The chain of generate_reply: chosen, then primary, then the fallbacks that are left.
ReplyChain(names, primary) ==
    LET chosen == Route(names, primary)
    IN  IF chosen = primary THEN <<primary>> \o Others(primary)
        ELSE <<chosen, primary, CHOOSE p \in Providers : p \notin {chosen, primary}>>

Askable(keys, p) == p # "groq" \/ p \in keys

\* One turn of generate_reply's loop: a single POST, to Groq only with a key.
AskProvider(world, chain, model, keys, soFar, idx) ==
    LET p == chain[idx]
        asked == Askable(keys, p)
        post == [provider |-> p, model |-> IF idx = 1 THEN model ELSE NoModel,
                 outcome |-> world[p][1]]
    IN  IF soFar.result # "none" THEN soFar
        ELSE [ posts |-> IF asked THEN Append(soFar.posts, post) ELSE soFar.posts,
               result |-> IF asked /\ Returns(p, world[p][1]) THEN p ELSE "none",
               fallback |-> FALSE ]

\* ChatService.generate_reply; "none" is "Service temporarily unavailable.".
GenerateReply(world, names, primary, keys) ==
    LET chain == ReplyChain(names, primary)
        tried[i \in 0..Len(chain)] ==
            IF i = 0 THEN Untried
            ELSE AskProvider(world, chain, names, keys, tried[i - 1], i)
    IN  tried[Len(chain)]

-----------------------------------------------------------------------------
(***************************************************************************)
(* What a caller may rely on                                               *)
(***************************************************************************)

PostsTo(r, p) == {i \in 1..Len(r.posts) : r.posts[i].provider = p}

\* Each provider's POSTs form one block, each but the last of a block failed for
\* a reason worth a retry, and nothing is sent once a text has come.
Orderly(r) ==
    \A i \in 1..Len(r.posts) - 1 :
        /\ r.posts[i].outcome # "text"
        /\ r.posts[i].provider = r.posts[i + 1].provider
              => Retriable(r.posts[i].outcome)
        /\ r.posts[i].provider # r.posts[i + 1].provider
              => \A j \in i + 1..Len(r.posts) :
                    r.posts[j].provider # r.posts[i].provider

\* The provider p was asked and failed for good.
FailedForGood(r, p, fast) ==
    \E i \in PostsTo(r, p) :
        /\ \A j \in PostsTo(r, p) : j <= i
        /\ r.posts[i].outcome # "text"
        /\ \/ fast \/ p = "ollama" \/ PostsTo(r, p) # {i}
           \/ ~Retriable(r.posts[i].outcome)

\* No more than one provider is asked for the model.
AskedOnceFor(r, model) ==
    \A i, j \in 1..Len(r.posts) :
        r.posts[i].model = model /\ r.posts[j].model = model
           => r.posts[i].provider = r.posts[j].provider

TextAsPromised(world, preferred, keys, fast) ==
    LET r == GenerateText(world, preferred, keys, "named", fast) IN
    /\ Orderly(r)
    /\ \A p \in Providers :
         /\ Cardinality(PostsTo(r, p)) <= (IF fast THEN 1 ELSE 2)
         /\ PostsTo(r, p) # {} => Usable(keys, p)
    /\ r.result = "none" =>
         \A p \in ToSet(Chain(preferred, keys)) : FailedForGood(r, p, fast)
    /\ r.result # "none" => Last(r.posts).provider = r.result
    /\ AskedOnceFor(r, "named")

\* The reply fails only when no provider that can be asked returns anything.
ReplyAsPromised(world, names, primary, keys) ==
    LET r == GenerateReply(world, names, primary, keys) IN
    /\ Orderly(r)
    /\ \A p \in Providers : Cardinality(PostsTo(r, p)) <= 1
    /\ \A i \in 1..Len(r.posts) :
         names \in Providers /\ r.posts[i].model = names
            => r.posts[i].provider = names
    /\ r.result = "none" <=>
         \A p \in Providers : Askable(keys, p) => ~Returns(p, world[p][1])
=============================================================================
