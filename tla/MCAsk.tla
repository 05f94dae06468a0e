------------------------------- MODULE MCAsk ---------------------------------
(* An instance of Ask for TLC.                                             *)
EXTENDS Ask, TLC

CONSTANTS n, other, c1, c2, c3, c4, d1, d2, d3, t, e1, e2, e3, p1, p2, m1, m2,
          k1, k2, sk, json

FourChunks    == {c1, c2, c3, c4}
ThreeEntities == {e1, e2, e3}
TwoKeys       == {k1, k2}
TwoSecrets    == {sk, json}
OneJson       == {json}

Chunk(ns, d, tags) == [namespace |-> ns, document |-> d, tags |-> tags]

TwoNamespaces == c1 :> Chunk(n, d1, {t}) @@ c2 :> Chunk(n, d1, {})
                 @@ c3 :> Chunk(n, d2, {t}) @@ c4 :> Chunk(other, d3, {t})
Sizes         == c1 :> 2 @@ c2 :> 3 @@ c3 :> 1 @@ c4 :> 1
AllInN        == [e \in ThreeEntities |-> n]

\* The relationships lead away from e2, two of them to e1; each entity has a
\* chunk.
FromTheMiddle == {[src |-> e2, dst |-> e1, kind |-> k] : k \in {"cites", "extends"}}
                 \union {[src |-> e2, dst |-> e3, kind |-> "cites"]}
OneEach       == {<<c1, e1>>, <<c2, e2>>, <<c3, e3>>}

Question == [near |-> {e1, e3}, matches |-> {c3, c4}]

Base == [surface |-> "query", q |-> Question, namespace |-> n, filter |-> {}, mode |-> "hybrid",
         hops |-> 1, top_k |-> 3, weights |-> Equal, llm_provider |-> None, wellformed |-> TRUE,
         sidecar_url |-> TRUE, impl |-> Fallback, chunks |-> <<>>, budget |-> 0]

Queries ==
    {[Base EXCEPT !.mode = "graph", !.hops = h] : h \in 0..2}
    \union {Base, [Base EXCEPT !.mode = "graph", !.hops = 2, !.filter = {t}, !.top_k = 1],
            [Base EXCEPT !.mode = "vector", !.namespace = other], [Base EXCEPT !.mode = "bm25", !.top_k = 0],
            [Base EXCEPT !.mode = "smart"], [Base EXCEPT !.top_k = -1],
            [Base EXCEPT !.filter = {t}, !.weights = [vec |-> 2, bm25 |-> 0, graph |-> -1]]}

Ask1 == [Base EXCEPT !.filter = {t}, !.top_k = 2]

Asks ==
    {[Ask1 EXCEPT !.surface = s, !.llm_provider = p] : s \in {"sql", "http"}, p \in {None, p1}}
    \union {[Ask1 EXCEPT !.surface = "http", !.wellformed = FALSE],
            [Ask1 EXCEPT !.surface = "http", !.namespace = other, !.llm_provider = p2],
            [Ask1 EXCEPT !.surface = "shim"], [Ask1 EXCEPT !.surface = "shim", !.sidecar_url = FALSE]}

\* A large second chunk; one chunk twice; a first one too large; no budget;
\* nothing found.
Libraries ==
    {[Base EXCEPT !.surface = "library", !.chunks = c[1], !.budget = c[2], !.impl = [Fallback EXCEPT !.provider = c[3]]] :
        c \in {<<<<c1, c2, c3>>, 4, "anthropic">>, <<<<c3, c3>>, 2, "ollama">>,
               <<<<c2>>, 2, "openai">>, <<<<c3>>, 0, "openai">>, <<<<>>, 4, "openai">>}}

AllRequests == Queries \union Asks \union Libraries

Clear(s)         == [secret |-> s, keys |-> <<>>]
Provider(x, kind, p, m, c) == [name |-> x, kind |-> kind, provider |-> p, model |-> m, credential |-> c]

OpenAi    == Provider(p1, "llm", "openai", m1, Clear(sk))
Encrypted == [OpenAi EXCEPT !.credential.keys = <<k1>>]
Embedder  == Provider(p2, "embedding", "onnx", m2, None)
Extractor == Provider(p2, "llm", "mock-extractor", m2, Clear(json))
Mocked    == Provider(p2, "llm", "mock", None, Clear(sk))

Rows == {Encrypted, Extractor}

Db(rows, default, b, key, eager) ==
    [providers |-> rows, namespaces |-> n :> [llm_provider |-> default, budget |-> b],
     stored |-> FourChunks, master_key |-> key, eager |-> eager]

\* Without an eager pg_net the shim waits until it is cancelled.
Starts == {Db(<<>>, None, None, "unset", TRUE),
           Db(<<Embedder, Encrypted>>, None, 2, k1, TRUE),
           Db(<<Mocked, OpenAi>>, p1, NotANumber, "refused", FALSE)}

NewSettings == {[name |-> n, llm_provider |-> p2, budget |-> 2]}
KeyFiles    == {k2, "unset"}

AllFields == {"choices[0].message.content", "content[]", "text block", "response"}
SomeResponses ==
    {[status |-> 200, fields |-> AllFields], [status |-> 200, fields |-> {}]}
    \union {[status |-> 200, fields |-> {"content[]", "response"}]}
    \union {[status |-> s, fields |-> {}] : s \in {0, 401, 429, 503}}

\* A number of no block, a repeated one, two out of order.
SomeAnswers == {<<3, 1, 1>>, <<2, 1>>}
TwoWaits    == <<1, 2>>
=============================================================================
