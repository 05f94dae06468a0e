------------------------------ MODULE AskProofs ------------------------------
(***************************************************************************)
(* Theorems about Ask, for any stored documents, providers, requests and   *)
(* responses, and any limits of the retries.                               *)
(***************************************************************************)
EXTENDS Ask, RetrievalProofs

\* A handler starts on a clean slate.
Started ==
    /\ req = None => at = 0 /\ attempt = 0 /\ elapsed = 0 /\ net = "none" /\ reply = NoReply
    /\ net = "queued" => at = 0 /\ attempt = 0 /\ elapsed = 0 /\ reply = NoReply
    /\ at > 0 => req # None /\ reply = NoReply

\* A loop that runs has attempts left and has not passed the cap.
Retrying ==
    /\ attempt \in 0..MaxAttempts
    /\ elapsed \in Nat /\ elapsed < Cap + Timeout
    /\ at > 0 => attempt < MaxAttempts /\ elapsed <= Cap

\* The inductive invariant of the retries.
RetryInv == at \in Nat /\ Started /\ Retrying

\* What the handler finds in the database, as long as nobody changes it.
Default ==
    IF req.namespace \in DOMAIN db.namespaces THEN db.namespaces[req.namespace].llm_provider ELSE None
Chosen ==
    LET name == resolve_provider(req.llm_provider, Default, db.providers)
    IN  IF name = Err THEN None ELSE name
Built(name) == build_provider_impl(db.providers, name, db.master_key)
Model(name) == IF Row(db.providers, name) = 0 THEN None ELSE db.providers[Row(db.providers, name)].model

\* What it has in hand at each place of its path.
SqlHand ==
    /\ at \in 0..8
    /\ at >= 6 => got.impl = Built(got.name) /\ got.impl # Err
    /\ at >= 7 => got.model = Model(got.name)
NamedHand ==
    /\ at \in 0..11
    /\ got.name = req.llm_provider
    /\ at >= 4 => got.impl = Built(got.name) /\ got.impl # Err
    /\ at >= 7 => got.model = Model(got.name)
UnnamedHand ==
    /\ at \in 0..13
    /\ at >= 4 => got.ns_default = Default
    /\ at >= 5 => got.name = Chosen
    /\ at >= 6 => got.impl = Fallback \/ (got.impl = Built(got.name) /\ got.impl # Err)
    /\ at >= 9 => got.model = Model(got.name)

\* The hand of the path that the caller took.
InHand ==
    /\ req.surface = "sql" => SqlHand
    /\ Http(req) /\ req.llm_provider # None => NamedHand
    /\ Http(req) /\ req.llm_provider = None => UnnamedHand

\* A question that nothing interferes with so far.
Asked == quiet /\ req # None /\ req.surface \in {"sql", "http", "shim"}

\* What an answer says as long as nothing interferes.
QuietAttribution ==
    reply.status = "answer" /\ req.surface # "library" /\ quiet =>
        \/ got.name = got.impl.name /\ got.model = got.impl.model
        \/ Http(req) /\ req.llm_provider = None /\ got.impl = Fallback /\ got.numbers = <<>>

\* The inductive invariant of the attribution.
AttributionInv ==
    /\ got = [connected |-> got.connected, ns_default |-> got.ns_default, name |-> got.name, impl |-> got.impl,
              model |-> got.model, chunks |-> got.chunks, budget |-> got.budget, blocks |-> got.blocks,
              numbers |-> got.numbers]
    /\ req # None => req.surface \in Surfaces /\ req.llm_provider # Err
    /\ req # None /\ req.surface = "query" => at \in {0, 1}
    /\ Asked => got.connected /\ InHand
    /\ QuietAttribution

(* The loop sleeps no longer than what remains of the cap.                  *)
LEMMA SleepWithinCap ==
    ASSUME NEW k \in Nat \ {0}, NEW now \in Nat
    PROVE  /\ Sleep(k, now) \in Nat
           /\ Sleep(k, now) > 0 => now + Sleep(k, now) <= Cap
<1> DEFINE i    == Least({k, Len(Backoff)})
           left == IF now < Cap THEN Cap - now ELSE 0
<1>1. i \in 1..Len(Backoff)
  <2>1. Len(Backoff) \in Nat \ {0}
    BY AskAssumption
  <2> QED BY <2>1, LeastOfTwo
<1>2. Backoff[i] \in Nat
  BY <1>1, AskAssumption
<1>3. left \in Nat /\ (left > 0 => now + left = Cap)
  BY AskAssumption
<1>4. Sleep(k, now) = Least({Backoff[i], left})
  BY DEF Sleep
<1> HIDE DEF i, left
<1>5. Sleep(k, now) \in Nat /\ Sleep(k, now) <= left
  BY <1>2, <1>3, <1>4, LeastOfTwo
<1> QED BY <1>3, <1>5, AskAssumption

-----------------------------------------------------------------------------

(* One turn of the loop keeps to the cap and to the number of attempts.      *)
LEMMA RetryTurn ==
    ASSUME RetryInv, run_with_retry
    PROVE  RetryInv'
<1> USE AskAssumption
<1>1. /\ at > 0 /\ req # None /\ elapsed < Cap /\ reply = NoReply
      /\ attempt \in Nat /\ attempt < MaxAttempts /\ elapsed \in Nat
      /\ net # "queued"
  BY DEF run_with_retry, Step, cap_reached, RetryInv, Started, Retrying
<1>2. UNCHANGED <<req, net>>
  BY DEF run_with_retry
<1>3. PICK r \in Responses, d \in 0..Timeout :
        \/ elapsed' = elapsed + d /\ (\E numbers \in Answers : Answer(numbers)) /\ UNCHANGED attempt
        \/ elapsed' = elapsed + d /\ at' = 0 /\ UNCHANGED attempt
        \/ /\ attempt' = attempt + 1
           /\ IF attempt + 1 < MaxAttempts /\ Sleep(attempt + 1, elapsed + d) > 0
              THEN elapsed' = elapsed + d + Sleep(attempt + 1, elapsed + d) /\ UNCHANGED <<reply, at>>
              ELSE elapsed' = elapsed + d /\ at' = 0
  BY DEF run_with_retry
<1>4. elapsed + d \in Nat /\ elapsed + d < Cap + Timeout
  BY <1>1
<1>5. CASE elapsed' = elapsed + d /\ at' = 0 /\ attempt' \in {attempt, attempt + 1}
  BY <1>1, <1>2, <1>4, <1>5 DEF RetryInv, Started, Retrying
<1>6. CASE /\ attempt' = attempt + 1 /\ attempt + 1 < MaxAttempts
           /\ Sleep(attempt + 1, elapsed + d) > 0
           /\ elapsed' = elapsed + d + Sleep(attempt + 1, elapsed + d) /\ UNCHANGED <<reply, at>>
  <2>1. elapsed' \in Nat /\ elapsed' <= Cap
    <3> DEFINE now   == elapsed + d
               slept == Sleep(attempt + 1, now)
    <3>1. attempt + 1 \in Nat \ {0} /\ now \in Nat
      BY <1>1, <1>4
    <3>2. slept \in Nat /\ (slept > 0 => now + slept <= Cap)
      BY <3>1, SleepWithinCap
    <3>3. slept > 0 /\ elapsed' = now + slept
      BY <1>6
    <3> HIDE DEF now, slept
    <3> QED BY <3>1, <3>2, <3>3
  <2> QED BY <1>1, <1>2, <1>6, <2>1 DEF RetryInv, Started, Retrying
<1> QED BY <1>3, <1>5, <1>6 DEF Answer

(* Every other step keeps to them too.                                       *)
LEMMA RetryStep ==
    ASSUME RetryInv, [Next]_vars
    PROVE  RetryInv'
<1> USE AskAssumption DEF RetryInv, Started, Retrying
<1>1. ASSUME NEW g, Proceed(g), at > 0 PROVE RetryInv'
  BY <1>1 DEF Proceed
<1>2. ASSUME NEW x, Return(x), at > 0 PROVE RetryInv'
  BY <1>2 DEF Return
<1>3. CASE AskJson \/ check_namespace \/ ns_default
  BY <1>1, <1>2, <1>3 DEF AskJson, check_namespace, ns_default, Step, Fail
<1>4. CASE resolve \/ build
  <2> HIDE DEF RetryInv
  <2> QED BY <1>1, <1>2, <1>4 DEF resolve, build, Step, Fail
<1>5. CASE provider_model \/ embed \/ ask_token_budget \/ build_prompt
  <2> HIDE DEF RetryInv
  <2> QED BY <1>1, <1>2, <1>5 DEF provider_model, embed, ask_token_budget, build_prompt, Step, Fail
<1>6. CASE query
  <2> HIDE DEF RetryInv
  <2> QED BY <1>1, <1>2, <1>6 DEF query, Step, Fail
<1>7. CASE complete_once
  <2>1. CASE Fail
    BY <1>2, <1>7, <2>1 DEF complete_once, Step, Fail
  <2>2. CASE /\ \E numbers \in Answers \union {<<>>} : Answer(numbers)
             /\ UNCHANGED <<db, changes, quiet, req, attempt, elapsed, client, tries, net>>
    BY <1>7, <2>2 DEF complete_once, Answer, Step
  <2> HIDE DEF RetryInv
  <2> QED BY <1>7, <2>1, <2>2 DEF complete_once
<1>8. CASE run_with_retry
  BY <1>8, RetryTurn
<1>9. CASE give_up
  BY <1>2, <1>9 DEF give_up, Step, Fail
<1>10. CASE lose_connection \/ pgrg_ask \/ cancel
  BY <1>10 DEF lose_connection, pgrg_ask, await_response, poll_found, poll_not_found, cancel
<1>11. CASE pg_net
  <2>1. CASE deliver
    <3>1. req # None /\ at' = 1 /\ net' = "sent" /\ UNCHANGED <<req, reply, attempt, elapsed>>
      BY <2>1 DEF deliver
    <3> QED BY <2>1, <3>1 DEF deliver
  <2>2. CASE lose_request \/ respond \/ break_off
    BY <2>2 DEF lose_request, respond, break_off
  <2> QED BY <1>11, <2>1, <2>2 DEF pg_net
<1>12. ASSUME NEW r \in Requests, begin(r) PROVE RetryInv'
  <2>1. /\ req = None /\ req' = r /\ r # None /\ UNCHANGED <<reply, attempt, elapsed>>
        /\ \/ at' = 1 /\ net' = net
           \/ at' = at /\ net' \in {net, "queued"}
    BY <1>12 DEF begin, IsRequest
  <2> QED BY <2>1
<1>13. CASE end
  BY <1>13 DEF end, Busy, NoReply, Reply
<1>14. ASSUME NEW d, Administer(d) PROVE RetryInv'
  BY <1>14 DEF Administer
<1>15. CASE administration
  <2> HIDE DEF RetryInv
  <2> QED BY <1>14, <1>15 DEF administration, provider_create, provider_drop, namespace_create,
                              namespace_drop, delete_document, set_master_key
<1>16. CASE UNCHANGED vars
  BY <1>16 DEF vars
<1> QED BY <1>3, <1>4, <1>5, <1>6, <1>7, <1>8, <1>9, <1>10, <1>11, <1>12, <1>13, <1>15, <1>16
       DEF Next, ask_handler

(* However attempts fail and however long each takes, there are no more     *)
(* than MaxAttempts, none begins after the cap, and the call is over within *)
(* the cap and one attempt's timeout (run_with_retry).                      *)
THEOREM RetriesStop == Spec => []RetryStopsAtCap
<1>1. Init => RetryInv
  BY AskAssumption DEF Init, RetryInv, Started, Retrying, NoReply, Reply
<1>2. RetryInv /\ [Next]_vars => RetryInv'
  BY RetryStep
<1>3. RetryInv => RetryStopsAtCap
  BY DEF RetryInv, Retrying, RetryStopsAtCap
<1> QED BY <1>1, <1>2, <1>3, PTL DEF Spec
-----------------------------------------------------------------------------

(* A provider that could be built has the name asked for and the model of    *)
(* its row.                                                                 *)
LEMMA BuiltIsNamed ==
    ASSUME NEW name, Built(name) # Err
    PROVE  Built(name).name = name /\ Built(name).model = Model(name)
BY DEF Built, build_provider_impl, Model

(* Where on its path a handler does what.                                   *)
LEMMA Places ==
    ASSUME Asked, InHand, at > 0
    PROVE  LET sql     == req.surface = "sql"
               named   == Http(req) /\ req.llm_provider # None
               unnamed == Http(req) /\ req.llm_provider = None
           IN  /\ sql \/ named \/ unnamed
               /\ Step("body") => ~sql /\ at = 1
               /\ Step("check_namespace") => ~sql /\ at = 2
               /\ Step("ns_default") =>
                    /\ sql => at = 1
                    /\ named => at = 4
                    /\ unnamed => at \in {3, 6}
               /\ Step("resolve") =>
                    /\ sql => at = 2
                    /\ named => at = 5
                    /\ unnamed => at \in {4, 7}
               /\ Step("build") =>
                    /\ sql => at = 5
                    /\ named => at = 3
                    /\ unnamed => at = 5
               /\ Step("model") =>
                    /\ sql => at = 6
                    /\ named => at = 6
                    /\ unnamed => at = 8
               /\ Step("embed") =>
                    /\ ~sql
                    /\ named => at = 7
                    /\ unnamed => at = 9
               /\ Step("query") =>
                    /\ sql => at = 3
                    /\ named => at = 8
                    /\ unnamed => at = 10
               /\ Step("budget") =>
                    /\ sql => at = 4
                    /\ named => at = 9
                    /\ unnamed => at = 11
               /\ Step("build_ask_prompt") =>
                    /\ sql => at = 7
                    /\ named => at = 10
                    /\ unnamed => at = 12
               /\ Step("complete") =>
                    /\ sql => at = 8
                    /\ named => at = 11
                    /\ unnamed => at = 13
<1>1. CASE req.surface = "sql"
  <2>1. at \in 1..8 /\ ~Http(req)
    BY <1>1 DEF InHand, SqlHand, Http
  <2>2. Path(req) = <<"ns_default", "resolve", "query", "budget", "build", "model", "build_ask_prompt", "complete">>
    BY <1>1 DEF Path, Http
  <2> QED BY <1>1, <2>1, <2>2 DEF Step
<1>2. CASE Http(req) /\ req.llm_provider # None
  <2>1. at \in 1..11 /\ req.surface # "sql"
    BY <1>2 DEF InHand, NamedHand, Http
  <2>2. Path(req) = <<"body", "check_namespace", "build", "ns_default", "resolve", "model", "embed",
                      "query", "budget", "build_ask_prompt", "complete">>
    BY <1>2 DEF Path, Http
  <2> QED BY <1>2, <2>1, <2>2 DEF Step
<1>3. CASE Http(req) /\ req.llm_provider = None
  <2>1. at \in 1..13 /\ req.surface # "sql"
    BY <1>3 DEF InHand, UnnamedHand, Http
  <2>2. Path(req) = <<"body", "check_namespace", "ns_default", "resolve", "build", "ns_default", "resolve",
                      "model", "embed", "query", "budget", "build_ask_prompt", "complete">>
    BY <1>3 DEF Path, Http
  <2> QED BY <1>3, <2>1, <2>2 DEF Step
<1> QED BY <1>1, <1>2, <1>3 DEF Asked, Http

(* What is in hand stays right over a step of the path,                     *)
LEMMA HandKept ==
    ASSUME Asked, InHand, at' = at + 1, UNCHANGED <<db, req>>,
           req.surface = "sql" =>
               /\ at < 8
               /\ at >= 6 => got'.impl = got.impl /\ got'.name = got.name
               /\ at >= 7 => got'.model = got.model
               /\ at = 5 => got'.impl = Built(got'.name) /\ got'.impl # Err
               /\ at = 6 => got'.model = Model(got'.name),
           Http(req) /\ req.llm_provider # None =>
               /\ at < 11
               /\ got'.name = got.name
               /\ at # 3 => got'.impl = got.impl
               /\ at = 3 => got'.impl = Built(got'.name) /\ got'.impl # Err
               /\ at >= 7 => got'.model = got.model
               /\ at = 6 => got'.model = Model(got'.name),
           Http(req) /\ req.llm_provider = None =>
               /\ at < 13
               /\ at >= 3 => got'.ns_default = Default
               /\ at >= 4 => got'.name = Chosen
               /\ at # 5 => got'.impl = got.impl
               /\ at = 5 => got'.impl = Fallback \/ (got'.impl = Built(got'.name) /\ got'.impl # Err)
               /\ at >= 9 => got'.model = got.model
               /\ at = 8 => got'.model = Model(got'.name)
    PROVE  InHand'
<1>1. Default' = Default /\ Chosen' = Chosen
  BY DEF Default, Chosen
<1>2. Built(got.name)' = Built(got'.name) /\ Model(got.name)' = Model(got'.name)
  BY DEF Built, Model
<1>3. CASE req.surface = "sql"
  BY <1>2, <1>3 DEF InHand, SqlHand, Http
<1>4. CASE Http(req) /\ req.llm_provider # None
  BY <1>2, <1>4 DEF InHand, NamedHand, Http
<1>5. CASE Http(req) /\ req.llm_provider = None
  BY <1>1, <1>2, <1>5 DEF InHand, UnnamedHand, Http
<1> QED BY <1>3, <1>4, <1>5 DEF Asked, Http

(* A completion comes of the provider in hand, or is the fallback's empty   *)
(* one.                                                                     *)
LEMMA AttributedAnswer ==
    ASSUME RetryInv, AttributionInv, complete_once
    PROVE  AttributionInv'
<1>1. at > 0 /\ req # None /\ reply = NoReply /\ UNCHANGED <<db, quiet, req>>
  BY DEF complete_once, Step, RetryInv, Started, Fail, Return
<1>2. CASE Fail
  BY <1>1, <1>2 DEF Fail, Return, Reply, AttributionInv, QuietAttribution, Asked, InHand,
                    SqlHand, NamedHand, UnnamedHand, Http
<1>3. ASSUME NEW numbers, Answer(numbers),
             got.impl.provider \in Networked \/ ~Mute(got.impl) \/ numbers = <<>>
      PROVE  AttributionInv'
  <2>1. /\ at' = 0
        /\ got' = [got EXCEPT !.numbers = numbers]
        /\ got'.connected = got.connected /\ got'.name = got.name /\ got'.impl = got.impl
        /\ got'.model = got.model /\ got'.numbers = numbers
    BY <1>3 DEF Answer, AttributionInv
  <2>2. got' = [connected |-> got'.connected, ns_default |-> got'.ns_default, name |-> got'.name, impl |-> got'.impl,
                model |-> got'.model, chunks |-> got'.chunks, budget |-> got'.budget, blocks |-> got'.blocks,
                numbers |-> got'.numbers]
    BY <2>1 DEF AttributionInv
  <2>3. CASE Asked
    <3>1. InHand' /\ got'.connected
      BY <1>1, <2>1, <2>3 DEF AttributionInv, InHand, SqlHand, NamedHand, UnnamedHand, Http
    <3>2. \/ got.impl = Fallback /\ Http(req) /\ req.llm_provider = None
          \/ got.impl = Built(got.name) /\ got.impl # Err /\ got.model = Model(got.name)
      BY <1>1, <2>3, Places DEF AttributionInv, InHand, SqlHand, NamedHand, UnnamedHand, complete_once
    <3>3. CASE got.impl = Fallback /\ Http(req) /\ req.llm_provider = None
      <4>1. numbers = <<>>
        BY <1>3, <3>3 DEF Fallback, Networked, Mute
      <4> QED BY <1>1, <2>1, <2>2, <3>1, <3>3, <4>1 DEF AttributionInv, QuietAttribution
    <3>4. CASE got.impl = Built(got.name) /\ got.impl # Err /\ got.model = Model(got.name)
      BY <1>1, <2>1, <2>2, <3>1, <3>4, BuiltIsNamed DEF AttributionInv, QuietAttribution
    <3> QED BY <3>2, <3>3, <3>4
  <2>4. CASE ~Asked
    <3>1. req.surface # "query"
      BY <1>1 DEF complete_once, Step, Path, AttributionInv
    <3>2. req.surface = "library" \/ ~quiet
      BY <1>1, <2>4, <3>1 DEF Asked, AttributionInv, Surfaces
    <3> QED BY <1>1, <2>1, <2>2, <2>4, <3>1, <3>2 DEF AttributionInv, QuietAttribution, Asked
  <2> QED BY <2>3, <2>4
<1> QED BY <1>2, <1>3 DEF complete_once

(* Every other step of the handler.                                         *)
LEMMA AttributionKept ==
    ASSUME RetryInv, AttributionInv, ask_handler, ~complete_once
    PROVE  AttributionInv'
<1> DEFINE Is(g) == g = [connected |-> g.connected, ns_default |-> g.ns_default, name |-> g.name, impl |-> g.impl,
                         model |-> g.model, chunks |-> g.chunks, budget |-> g.budget, blocks |-> g.blocks,
                         numbers |-> g.numbers]
           Same(g) == /\ Is(g) /\ g.connected = got.connected /\ g.ns_default = got.ns_default
                      /\ g.name = got.name /\ g.impl = got.impl /\ g.model = got.model
<1>1. ASSUME NEW x, Return(x), x.status # "answer" PROVE AttributionInv'
  BY <1>1 DEF Return, AttributionInv, QuietAttribution, Asked, InHand, SqlHand, NamedHand, UnnamedHand, Http
<1>2. CASE Fail
  BY <1>1, <1>2 DEF Fail, Reply
<1>3. ASSUME NEW g, Proceed(g), at > 0, Is(g), req.surface # "query", Asked => g.connected /\ InHand'
      PROVE  AttributionInv'
  <2>1. got' = g /\ UNCHANGED <<req, reply, quiet>> /\ reply = NoReply
    BY <1>3 DEF Proceed, RetryInv, Started
  <2> QED BY <1>3, <2>1 DEF AttributionInv, QuietAttribution, Asked, NoReply, Reply
<1>4. ASSUME at > 0, req.surface = "query", NEW s, Step(s) PROVE s = "query"
  <2>1. at = 1
    BY <1>4 DEF AttributionInv, RetryInv, Started
  <2>2. Path(req) = <<"query">>
    BY <1>4 DEF Path, Http
  <2> QED BY <1>4, <2>1, <2>2 DEF Step
<1>5. Is(got) /\ Same(got)
  BY DEF AttributionInv
<1>6. ASSUME NEW g, Proceed(g), at > 0, Same(g), req.surface # "query",
             Step("body") \/ Step("check_namespace") \/ Step("embed") \/ Step("query")
                \/ Step("budget") \/ Step("build_ask_prompt")
      PROVE  AttributionInv'
  <2>1. CASE Asked
    <3>1. InHand /\ got.connected
      BY <2>1 DEF AttributionInv
    <3>2. req.surface = "sql" => at < 8 /\ at # 5 /\ at # 6
      BY <1>6, <2>1, <3>1, Places
    <3>3. Http(req) /\ req.llm_provider # None =>
            /\ at < 11 /\ at # 3 /\ at # 6 /\ got.name = req.llm_provider
      BY <1>6, <2>1, <3>1, Places DEF InHand, NamedHand
    <3>4. Http(req) /\ req.llm_provider = None =>
            /\ at < 13 /\ at # 5 /\ at # 8
            /\ at >= 3 => got.ns_default = Default
            /\ at >= 4 => got.name = Chosen
      BY <1>6, <2>1, <3>1, Places DEF InHand, UnnamedHand
    <3>5. InHand'
      <4>1. at' = at + 1 /\ got' = g /\ UNCHANGED <<db, req>>
        BY <1>6 DEF Proceed
      <4> QED BY <1>6, <2>1, <3>1, <3>2, <3>3, <3>4, <4>1, HandKept
    <3> QED BY <1>3, <1>6, <2>1, <3>1, <3>5
  <2> QED BY <1>3, <1>6, <2>1
<1>7. CASE AskJson \/ check_namespace \/ embed
  <2>1. at > 0 /\ req.surface # "query"
    BY <1>4, <1>7 DEF AskJson, check_namespace, embed, Step
  <2> QED BY <1>1, <1>2, <1>5, <1>6, <1>7, <2>1 DEF AskJson, check_namespace, embed, Reply
<1>8. CASE ask_token_budget \/ build_prompt
  <2>1. at > 0 /\ req.surface # "query" /\ (Step("budget") \/ Step("build_ask_prompt"))
    BY <1>4, <1>8 DEF ask_token_budget, build_prompt, Step
  <2>2. ASSUME NEW b, Proceed([got EXCEPT !.budget = b]) PROVE AttributionInv'
    BY <1>5, <1>6, <2>1, <2>2
  <2>3. ASSUME NEW b, Proceed([got EXCEPT !.blocks = b]) PROVE AttributionInv'
    BY <1>5, <1>6, <2>1, <2>3
  <2> QED BY <1>2, <1>8, <2>2, <2>3 DEF ask_token_budget, build_prompt
<1>9. CASE query
  <2>1. CASE req.surface = "query"
    <3>1. ASSUME NEW rows, Return([Reply("rows") EXCEPT !.rows = rows]) PROVE AttributionInv'
      BY <1>1, <3>1 DEF Reply
    <3> QED BY <1>2, <1>9, <2>1, <3>1 DEF query
  <2>2. ASSUME NEW c, Proceed([got EXCEPT !.chunks = c]), req.surface # "query" PROVE AttributionInv'
    <3>1. at > 0 /\ Step("query")
      BY <1>9 DEF query, Step
    <3> QED BY <1>5, <1>6, <2>2, <3>1
  <2> QED BY <1>1, <1>2, <1>9, <2>1, <2>2 DEF query, Reply
<1>10. CASE ns_default
  <2> DEFINE default == IF ~Lost /\ HasNamespace THEN Namespace.llm_provider ELSE None
  <2>1. PICK g : /\ Proceed(g) /\ Is(g) /\ g.ns_default = default /\ g.connected = got.connected
                 /\ g.name = got.name /\ g.impl = got.impl /\ g.model = got.model
    BY <1>5, <1>10 DEF ns_default, Proceed
  <2>2. at > 0 /\ req.surface # "query" /\ Step("ns_default")
    BY <1>4, <1>10 DEF ns_default, Step
  <2>3. CASE Asked
    <3>1. InHand /\ got.connected /\ default = Default
      BY <2>3 DEF AttributionInv, Lost, HasNamespace, Namespace, Default
    <3> HIDE DEF default
    <3>2. req.surface = "sql" => at = 1
      BY <2>2, <2>3, <3>1, Places
    <3>3. Http(req) /\ req.llm_provider # None => at = 4
      BY <2>2, <2>3, <3>1, Places
    <3>4. Http(req) /\ req.llm_provider = None => at \in {3, 6} /\ (at >= 5 => got.name = Chosen)
      BY <2>2, <2>3, <3>1, Places DEF InHand, UnnamedHand
    <3>5. InHand'
      <4>1. at' = at + 1 /\ got' = g /\ UNCHANGED <<db, req>>
        BY <2>1 DEF Proceed
      <4> QED BY <2>1, <2>3, <3>1, <3>2, <3>3, <3>4, <4>1, HandKept
    <3> QED BY <1>3, <2>1, <2>2, <3>1, <3>5
  <2> QED BY <1>3, <2>1, <2>2, <2>3
<1>11. CASE resolve
  <2> DEFINE name == resolve_provider(req.llm_provider, got.ns_default, IF Lost THEN <<>> ELSE db.providers)
  <2>1. CASE Fail
    BY <1>2, <2>1
  <2>2. CASE ~Fail
    <3>1. PICK g : /\ Proceed(g) /\ Is(g) /\ g.name = (IF name = Err THEN None ELSE name)
                   /\ g.connected = got.connected /\ g.ns_default = got.ns_default
                   /\ g.impl = got.impl /\ g.model = got.model
      BY <1>5, <1>11, <2>2 DEF resolve, Proceed
    <3>2. at > 0 /\ req.surface # "query" /\ Step("resolve")
      BY <1>4, <1>11 DEF resolve, Step
    <3>3. CASE Asked
      <4>1. InHand /\ got.connected /\ name = resolve_provider(req.llm_provider, got.ns_default, db.providers)
        BY <3>3 DEF AttributionInv, Lost
      <4> HIDE DEF name
      <4>2. req.surface = "sql" => at = 2
        BY <3>2, <3>3, <4>1, Places
      <4>3. Http(req) /\ req.llm_provider # None => at = 5 /\ g.name = got.name
        <5>1. CASE Http(req) /\ req.llm_provider # None
          <6>1. req.llm_provider # Err /\ got.name = req.llm_provider
            BY <3>3, <4>1, <5>1 DEF AttributionInv, Asked, InHand, NamedHand
          <6>2. name = req.llm_provider
            BY <4>1, <5>1 DEF resolve_provider
          <6> QED BY <3>1, <3>2, <3>3, <4>1, <5>1, <6>1, <6>2, Places
        <5> QED BY <5>1
      <4>4. Http(req) /\ req.llm_provider = None =>
              at \in {4, 7} /\ g.name = Chosen /\ g.ns_default = Default
        <5>1. Http(req) /\ req.llm_provider = None => at \in {4, 7} /\ got.ns_default = Default
          BY <3>2, <3>3, <4>1, Places DEF InHand, UnnamedHand
        <5> QED BY <3>1, <4>1, <5>1 DEF Chosen
      <4>5. InHand'
        <5>1. at' = at + 1 /\ got' = g /\ UNCHANGED <<db, req>>
          BY <3>1 DEF Proceed
        <5> QED BY <3>1, <3>3, <4>1, <4>2, <4>3, <4>4, <5>1, HandKept
      <4> QED BY <1>3, <3>1, <3>2, <4>1, <4>5
    <3> HIDE DEF name
    <3> QED BY <1>3, <3>1, <3>2, <3>3
  <2> QED BY <2>1, <2>2
<1>12. CASE build
  <2> DEFINE impl == IF Lost THEN Err ELSE build_provider_impl(db.providers, got.name, db.master_key)
  <2>1. CASE Fail
    BY <1>2, <2>1
  <2>2. CASE ~Fail
    <3>1. PICK g : /\ Proceed(g) /\ Is(g) /\ g.name = got.name /\ g.connected = got.connected
                   /\ g.ns_default = got.ns_default /\ g.model = got.model
                   /\ \/ impl # Err /\ g.impl = impl
                      \/ Http(req) /\ req.llm_provider = None /\ g.impl = Fallback
      BY <1>5, <1>12, <2>2 DEF build, Proceed
    <3>2. at > 0 /\ req.surface # "query" /\ Step("build")
      BY <1>4, <1>12 DEF build, Step
    <3>3. CASE Asked
      <4>1. InHand /\ got.connected /\ impl = Built(got.name)
        BY <3>3 DEF AttributionInv, Lost, Built
      <4> HIDE DEF impl
      <4>2. req.surface = "sql" => at = 5 /\ ~Http(req)
        BY <3>2, <3>3, <4>1, Places DEF Http
      <4>3. Http(req) /\ req.llm_provider # None => at = 3
        BY <3>2, <3>3, <4>1, Places
      <4>4. Http(req) /\ req.llm_provider = None => at = 5 /\ got.name = Chosen /\ got.ns_default = Default
        BY <3>2, <3>3, <4>1, Places DEF InHand, UnnamedHand
      <4>5. InHand'
        <5>1. at' = at + 1 /\ got' = g /\ UNCHANGED <<db, req>>
          BY <3>1 DEF Proceed
        <5> QED BY <3>1, <3>3, <4>1, <4>2, <4>3, <4>4, <5>1, HandKept
      <4> QED BY <1>3, <3>1, <3>2, <4>1, <4>5
    <3> HIDE DEF impl
    <3> QED BY <1>3, <3>1, <3>2, <3>3
  <2> QED BY <2>1, <2>2
<1>13. CASE provider_model
  <2> DEFINE row == IF Lost THEN 0 ELSE Row(db.providers, got.name)
             model == IF row = 0 THEN None ELSE db.providers[row].model
  <2>1. PICK g : /\ Proceed(g) /\ Is(g) /\ g.model = model /\ g.connected = got.connected
                 /\ g.name = got.name /\ g.impl = got.impl /\ g.ns_default = got.ns_default
    BY <1>5, <1>13 DEF provider_model, Proceed
  <2>2. at > 0 /\ req.surface # "query" /\ Step("model")
    BY <1>4, <1>13 DEF provider_model, Step
  <2>3. CASE Asked
    <3>1. InHand /\ got.connected /\ model = Model(got.name)
      BY <2>3 DEF AttributionInv, Lost, Model
    <3> HIDE DEF row, model
    <3>2. req.surface = "sql" => at = 6
      BY <2>2, <2>3, <3>1, Places
    <3>3. Http(req) /\ req.llm_provider # None => at = 6
      BY <2>2, <2>3, <3>1, Places
    <3>4. Http(req) /\ req.llm_provider = None => at = 8 /\ got.name = Chosen /\ got.ns_default = Default
      BY <2>2, <2>3, <3>1, Places DEF InHand, UnnamedHand
    <3>5. InHand'
      <4>1. at' = at + 1 /\ got' = g /\ UNCHANGED <<db, req>>
        BY <2>1 DEF Proceed
      <4> QED BY <2>1, <2>3, <3>1, <3>2, <3>3, <3>4, <4>1, HandKept
    <3> QED BY <1>3, <2>1, <2>2, <3>1, <3>5
  <2> QED BY <1>3, <2>1, <2>2, <2>3
<1>14. CASE run_with_retry \/ give_up
  <2>1. CASE Fail
    BY <1>2, <2>1
  <2>2. CASE ~Fail
    <3>1. req.surface = "library" /\ UNCHANGED <<req, quiet, db>> /\ at > 0
      BY <1>14, <2>2 DEF run_with_retry, give_up, Step
    <3>2. Is(got)'
      BY <1>5, <1>14, <2>2 DEF run_with_retry, give_up, Answer
    <3> QED BY <3>1, <3>2 DEF AttributionInv, Asked, QuietAttribution
  <2> QED BY <2>1, <2>2
<1> QED BY <1>7, <1>8, <1>9, <1>10, <1>11, <1>12, <1>13, <1>14 DEF ask_handler

(* What happens outside the handler leaves what is in hand alone, or is     *)
(* remembered in quiet.                                                     *)
LEMMA AttributionStep ==
    ASSUME RetryInv, AttributionInv, [Next]_vars
    PROVE  AttributionInv'
<1>1. CASE ask_handler
  BY <1>1, AttributedAnswer, AttributionKept
<1>2. ASSUME UNCHANGED <<db, got, reply>>, req' = req, quiet' = quiet, at' = at \/ at' = 0 \/ (at = 0 /\ at' = 1)
      PROVE  AttributionInv'
  <2>1. Default' = Default /\ Chosen' = Chosen /\ Built(got.name)' = Built(got.name)
          /\ Model(got.name)' = Model(got.name)
    BY <1>2 DEF Default, Chosen, Built, Model
  <2>2. InHand => InHand'
    BY <1>2, <2>1 DEF InHand, SqlHand, NamedHand, UnnamedHand, Http
  <2> QED BY <1>2, <2>2 DEF AttributionInv, QuietAttribution, Asked
<1>3. CASE pg_net
  <2>1. UNCHANGED <<db, got, reply, req, quiet>> /\ (at' = at \/ at' = 0 \/ (at = 0 /\ at' = 1))
    BY <1>3 DEF pg_net, deliver, lose_request, respond, break_off, RetryInv, Started
  <2> QED BY <1>2, <2>1
<1>4. CASE pgrg_ask \/ cancel
  BY <1>2, <1>4 DEF pgrg_ask, await_response, poll_found, poll_not_found, cancel
<1>5. CASE lose_connection
  <2>1. got' = [got EXCEPT !.connected = FALSE] /\ ~quiet' /\ UNCHANGED <<req, at, reply>>
    BY <1>5 DEF lose_connection
  <2> QED BY <2>1 DEF AttributionInv, QuietAttribution, Asked
<1>6. ASSUME NEW r \in Requests, begin(r) PROVE AttributionInv'
  <2>1. /\ r # None /\ r.surface \in Surfaces /\ r.llm_provider # Err
        /\ req' = r /\ reply' = NoReply /\ at' \in {0, 1}
        /\ got' = Hand(r.llm_provider, r.impl, r.chunks, r.budget)
    BY <1>6, AskAssumption DEF begin, RetryInv, Started, IsRequest
  <2>2. InHand' /\ got'.connected
    BY <2>1 DEF InHand, SqlHand, NamedHand, UnnamedHand, Http, Hand
  <2> QED BY <2>1, <2>2 DEF AttributionInv, QuietAttribution, NoReply, Reply, Hand
<1>7. CASE end
  BY <1>7 DEF end, EmptyHand, Hand, AttributionInv, QuietAttribution, Asked, NoReply, Reply
<1>8. ASSUME NEW d, Administer(d) PROVE AttributionInv'
  <2>1. UNCHANGED <<req, at, got, reply>> /\ quiet' = (req = None)
    BY <1>8 DEF Administer
  <2>2. req = None => reply.status # "answer"
    BY DEF RetryInv, Started, NoReply, Reply
  <2> QED BY <2>1, <2>2 DEF AttributionInv, QuietAttribution, Asked
<1>9. CASE administration
  BY <1>8, <1>9 DEF administration, provider_create, provider_drop, namespace_create,
                    namespace_drop, delete_document, set_master_key
<1>10. CASE UNCHANGED vars
  BY <1>2, <1>10 DEF vars
<1> QED BY <1>1, <1>3, <1>4, <1>5, <1>6, <1>7, <1>9, <1>10 DEF Next

\* The question names its provider, or is asked of the extension: the one that
\* is built is the one that is named.
Fixed == req # None /\ (req.surface = "sql" \/ (Http(req) /\ req.llm_provider # None))

\* Where on their paths it is built.
BuildAt == IF req.surface = "sql" THEN 5 ELSE 3
LastAt  == IF req.surface = "sql" THEN 8 ELSE 11

\* From there on the name is that of what was built, whatever happens.
SteadyInv ==
    /\ reply.status = "answer" => req # None /\ req.surface # "query"
    /\ Fixed =>
        /\ at \in 0..LastAt
        /\ req.surface # "sql" => got.name = req.llm_provider
        /\ at > BuildAt \/ reply.status = "answer" => got.impl.name = got.name

(* Where on those paths a handler does what.                                *)
LEMMA FixedPlaces ==
    ASSUME Fixed, at \in 1..LastAt
    PROVE  /\ Step("build") <=> at = BuildAt
           /\ Step("complete") <=> at = LastAt
           /\ Step("resolve") /\ req.surface = "sql" => at = 2
<1>1. CASE req.surface = "sql"
  <2>1. Path(req) = <<"ns_default", "resolve", "query", "budget", "build", "model", "build_ask_prompt", "complete">>
    BY <1>1 DEF Path, Http
  <2> QED BY <1>1, <2>1 DEF Step, BuildAt, LastAt
<1>2. CASE Http(req) /\ req.llm_provider # None
  <2>1. req.surface # "sql"
    BY <1>2 DEF Http
  <2>2. Path(req) = <<"body", "check_namespace", "build", "ns_default", "resolve", "model", "embed",
                      "query", "budget", "build_ask_prompt", "complete">>
    BY <1>2 DEF Path, Http
  <2> QED BY <2>1, <2>2 DEF Step, BuildAt, LastAt
<1> QED BY <1>1, <1>2 DEF Fixed

(* No step of the handler parts the name from what was built.               *)
LEMMA SteadyHandler ==
    ASSUME RetryInv, AttributionInv, SteadyInv, ask_handler
    PROVE  SteadyInv'
<1>1. at > 0 /\ at \in Nat /\ req # None /\ reply = NoReply /\ req' = req
  BY DEF ask_handler, AskJson, check_namespace, ns_default, resolve, build, provider_model, embed, query,
         ask_token_budget, build_prompt, complete_once, run_with_retry, give_up, Fail, Return, Proceed, Step,
         RetryInv, Started
<1>2. Fixed => at \in 1..LastAt
  BY <1>1 DEF SteadyInv, LastAt
<1>3. (Fixed' <=> Fixed) /\ BuildAt' = BuildAt /\ LastAt' = LastAt
  BY <1>1 DEF Fixed, BuildAt, LastAt, Http
<1>4. ASSUME got' = got, at' = 0, reply'.status # "answer" PROVE SteadyInv'
  BY <1>1, <1>3, <1>4 DEF SteadyInv, BuildAt, LastAt
<1>5. ASSUME NEW x, Return(x), x.status # "answer" PROVE SteadyInv'
  BY <1>4, <1>5 DEF Return
<1>6. CASE Fail
  BY <1>5, <1>6 DEF Fail, Reply
<1>7. ASSUME NEW g, Proceed(g),
             Fixed => /\ ~Step("complete")
                      /\ req.surface # "sql" => g.name = req.llm_provider
                      /\ at >= BuildAt => g.impl.name = g.name
      PROVE  SteadyInv'
  <2>1. at' = at + 1 /\ got' = g /\ reply' = reply
    BY <1>7 DEF Proceed
  <2>2. Fixed => at' \in 0..LastAt
    BY <1>1, <1>2, <1>7, <2>1, FixedPlaces DEF LastAt
  <2>3. Fixed => BuildAt \in Nat
    BY DEF BuildAt
  <2> QED BY <1>1, <1>3, <1>7, <2>1, <2>2, <2>3 DEF SteadyInv, NoReply, Reply
<1>8. ASSUME NEW g, Proceed(g), g.name = got.name, g.impl = got.impl, NEW s, Step(s), s \notin {"build", "complete"}
      PROVE  SteadyInv'
  <2>1. ~Step("build") /\ ~Step("complete")
    BY <1>8 DEF Step
  <2>2. Fixed /\ at >= BuildAt => at > BuildAt
    BY <1>1, <1>2, <2>1, FixedPlaces DEF BuildAt
  <2> QED BY <1>7, <1>8, <2>1, <2>2 DEF SteadyInv
<1>9. CASE AskJson \/ check_namespace \/ embed
  BY <1>5, <1>6, <1>8, <1>9 DEF AskJson, check_namespace, embed, Reply
<1>10. CASE ns_default \/ provider_model \/ ask_token_budget \/ build_prompt
  <2>1. ASSUME NEW v PROVE /\ [got EXCEPT !.ns_default = v].name = got.name
                           /\ [got EXCEPT !.ns_default = v].impl = got.impl
                           /\ [got EXCEPT !.model = v].name = got.name /\ [got EXCEPT !.model = v].impl = got.impl
                           /\ [got EXCEPT !.budget = v].name = got.name /\ [got EXCEPT !.budget = v].impl = got.impl
                           /\ [got EXCEPT !.blocks = v].name = got.name /\ [got EXCEPT !.blocks = v].impl = got.impl
    BY DEF AttributionInv
  <2> QED BY <1>6, <1>8, <1>10, <2>1 DEF ns_default, provider_model, ask_token_budget, build_prompt
<1>11. CASE query
  <2>1. ASSUME NEW c, Proceed([got EXCEPT !.chunks = c]) PROVE SteadyInv'
    <3>1. [got EXCEPT !.chunks = c].name = got.name /\ [got EXCEPT !.chunks = c].impl = got.impl
      BY DEF AttributionInv
    <3>2. Step("query")
      BY <1>11 DEF query
    <3> QED BY <1>8, <2>1, <3>1, <3>2
  <2>2. ASSUME NEW rows, Return([Reply("rows") EXCEPT !.rows = rows]) PROVE SteadyInv'
    BY <1>5, <2>2 DEF Reply
  <2>3. ASSUME Return(Reply("no context")) PROVE SteadyInv'
    BY <1>5, <2>3 DEF Reply
  <2> QED BY <1>6, <1>11, <2>1, <2>2, <2>3 DEF query
<1>12. CASE resolve
  <2> DEFINE name == resolve_provider(req.llm_provider, got.ns_default, IF Lost THEN <<>> ELSE db.providers)
             to   == IF name = Err THEN None ELSE name
  <2>1. Step("resolve") /\ (Fail \/ Proceed([got EXCEPT !.name = to]))
    BY <1>12 DEF resolve
  <2>2. [got EXCEPT !.name = to].name = to /\ [got EXCEPT !.name = to].impl = got.impl
    BY DEF AttributionInv
  <2>3. Fixed /\ req.surface # "sql" => to = req.llm_provider
    BY <1>1 DEF Fixed, AttributionInv, resolve_provider
  <2>4. Fixed /\ req.surface = "sql" => at < BuildAt
    BY <1>2, <2>1, FixedPlaces DEF BuildAt
  <2>5. ~Step("complete") /\ ~Step("build")
    BY <2>1 DEF Step
  <2>6. Fixed /\ req.surface # "sql" /\ at >= BuildAt => at > BuildAt /\ got.name = req.llm_provider
    BY <1>1, <1>2, <2>5, FixedPlaces DEF BuildAt, SteadyInv
  <2> HIDE DEF to, name
  <2>7. CASE Proceed([got EXCEPT !.name = to])
    <3> DEFINE g == [got EXCEPT !.name = to]
    <3>1. Proceed(g) /\ g.name = to /\ g.impl = got.impl
      BY <2>2, <2>7
    <3> HIDE DEF g
    <3>2. Fixed => /\ ~Step("complete")
                   /\ req.surface # "sql" => g.name = req.llm_provider
                   /\ at >= BuildAt => g.impl.name = g.name
      <4>1. CASE Fixed /\ req.surface = "sql"
        BY <1>1, <2>4, <2>5, <4>1 DEF BuildAt
      <4>2. CASE Fixed /\ req.surface # "sql"
        BY <2>3, <2>5, <2>6, <3>1, <4>2 DEF SteadyInv
      <4> QED BY <4>1, <4>2
    <3> QED BY <1>7, <3>1, <3>2
  <2> QED BY <1>6, <2>1, <2>7
<1>13. CASE build
  <2> DEFINE impl == IF Lost THEN Err ELSE build_provider_impl(db.providers, got.name, db.master_key)
  <2>1. /\ Step("build")
        /\ \/ Fail
           \/ impl # Err /\ Proceed([got EXCEPT !.impl = impl])
           \/ Http(req) /\ req.llm_provider = None /\ Proceed([got EXCEPT !.impl = Fallback])
    BY <1>13 DEF build
  <2>2. \A v : [got EXCEPT !.impl = v].impl = v /\ [got EXCEPT !.impl = v].name = got.name
    BY DEF AttributionInv
  <2>3. impl # Err => impl.name = got.name
    BY BuiltIsNamed DEF Built
  <2>4. ~Step("complete")
    BY <2>1 DEF Step
  <2>5. Fixed => ~(Http(req) /\ req.llm_provider = None)
    BY DEF Fixed, Http
  <2> HIDE DEF impl
  <2>6. CASE impl # Err /\ Proceed([got EXCEPT !.impl = impl])
    <3> DEFINE g == [got EXCEPT !.impl = impl]
    <3>1. Proceed(g) /\ g.name = got.name /\ g.impl.name = got.name
      BY <2>2, <2>3, <2>6
    <3> HIDE DEF g
    <3> QED BY <1>7, <2>4, <3>1 DEF SteadyInv
  <2>7. CASE Http(req) /\ req.llm_provider = None /\ Proceed([got EXCEPT !.impl = Fallback])
    BY <1>7, <2>5, <2>7
  <2> QED BY <1>6, <2>1, <2>6, <2>7
<1>14. ASSUME NEW numbers, Answer(numbers), Step("complete") PROVE SteadyInv'
  <2>1. at' = 0 /\ got'.name = got.name /\ got'.impl = got.impl
    BY <1>14 DEF Answer, AttributionInv
  <2>2. Fixed => at > BuildAt /\ 0 \in 0..LastAt
    BY <1>2, <1>14, FixedPlaces DEF BuildAt, LastAt
  <2>3. req.surface # "query"
    BY <1>1, <1>14 DEF Step, Path, AttributionInv
  <2>4. Fixed => ~(at' > BuildAt)
    BY <2>1 DEF BuildAt
  <2> QED BY <1>1, <1>3, <2>1, <2>2, <2>3, <2>4 DEF SteadyInv
<1>15. CASE complete_once
  BY <1>6, <1>14, <1>15 DEF complete_once
<1>16. CASE run_with_retry \/ give_up
  <2>1. Step("complete") /\ req.surface = "library"
    BY <1>16 DEF run_with_retry, give_up
  <2>2. ~Fixed
    BY <2>1 DEF Fixed, Http
  <2> QED BY <1>1, <1>3, <2>1, <2>2 DEF SteadyInv
<1> QED BY <1>9, <1>10, <1>11, <1>12, <1>13, <1>15, <1>16 DEF ask_handler

(* Nor does anything else, be it a row that is changed or a lost connection. *)
LEMMA SteadyStep ==
    ASSUME RetryInv, AttributionInv, SteadyInv, [Next]_vars
    PROVE  SteadyInv'
<1>1. CASE ask_handler
  BY <1>1, SteadyHandler
<1>2. ASSUME req' = req, reply' = reply, got'.name = got.name, got'.impl = got.impl,
             at' = at \/ at' = 0 \/ (at = 0 /\ at' = 1 /\ reply = NoReply /\ req # None)
      PROVE  SteadyInv'
  <2>1. (Fixed' <=> Fixed) /\ BuildAt' = BuildAt /\ LastAt' = LastAt
    BY <1>2 DEF Fixed, BuildAt, LastAt, Http
  <2>2. BuildAt \in {3, 5} /\ LastAt \in {8, 11}
    BY DEF BuildAt, LastAt
  <2> QED BY <1>2, <2>1, <2>2 DEF SteadyInv
<1>3. CASE pg_net
  <2>1. /\ UNCHANGED <<got, reply, req>>
        /\ at' = at \/ at' = 0 \/ (at = 0 /\ at' = 1 /\ reply = NoReply /\ req # None)
    BY <1>3 DEF pg_net, deliver, lose_request, respond, break_off, RetryInv, Started
  <2> QED BY <1>2, <2>1
<1>4. CASE pgrg_ask \/ cancel \/ UNCHANGED vars
  BY <1>2, <1>4 DEF pgrg_ask, await_response, poll_found, poll_not_found, cancel, vars
<1>5. CASE lose_connection
  <2>1. got' = [got EXCEPT !.connected = FALSE] /\ UNCHANGED <<req, at, reply>>
    BY <1>5 DEF lose_connection
  <2> QED BY <1>2, <2>1 DEF AttributionInv
<1>6. ASSUME NEW r \in Requests, begin(r) PROVE SteadyInv'
  <2>1. reply' = NoReply /\ at' \in {0, 1} /\ got'.name = r.llm_provider /\ req' = r
    BY <1>6 DEF begin, RetryInv, Started, Hand
  <2>2. BuildAt' \in {3, 5} /\ LastAt' \in {8, 11}
    BY DEF BuildAt, LastAt
  <2> QED BY <2>1, <2>2 DEF SteadyInv, NoReply, Reply
<1>7. CASE end
  BY <1>7 DEF end, SteadyInv, NoReply, Reply, Fixed
<1>8. ASSUME NEW d, Administer(d) PROVE SteadyInv'
  BY <1>2, <1>8 DEF Administer
<1>9. CASE administration
  BY <1>8, <1>9 DEF administration, provider_create, provider_drop, namespace_create,
                    namespace_drop, delete_document, set_master_key
<1> QED BY <1>1, <1>3, <1>4, <1>5, <1>6, <1>7, <1>9 DEF Next

(* The provider an answer is attributed to is the one that gave it, whatever *)
(* is changed or lost on the way, if the question named it or was asked of   *)
(* the extension; if the choice was the sidecar's, when nothing is and the   *)
(* provider could be built; and the model is that provider's, when nothing   *)
(* is (resolve_provider, build_provider_impl and the lookup of the model,    *)
(* three statements of ask_handler).                                         *)
THEOREM AttributionIsHonest == Spec => []HonestAttribution
<1>1. Init => RetryInv /\ AttributionInv /\ SteadyInv
  BY AskAssumption DEF Init, RetryInv, Started, Retrying, NoReply, Reply, AttributionInv, EmptyHand, Hand,
                       Asked, QuietAttribution, SteadyInv, Fixed
<1>2. RetryInv /\ AttributionInv /\ SteadyInv /\ [Next]_vars => (RetryInv /\ AttributionInv /\ SteadyInv)'
  BY RetryStep, AttributionStep, SteadyStep
<1>3. AttributionInv /\ SteadyInv => HonestAttribution
  BY DEF AttributionInv, QuietAttribution, SteadyInv, HonestAttribution, Fixed, Http, Surfaces
<1> QED BY <1>1, <1>2, <1>3, PTL DEF Spec

-----------------------------------------------------------------------------
(* What the database holds, and what a request is                            *)

\* The rows are the ones that administration writes, and a call is one of the
\* requests.
StoredInv == IsDatabase(db) /\ (req # None => req \in Requests)

(* A search returns the place of a row, or 0.                                *)
LEMMA SelectedRow ==
    ASSUME NEW n \in Nat, NEW I \in SUBSET (1..n), I # {}
    PROVE  Min(I) \in I
<1>1. I \subseteq Nat /\ \A y \in I : y \in Nat
  OBVIOUS
<1>2. PICK x \in I : \A y \in I : ~ (<<y, x>> \in OpToRel(<, Nat))
  BY <1>1, NatLessThanWellFounded, WFMin
<1>3. \A y \in I : ~(y < x)
  BY <1>1, <1>2 DEF OpToRel
<1>4. \A y \in I : x <= y
  BY <1>1, <1>3
<1> QED BY <1>4 DEF Min

(* So does the search for a provider by its name.                           *)
LEMMA RowIsPlace ==
    ASSUME NEW rows, Len(rows) \in Nat, NEW name
    PROVE  Row(rows, name) \in 0..Len(rows)
<1> DEFINE I == {i \in 1..Len(rows) : rows[i].name = name}
<1>1. Row(rows, name) = IF I # {} THEN Min(I) ELSE 0
  BY DEF Row, SelectInSeq
<1>2. I # {} => Min(I) \in I
  BY SelectedRow
<1>3. \A i \in I : i \in 1..Len(rows)
  OBVIOUS
<1> HIDE DEF I
<1> QED BY <1>1, <1>2, <1>3

(* A sequence over S is one over its own elements, which are in S.           *)
LEMMA OverItsElements ==
    ASSUME NEW S, NEW s \in Seq(S)
    PROVE  s \in Seq(ToSet(s)) /\ ToSet(s) \subseteq S
<1>1. Len(s) \in Nat /\ DOMAIN s = 1..Len(s) /\ \A i \in 1..Len(s) : s[i] \in S
  OBVIOUS
<1>2. \A i \in 1..Len(s) : s[i] \in ToSet(s)
  BY <1>1 DEF ToSet
<1>3. s \in [1..Len(s) -> ToSet(s)]
  <2>1. s = [i \in 1..Len(s) |-> s[i]]
    OBVIOUS
  <2> QED BY <1>2, <2>1
<1>4. s \in Seq(ToSet(s))
  BY <1>1, <1>3, SeqDef
<1>5. ToSet(s) \subseteq S
  BY <1>1 DEF ToSet
<1> QED BY <1>4, <1>5

(* The rows that remain after a delete.                                      *)
LEMMA RowsRemain ==
    ASSUME IsDatabase(db), NEW name
    PROVE  Others(name) \in Seq(ToSet(db.providers))
<1> DEFINE s == db.providers
           S == ToSet(s)
           I == {i \in 1..Len(s) : s[i].name = name}
<1>1. s \in Seq(S) /\ Len(s) \in Nat
  BY DEF IsDatabase
<1>2. Others(name) = IF \E i \in 1..Len(s) : s[i].name = name THEN RemoveAt(s, IF I # {} THEN Min(I) ELSE 0) ELSE s
  BY DEF Others, RemoveFirstMatch, SelectInSeq
<1>3. I # {} => Min(I) \in 1..Len(s)
  BY <1>1, SelectedRow
<1>4. (\E i \in 1..Len(s) : s[i].name = name) => I # {}
  OBVIOUS
<1> HIDE DEF s, S, I
<1>5. ASSUME NEW i \in 1..Len(s) PROVE RemoveAt(s, i) \in Seq(S)
  <2>1. SubSeq(s, 1, i - 1) \in Seq(S) /\ SubSeq(s, i + 1, Len(s)) \in Seq(S)
    BY <1>1
  <2> QED BY <2>1 DEF RemoveAt
<1>6. Others(name) \in Seq(S)
  BY <1>1, <1>2, <1>3, <1>4, <1>5
<1> QED BY <1>6 DEF S, s

(* The rows with one more, wherever the database puts it.                    *)
LEMMA RowInserted ==
    ASSUME NEW S, NEW s \in Seq(S), NEW e, NEW i \in 1..(Len(s) + 1)
    PROVE  InsertAt(s, i, e) \in Seq(S \union {e})
<1>1. SubSeq(s, 1, i - 1) \in Seq(S) /\ SubSeq(s, i, Len(s)) \in Seq(S)
  OBVIOUS
<1>2. SubSeq(s, 1, i - 1) \in Seq(S \union {e}) /\ SubSeq(s, i, Len(s)) \in Seq(S \union {e}) /\ <<e>> \in Seq(S \union {e})
  <2>1. S \subseteq S \union {e}
    OBVIOUS
  <2> QED BY <1>1, <2>1, SeqMonotonic
<1>3. SubSeq(s, 1, i - 1) \o <<e>> \in Seq(S \union {e})
  BY <1>2
<1> QED BY <1>2, <1>3 DEF InsertAt

(* What provider_create stores is encrypted at most once: it does not        *)
(* encrypt a ciphertext.                                                     *)
LEMMA StoredOnce ==
    ASSUME NEW p, IsProvider(p), NEW m \in MasterKey, stored_credential(p.credential, m) # Err
    PROVE  IsProvider([p EXCEPT !.credential = stored_credential(p.credential, m)])
<1> DEFINE c == p.credential
           x == stored_credential(c, m)
<1>1. c = None \/ (c \in Credential /\ Len(c.keys) <= 1)
  BY DEF IsProvider
<1>2. x = None \/ (x \in Credential /\ Len(x.keys) <= 1)
  <2>1. CASE c = None
    BY <2>1 DEF stored_credential
  <2>2. CASE c # None /\ is_encrypted(c)
    BY <1>1, <2>2 DEF stored_credential
  <2>3. CASE c # None /\ ~is_encrypted(c)
    <3>1. c \in Credential /\ c.keys = <<>>
      BY <1>1, <2>3 DEF is_encrypted
    <3>2. CASE m \in Keys
      <4>1. <<m>> \o c.keys = <<m>> /\ <<m>> \in Seq(Keys)
        BY <3>1, <3>2
      <4>2. encrypt_v1(c, m) = [c EXCEPT !.keys = <<m>>]
        BY <4>1 DEF encrypt_v1
      <4>3. encrypt_v1(c, m) \in Credential /\ encrypt_v1(c, m).keys = <<m>>
        BY <3>1, <4>1, <4>2 DEF Credential
      <4>4. Len(<<m>>) = 1
        OBVIOUS
      <4>5. x \in {c, Err, encrypt_v1(c, m)}
        BY <2>3, <3>2 DEF stored_credential, MasterKey
      <4>6. x # Err
        OBVIOUS
      <4>7. Len(encrypt_v1(c, m).keys) <= 1
        BY <4>4, <4>3
      <4> HIDE DEF x, c
      <4> QED BY <1>1, <2>3, <4>3, <4>5, <4>6, <4>7
    <3>3. CASE m \in {"unset", "refused"} /\ m \notin Keys
      BY <1>1, <2>3, <3>3 DEF stored_credential
    <3> QED BY <3>2, <3>3 DEF MasterKey
  <2> QED BY <2>1, <2>2, <2>3
<1> HIDE DEF x, c
<1>3. p = [name |-> p.name, kind |-> p.kind, provider |-> p.provider, model |-> p.model, credential |-> p.credential]
  BY DEF IsProvider
<1>4. [p EXCEPT !.credential = x] =
        [name |-> p.name, kind |-> p.kind, provider |-> p.provider, model |-> p.model, credential |-> x]
  BY <1>3
<1> QED BY <1>2, <1>4 DEF IsProvider, x, c

(* Administration keeps the rows what they are.                              *)
LEMMA StoredStep ==
    ASSUME StoredInv, [Next]_vars
    PROVE  StoredInv'
<1> USE DEF StoredInv
<1>1. IsDatabase(db)
  OBVIOUS
<1>2. ASSUME NEW d, Administer(d), IsDatabase(d) PROVE StoredInv'
  BY <1>2 DEF Administer
<1>3. /\ db = [providers |-> db.providers, namespaces |-> db.namespaces, stored |-> db.stored,
               master_key |-> db.master_key, eager |-> db.eager]
      /\ db.providers \in Seq(ToSet(db.providers)) /\ \A p \in ToSet(db.providers) : IsProvider(p)
      /\ \A name \in DOMAIN db.namespaces : IsBudget(db.namespaces[name].budget)
      /\ db.stored \subseteq Chunks
      /\ db.master_key \in MasterKey /\ db.eager \in BOOLEAN
  BY <1>1 DEF IsDatabase
<1>4. ASSUME NEW s, NEW S, s \in Seq(S), \A p \in S : IsProvider(p), Administer([db EXCEPT !.providers = s])
      PROVE  StoredInv'
  <2>1. s \in Seq(ToSet(s)) /\ \A p \in ToSet(s) : IsProvider(p)
    BY <1>4, OverItsElements
  <2>2. [db EXCEPT !.providers = s] =
            [providers |-> s, namespaces |-> db.namespaces, stored |-> db.stored, master_key |-> db.master_key,
             eager |-> db.eager]
    BY <1>3
  <2>3. IsDatabase([db EXCEPT !.providers = s])
    BY <1>3, <2>1, <2>2 DEF IsDatabase
  <2> QED BY <1>2, <1>4, <2>3
<1>5. ASSUME NEW p \in NewProviders, provider_create(p) PROVE StoredInv'
  <2> DEFINE row == [p EXCEPT !.credential = stored_credential(p.credential, db.master_key)]
  <2>1. PICK i \in 1..(Len(Others(p.name)) + 1) : Administer([db EXCEPT !.providers = InsertAt(Others(p.name), i, row)])
    BY <1>5 DEF provider_create
  <2>2. IsProvider(row)
    BY <1>3, <1>5, AskAssumption, StoredOnce DEF provider_create
  <2> HIDE DEF row
  <2>3. InsertAt(Others(p.name), i, row) \in Seq(ToSet(db.providers) \union {row})
    BY <1>1, RowsRemain, RowInserted
  <2> QED BY <1>3, <1>4, <2>1, <2>2, <2>3
<1>6. ASSUME NEW name, provider_drop(name) PROVE StoredInv'
  BY <1>1, <1>3, <1>4, <1>6, RowsRemain DEF provider_drop
<1>7. ASSUME NEW n \in NewNamespaces, namespace_create(n) PROVE StoredInv'
  <2> DEFINE N == [m \in DOMAIN db.namespaces \union {n.name} |->
                    IF m = n.name THEN [llm_provider |-> n.llm_provider, budget |-> n.budget] ELSE db.namespaces[m]]
  <2>1. Administer([db EXCEPT !.namespaces = N])
    BY <1>7 DEF namespace_create
  <2>2. \A m \in DOMAIN N : IsBudget(N[m].budget)
    BY <1>3, AskAssumption
  <2> HIDE DEF N
  <2>3. [db EXCEPT !.namespaces = N] =
            [providers |-> db.providers, namespaces |-> N, stored |-> db.stored, master_key |-> db.master_key,
             eager |-> db.eager]
    BY <1>3
  <2>4. IsDatabase([db EXCEPT !.namespaces = N])
    BY <1>3, <2>2, <2>3 DEF IsDatabase
  <2> QED BY <1>2, <2>1, <2>4
<1>8. ASSUME NEW name, NEW cascade, namespace_drop(name, cascade) PROVE StoredInv'
  <2> DEFINE N    == [m \in DOMAIN db.namespaces \ {name} |-> db.namespaces[m]]
             gone == {c \in db.stored : Corpus[c].namespace = name}
             d    == [db EXCEPT !.namespaces = N, !.stored = db.stored \ gone]
  <2>1. Administer(d)
    BY <1>8 DEF namespace_drop
  <2>2. \A m \in DOMAIN N : IsBudget(N[m].budget)
    BY <1>3
  <2> HIDE DEF N, gone
  <2>3. d = [providers |-> db.providers, namespaces |-> N, stored |-> db.stored \ gone, master_key |-> db.master_key,
             eager |-> db.eager]
    <3> DEFINE left == db.stored \ gone
    <3>1. d = [db EXCEPT !.namespaces = N, !.stored = left] /\ left = db.stored \ gone
      OBVIOUS
    <3> HIDE DEF left, d
    <3> QED BY <1>3, <3>1
  <2> HIDE DEF d
  <2>4. IsDatabase(d)
    BY <1>3, <2>2, <2>3 DEF IsDatabase
  <2> QED BY <1>2, <2>1, <2>4
<1>9. ASSUME NEW x, delete_document(x) PROVE StoredInv'
  <2> DEFINE kept == {c \in db.stored : Corpus[c].document # x}
  <2>1. Administer([db EXCEPT !.stored = kept]) /\ kept \subseteq db.stored
    BY <1>9 DEF delete_document
  <2> HIDE DEF kept
  <2>2. [db EXCEPT !.stored = kept] =
            [providers |-> db.providers, namespaces |-> db.namespaces, stored |-> kept, master_key |-> db.master_key,
             eager |-> db.eager]
    BY <1>3
  <2>3. IsDatabase([db EXCEPT !.stored = kept])
    BY <1>3, <2>1, <2>2 DEF IsDatabase
  <2> QED BY <1>2, <2>1, <2>3
<1>10. ASSUME NEW m \in NewKeys, set_master_key(m) PROVE StoredInv'
  <2>1. [db EXCEPT !.master_key = m] =
            [providers |-> db.providers, namespaces |-> db.namespaces, stored |-> db.stored, master_key |-> m,
             eager |-> db.eager]
    BY <1>3
  <2>2. IsDatabase([db EXCEPT !.master_key = m])
    BY <1>3, <2>1, AskAssumption DEF IsDatabase
  <2> QED BY <1>2, <1>10, <2>2 DEF set_master_key
<1>11. CASE administration
  <2> HIDE DEF StoredInv
  <2> QED BY <1>5, <1>6, <1>7, <1>8, <1>9, <1>10, <1>11 DEF administration
<1>12. ASSUME UNCHANGED <<db, req>> PROVE StoredInv'
  BY <1>12
<1>13. CASE ask_handler
  <2>1. UNCHANGED <<db, req>>
    BY <1>13 DEF ask_handler, AskJson, check_namespace, ns_default, resolve, build, provider_model, embed, query,
                 ask_token_budget, build_prompt, complete_once, run_with_retry, give_up, Fail, Return, Proceed
  <2> HIDE DEF StoredInv
  <2> QED BY <1>12, <2>1
<1>14. CASE lose_connection \/ pg_net \/ pgrg_ask \/ cancel \/ UNCHANGED vars
  BY <1>12, <1>14 DEF lose_connection, pg_net, deliver, lose_request, respond, break_off, pgrg_ask, await_response,
                      poll_found, poll_not_found, cancel, vars
<1>15. CASE end
  BY <1>15 DEF end
<1>16. ASSUME NEW r \in Requests, begin(r) PROVE StoredInv'
  BY <1>16 DEF begin
<1> QED BY <1>11, <1>13, <1>14, <1>15, <1>16 DEF Next

(* A provider is built with its credential in the clear.                     *)
LEMMA BuiltInTheClear ==
    ASSUME StoredInv, NEW name, NEW impl, impl = build_provider_impl(db.providers, name, db.master_key), impl # Err
    PROVE  impl.credential # None => impl.credential.keys = <<>>
<1> DEFINE i    == Row(db.providers, name)
           cred == plaintext(db.providers[i].credential, db.master_key)
<1>1. i # 0 /\ cred # Err /\ impl.credential = cred
  BY DEF build_provider_impl
<1>2. Len(db.providers) \in Nat /\ DOMAIN db.providers = 1..Len(db.providers)
  BY DEF StoredInv, IsDatabase
<1>3. i \in 1..Len(db.providers)
  BY <1>1, <1>2, RowIsPlace
<1>4. IsProvider(db.providers[i])
  BY <1>2, <1>3 DEF StoredInv, IsDatabase, ToSet
<1> DEFINE c == db.providers[i].credential
<1> HIDE DEF i
<1>5. c = None \/ (c \in Credential /\ Len(c.keys) <= 1)
  BY <1>4 DEF IsProvider
<1>6. CASE c = None \/ ~is_encrypted(c)
  <2>1. cred = c
    BY <1>6 DEF plaintext
  <2> QED BY <1>1, <1>6, <2>1 DEF is_encrypted
<1>7. CASE c # None /\ is_encrypted(c)
  <2>1. cred = decrypt_v1(c, load_from_path(db.master_key))
    BY <1>1, <1>7 DEF plaintext
  <2>2. c.keys \in Seq(Keys) /\ c.keys # <<>> /\ Len(c.keys) <= 1 /\ c \in Credential
    BY <1>5, <1>7 DEF is_encrypted, Credential
  <2>3. Tail(c.keys) = <<>>
    BY <2>2
  <2>4. cred = [c EXCEPT !.keys = Tail(c.keys)]
    BY <1>1, <2>1 DEF decrypt_v1
  <2> HIDE DEF cred, c
  <2>5. cred.keys = <<>>
    BY <2>2, <2>3, <2>4 DEF Credential
  <2> QED BY <1>1, <2>5
<1> QED BY <1>6, <1>7

(* The credential in hand is that of a provider that was built, or of the    *)
(* one the call came with.                                                   *)
LEMMA SecretStep ==
    ASSUME AttributionInv, StoredInv, SecretsInTheClear, [Next]_vars
    PROVE  SecretsInTheClear'
<1> DEFINE Clear(impl) == impl.credential # None => impl.credential.keys = <<>>
<1>1. ASSUME Clear(got'.impl) PROVE SecretsInTheClear'
  BY <1>1 DEF SecretsInTheClear
<1>2. Clear(got.impl) /\ Clear(Fallback)
  BY DEF SecretsInTheClear, Fallback
<1> HIDE DEF Clear
<1>3. CASE ask_handler /\ ~build
  <2>1. got'.impl = got.impl
    <3>1. ASSUME NEW v PROVE /\ [got EXCEPT !.ns_default = v].impl = got.impl /\ [got EXCEPT !.name = v].impl = got.impl
                             /\ [got EXCEPT !.model = v].impl = got.impl /\ [got EXCEPT !.chunks = v].impl = got.impl
                             /\ [got EXCEPT !.budget = v].impl = got.impl /\ [got EXCEPT !.blocks = v].impl = got.impl
                             /\ [got EXCEPT !.numbers = v].impl = got.impl
      BY DEF AttributionInv
    <3>2. ASSUME NEW x, Return(x) PROVE got'.impl = got.impl
      BY <3>2 DEF Return
    <3>3. ASSUME NEW g, Proceed(g), g.impl = got.impl PROVE got'.impl = got.impl
      BY <3>3 DEF Proceed
    <3>4. CASE AskJson \/ check_namespace \/ ns_default \/ resolve \/ provider_model \/ embed
      BY <3>1, <3>4, <3>2, <3>3 DEF AskJson, check_namespace, ns_default, resolve, provider_model, embed, Fail
    <3>5. CASE query
      BY <3>1, <3>5, <3>2, <3>3 DEF query, Fail
    <3>6. CASE ask_token_budget \/ build_prompt
      BY <3>1, <3>6, <3>2, <3>3 DEF ask_token_budget, build_prompt, Fail
    <3>7. CASE complete_once \/ run_with_retry \/ give_up
      BY <3>1, <3>7 DEF complete_once, run_with_retry, give_up, Answer, Fail, Return
    <3> QED BY <1>3, <3>4, <3>5, <3>6, <3>7 DEF ask_handler
  <2> QED BY <1>1, <1>2, <2>1
<1>4. CASE build
  <2> DEFINE impl == IF Lost THEN Err ELSE build_provider_impl(db.providers, got.name, db.master_key)
  <2>1. got' = got \/ (impl # Err /\ got' = [got EXCEPT !.impl = impl]) \/ got' = [got EXCEPT !.impl = Fallback]
    BY <1>4 DEF build, Fail, Return, Proceed
  <2>2. ASSUME NEW v PROVE [got EXCEPT !.impl = v].impl = v
    BY DEF AttributionInv
  <2>3. impl # Err => Clear(impl)
    BY BuiltInTheClear DEF Clear
  <2> HIDE DEF impl
  <2> QED BY <1>1, <1>2, <2>1, <2>2, <2>3
<1>5. CASE lose_connection
  BY <1>1, <1>2, <1>5 DEF lose_connection, AttributionInv
<1>6. CASE pg_net \/ pgrg_ask \/ cancel \/ administration \/ UNCHANGED vars
  <2>1. ASSUME NEW d, Administer(d) PROVE got' = got
    BY <2>1 DEF Administer
  <2>2. got' = got
    BY <1>6, <2>1 DEF pg_net, deliver, lose_request, respond, break_off, pgrg_ask, await_response, poll_found,
                      poll_not_found, cancel, vars, administration, provider_create, provider_drop, namespace_create, namespace_drop,
                      delete_document, set_master_key
  <2> QED BY <1>1, <1>2, <2>2
<1>7. ASSUME NEW r \in Requests, begin(r) PROVE SecretsInTheClear'
  <2>1. got'.impl = r.impl
    BY <1>7 DEF begin, Hand
  <2>2. Clear(r.impl)
    BY <1>7, AskAssumption DEF IsRequest, Clear
  <2> QED BY <1>1, <2>1, <2>2
<1>8. CASE end
  <2>1. got'.impl = Fallback
    BY <1>8 DEF end, EmptyHand, Hand
  <2> QED BY <1>1, <1>2, <2>1
<1> QED BY <1>3, <1>4, <1>5, <1>6, <1>7, <1>8 DEF Next

(* The invariants so far hold at the start.                                  *)
LEMMA AskStarts == Init => RetryInv /\ AttributionInv /\ StoredInv
  BY AskAssumption DEF Init, RetryInv, Started, Retrying, NoReply, Reply, AttributionInv, EmptyHand, Hand, Asked,
                       QuietAttribution, StoredInv

(* Whoever rotates or removes the master key, and whatever was stored with   *)
(* it or without: no provider is built with a ciphertext for a credential    *)
(* (stored_credential, plaintext and build_provider_impl).                   *)
THEOREM SecretsAreDecrypted == Spec => []SecretsInTheClear
<1>1. Init => RetryInv /\ AttributionInv /\ StoredInv /\ SecretsInTheClear
  BY AskStarts DEF Init, SecretsInTheClear, EmptyHand, Hand, Fallback
<1>2. RetryInv /\ AttributionInv /\ StoredInv /\ SecretsInTheClear /\ [Next]_vars
        => (RetryInv /\ AttributionInv /\ StoredInv /\ SecretsInTheClear)'
  BY RetryStep, AttributionStep, StoredStep, SecretStep
<1> QED BY <1>1, <1>2, PTL DEF Spec

-----------------------------------------------------------------------------
(* What a step does to the chunks, the prompt and the answer                 *)

\* What the prompt and the answer are made of, as it was.
SameHand == got'.chunks = got.chunks /\ got'.budget = got.budget /\ got'.blocks = got.blocks /\ got'.numbers = got.numbers

\* The budget that is set, as the handler reads it.
Setting ==
    LET set == IF HasNamespace THEN Namespace.budget ELSE None
    IN  IF set \in {None, NotANumber} THEN DefaultBudget ELSE set

\* A step that is about something else, or fails, or tries again.
Aside ==
    /\ SameHand
    /\ \/ at' = 0 /\ reply'.status \notin {"rows", "answer"}
       \/ at' = at /\ reply' = reply
       \/ /\ at' = at + 1 /\ reply' = reply
          /\ ~Step("query") /\ ~Step("budget") /\ ~Step("build_ask_prompt") /\ ~Step("complete")

\* The query returns its rows, or hands them on.
Retrieves ==
    /\ Step("query")
    /\ \E rows :
        /\ SoundRows(rows, req, db.stored) /\ GraphRows(rows, req, db.stored)
        /\ \/ at' = 0 /\ SameHand /\ reply' = [Reply("rows") EXCEPT !.rows = rows]
           \/ /\ req.surface # "query" /\ at' = at + 1 /\ reply' = reply
              /\ got'.chunks = retrieve_chunks(rows)
              /\ got'.budget = got.budget /\ got'.blocks = got.blocks /\ got'.numbers = got.numbers

\* The budget is the one that is set, when the connection is there to read it.
SetsBudget ==
    /\ Step("budget")
    /\ at' = at + 1 /\ reply' = reply
    /\ got'.budget \in Int /\ (got.connected => got'.budget = Setting)
    /\ got'.chunks = got.chunks /\ got'.blocks = got.blocks /\ got'.numbers = got.numbers

\* The prompt is built, of what was retrieved.
Prompts ==
    /\ Step("build_ask_prompt")
    /\ at' = at + 1 /\ reply' = reply
    /\ ~Refused(got.chunks, got.budget)
    /\ got'.blocks = build_ask_prompt(got.chunks, got.budget)
    /\ got'.chunks = got.chunks /\ got'.budget = got.budget /\ got'.numbers = got.numbers

\* The model answers, and the answer is checked against the prompt.
Completes ==
    /\ Step("complete")
    /\ at' = 0
    /\ got'.numbers \in Seq(Int)
    /\ reply' = [Reply("answer") EXCEPT !.cited = extract_citations(got'.numbers, got.blocks, got.chunks)]
    /\ got'.chunks = got.chunks /\ got'.budget = got.budget /\ got'.blocks = got.blocks

(* The handler's steps.                                                      *)
LEMMA HandlerTurns ==
    ASSUME RetryInv, AttributionInv, StoredInv, ask_handler
    PROVE  /\ at > 0 /\ reply = NoReply /\ req # None /\ UNCHANGED <<db, quiet, req, net>>
           /\ Aside \/ Retrieves \/ SetsBudget \/ Prompts \/ Completes
<1>1. at > 0 /\ UNCHANGED <<db, quiet, req, net>>
  BY DEF ask_handler, AskJson, check_namespace, ns_default, resolve, build, provider_model, embed, query,
         ask_token_budget, build_prompt, complete_once, run_with_retry, give_up, Fail, Return, Proceed, Step
<1>2. reply = NoReply /\ req # None /\ req \in Requests
  BY <1>1 DEF RetryInv, Started, StoredInv
<1> SUFFICES Aside \/ Retrieves \/ SetsBudget \/ Prompts \/ Completes
  BY <1>1, <1>2
<1>3. ASSUME NEW x, Return(x) PROVE SameHand /\ at' = 0 /\ reply' = x
  BY <1>3 DEF Return, SameHand
<1>4. ASSUME NEW x, Return(x), x.status \notin {"rows", "answer"} PROVE Aside
  BY <1>3, <1>4 DEF Aside
<1>5. ASSUME Fail PROVE Aside
  BY <1>4, <1>5 DEF Fail, Reply
<1>6. ASSUME NEW g, Proceed(g) PROVE got' = g /\ at' = at + 1 /\ reply' = reply
  BY <1>6 DEF Proceed
<1>7. ASSUME NEW v, NEW g,
             \/ g = got
             \/ g = [got EXCEPT !.ns_default = v] \/ g = [got EXCEPT !.name = v]
             \/ g = [got EXCEPT !.model = v] \/ g = [got EXCEPT !.impl = v]
      PROVE  /\ g.chunks = got.chunks /\ g.budget = got.budget /\ g.blocks = got.blocks
             /\ g.numbers = got.numbers
  BY <1>7 DEF AttributionInv
<1>8. ASSUME NEW v
      PROVE  /\ [got EXCEPT !.chunks = v].chunks = v /\ [got EXCEPT !.chunks = v].budget = got.budget
             /\ [got EXCEPT !.chunks = v].blocks = got.blocks /\ [got EXCEPT !.chunks = v].numbers = got.numbers
             /\ [got EXCEPT !.budget = v].chunks = got.chunks /\ [got EXCEPT !.budget = v].budget = v
             /\ [got EXCEPT !.budget = v].blocks = got.blocks /\ [got EXCEPT !.budget = v].numbers = got.numbers
             /\ [got EXCEPT !.blocks = v].chunks = got.chunks /\ [got EXCEPT !.blocks = v].budget = got.budget
             /\ [got EXCEPT !.blocks = v].blocks = v /\ [got EXCEPT !.blocks = v].numbers = got.numbers
             /\ [got EXCEPT !.numbers = v].chunks = got.chunks /\ [got EXCEPT !.numbers = v].budget = got.budget
             /\ [got EXCEPT !.numbers = v].blocks = got.blocks /\ [got EXCEPT !.numbers = v].numbers = v
  BY DEF AttributionInv
<1>9. ASSUME NEW s, Step(s), s \in {"body", "check_namespace", "ns_default", "resolve", "build", "model", "embed"},
             NEW g, Proceed(g), NEW v,
             \/ g = got
             \/ g = [got EXCEPT !.ns_default = v] \/ g = [got EXCEPT !.name = v]
             \/ g = [got EXCEPT !.model = v] \/ g = [got EXCEPT !.impl = v]
      PROVE  Aside
  <2>1. SameHand
    BY <1>6, <1>7, <1>9 DEF SameHand
  <2>2. ~Step("query") /\ ~Step("budget") /\ ~Step("build_ask_prompt") /\ ~Step("complete")
    BY <1>9 DEF Step
  <2> QED BY <1>6, <1>9, <2>1, <2>2 DEF Aside
<1>10. CASE AskJson \/ check_namespace \/ embed
  BY <1>4, <1>5, <1>9, <1>10 DEF AskJson, check_namespace, embed, Reply
<1>11. CASE ns_default \/ resolve
  BY <1>5, <1>9, <1>11 DEF ns_default, resolve
<1>12. CASE build \/ provider_model
  BY <1>5, <1>9, <1>12 DEF build, provider_model
<1>13. CASE query
  <2>1. CASE Fail
    BY <1>5, <2>1
  <2>2. CASE ~Fail
    <3>1. Step("query") /\ req.top_k \in Nat
      <4>1. req.top_k \in Int
        BY <1>2, AskAssumption DEF IsRequest
      <4>2. Step("query") /\ ~(req.top_k < 0)
        BY <1>13, <2>2 DEF query
      <4> QED BY <4>1, <4>2
    <3>2. PICK v \in vec_lane(req, db.stored), b \in bm_lane(req, db.stored), g \in graph_lane(req, db.stored) :
            \E rows \in fused(req, RrfWeights(req.weights), [vec |-> v, bm25 |-> b, graph |-> g]) :
                CASE req.surface = "query" -> Return([Reply("rows") EXCEPT !.rows = rows])
                  [] req.surface # "query" /\ rows = <<>> -> Return(Reply("no context"))
                  [] req.surface # "query" /\ rows # <<>> -> Proceed([got EXCEPT !.chunks = retrieve_chunks(rows)])
      BY <1>13, <2>2 DEF query
    <3>3. PICK rows \in fused(req, RrfWeights(req.weights), [vec |-> v, bm25 |-> b, graph |-> g]) :
                \/ Return([Reply("rows") EXCEPT !.rows = rows])
                \/ Return(Reply("no context"))
                \/ req.surface # "query" /\ Proceed([got EXCEPT !.chunks = retrieve_chunks(rows)])
      BY <3>2
    <3>4. SoundRows(rows, req, db.stored) /\ GraphRows(rows, req, db.stored)
      <4>1. req.q.near \subseteq Entities /\ req.hops \in Int
        BY <1>2, AskAssumption DEF IsRequest
      <4>2. db.stored \in SUBSET Chunks
        BY DEF StoredInv, IsDatabase
      <4> QED BY <3>1, <3>2, <3>3, <4>1, <4>2, QueryIsSound
    <3>5. CASE Return([Reply("rows") EXCEPT !.rows = rows])
      BY <1>3, <3>1, <3>4, <3>5 DEF Retrieves
    <3>6. CASE Return(Reply("no context"))
      BY <1>4, <3>6 DEF Reply
    <3>7. CASE req.surface # "query" /\ Proceed([got EXCEPT !.chunks = retrieve_chunks(rows)])
      <4>1. got' = [got EXCEPT !.chunks = retrieve_chunks(rows)] /\ at' = at + 1 /\ reply' = reply
        BY <1>6, <3>7
      <4>2. /\ got'.chunks = retrieve_chunks(rows) /\ got'.budget = got.budget /\ got'.blocks = got.blocks
            /\ got'.numbers = got.numbers
        BY <1>8, <4>1
      <4> QED BY <3>1, <3>4, <3>7, <4>1, <4>2 DEF Retrieves
    <3> QED BY <3>3, <3>5, <3>6, <3>7
  <2> QED BY <2>1, <2>2
<1>14. CASE ask_token_budget
  <2> DEFINE set == IF ~Lost /\ HasNamespace THEN Namespace.budget ELSE None
             b   == IF set \in {None, NotANumber} THEN DefaultBudget ELSE set
  <2>1. CASE Fail
    BY <1>5, <2>1
  <2>2. CASE ~Fail
    <3>1. Step("budget") /\ Proceed([got EXCEPT !.budget = b])
      BY <1>14, <2>2 DEF ask_token_budget
    <3>2. b \in Int
      <4>1. set = None \/ IsBudget(set)
        BY DEF StoredInv, IsDatabase, HasNamespace, Namespace
      <4>2. DefaultBudget \in Int
        BY AskAssumption
      <4> HIDE DEF set
      <4> QED BY <4>1, <4>2 DEF IsBudget
    <3>3. got.connected => b = Setting
      BY DEF Setting, Lost
    <3> HIDE DEF b
    <3>4. got' = [got EXCEPT !.budget = b] /\ at' = at + 1 /\ reply' = reply
      BY <1>6, <3>1
    <3> QED BY <1>8, <3>1, <3>2, <3>3, <3>4 DEF SetsBudget
  <2> QED BY <2>1, <2>2
<1>15. CASE build_prompt
  <2>1. CASE Fail
    BY <1>5, <2>1
  <2>2. CASE ~Fail
    <3>1. /\ Step("build_ask_prompt") /\ ~Refused(got.chunks, got.budget)
          /\ Proceed([got EXCEPT !.blocks = build_ask_prompt(got.chunks, got.budget)])
      BY <1>15, <2>2 DEF build_prompt
    <3>2. got' = [got EXCEPT !.blocks = build_ask_prompt(got.chunks, got.budget)] /\ at' = at + 1 /\ reply' = reply
      BY <1>6, <3>1
    <3> QED BY <1>8, <3>1, <3>2 DEF Prompts
  <2> QED BY <2>1, <2>2
<1>16. ASSUME NEW numbers \in Seq(Int), Answer(numbers), Step("complete") PROVE Completes
  <2>1. /\ reply' = [Reply("answer") EXCEPT !.cited = extract_citations(numbers, got.blocks, got.chunks)]
        /\ got' = [got EXCEPT !.numbers = numbers] /\ at' = 0
    BY <1>16 DEF Answer
  <2>2. /\ got'.numbers = numbers /\ got'.chunks = got.chunks /\ got'.budget = got.budget
        /\ got'.blocks = got.blocks
    BY <1>8, <2>1
  <2> QED BY <1>16, <2>1, <2>2 DEF Completes
<1>17. ASSUME NEW numbers \in Answers \union {<<>>}, Answer(numbers), Step("complete") PROVE Completes
  <2>1. <<>> \in Seq(Int) /\ Answers \subseteq Seq(Int)
    BY AskAssumption
  <2> QED BY <1>16, <1>17, <2>1
<1>18. CASE complete_once
  <2>1. Step("complete") /\ (Fail \/ \E numbers \in Answers \union {<<>>} : Answer(numbers))
    BY <1>18 DEF complete_once
  <2> QED BY <1>5, <1>17, <2>1
<1>19. CASE run_with_retry
  <2>1. /\ Step("complete")
        /\ \/ \E numbers \in Answers : Answer(numbers)
           \/ got' = got /\ reply' = Reply("error") /\ at' = 0
           \/ got' = got /\ UNCHANGED <<reply, at>>
    BY <1>19 DEF run_with_retry
  <2>2. CASE got' = got /\ reply' = Reply("error") /\ at' = 0
    BY <2>2 DEF Aside, SameHand, Reply
  <2>3. CASE got' = got /\ UNCHANGED <<reply, at>>
    BY <2>3 DEF Aside, SameHand
  <2> QED BY <1>17, <2>1, <2>2, <2>3
<1>20. CASE give_up
  BY <1>5, <1>20 DEF give_up
<1> QED BY <1>1, <1>2, <1>10, <1>11, <1>12, <1>13, <1>14, <1>15, <1>18, <1>19, <1>20 DEF ask_handler

\* A step of anyone else, while there is a call.
Elsewhere ==
    /\ SameHand
    /\ UNCHANGED <<req, reply>>
    /\ at' \in {at, 0} \/ (net = "queued" /\ at' = 1)
    /\ quiet' /\ req # None => quiet /\ db' = db
    /\ net' = "queued" => net = "queued"

(* The other steps.                                                          *)
LEMMA OtherTurns ==
    ASSUME RetryInv, AttributionInv, [Next]_vars, ~ask_handler
    PROVE  (\E r \in Requests : begin(r)) \/ end \/ Elsewhere
<1>1. CASE lose_connection
  <2>1. SameHand
    BY <1>1 DEF lose_connection, AttributionInv, SameHand
  <2> QED BY <1>1, <2>1 DEF lose_connection, Elsewhere
<1>2. CASE pg_net
  <2>1. got' = got /\ UNCHANGED <<db, quiet, req, reply>> /\ (at' \in {at, 0} \/ (net = "queued" /\ at' = 1))
        /\ (net' = "queued" => net = "queued")
    BY <1>2 DEF pg_net, deliver, lose_request, respond, break_off
  <2> QED BY <2>1 DEF Elsewhere, SameHand
<1>3. CASE pgrg_ask \/ cancel \/ UNCHANGED vars
  BY <1>3 DEF pgrg_ask, await_response, poll_found, poll_not_found, cancel, vars, Elsewhere, SameHand
<1>4. ASSUME NEW d, Administer(d) PROVE Elsewhere
  BY <1>4 DEF Administer, Elsewhere, SameHand
<1>5. CASE administration
  BY <1>4, <1>5 DEF administration, provider_create, provider_drop, namespace_create,
                    namespace_drop, delete_document, set_master_key
<1> QED BY <1>1, <1>2, <1>3, <1>5 DEF Next

(* A call begins and ends with empty hands.                                  *)
LEMMA EmptyHands ==
    ASSUME RetryInv, StoredInv, end \/ \E r \in Requests : begin(r)
    PROVE  /\ reply' = NoReply /\ got'.blocks = <<>>
           /\ got'.chunks \in Seq(Chunks) /\ got'.budget \in Int
           /\ req' # None /\ req'.surface # "library" => got'.chunks = <<>>
           /\ at' \in {0, 1} /\ (req' = None => at' = 0)
<1>1. CASE end
  BY <1>1 DEF end, EmptyHand, Hand, RetryInv, Started, Busy
<1>2. ASSUME NEW r \in Requests, begin(r) PROVE /\ reply' = NoReply /\ got'.blocks = <<>>
           /\ got'.chunks = r.chunks /\ got'.budget = r.budget /\ req' = r /\ at' \in {0, 1}
  BY <1>2 DEF begin, Hand, RetryInv, Started
<1>3. \A r \in Requests : r # None /\ r.chunks \in Seq(Chunks) /\ r.budget \in Int /\ (r.surface # "library" => r.chunks = <<>>)
  BY AskAssumption DEF IsRequest
<1> QED BY <1>1, <1>2, <1>3

(* Rows of the query, as what the property says of them.                     *)
LEMMA RowsAreSound ==
    ASSUME NEW rows, NEW r, r.top_k \in Int, NEW stored, SoundRows(rows, r, stored)
    PROVE  LET found == {rows[i].chunk : i \in 1..Len(rows)}
           IN  /\ Cardinality(found) = Len(rows)
               /\ Len(rows) <= r.top_k
               /\ \A c \in found : InScope(c, r)
               /\ \A i, j \in 1..Len(rows) : Dominates(rows[i], rows[j]) /\ r.weights = Equal => i < j
<1> DEFINE found == {rows[i].chunk : i \in 1..Len(rows)}
           s     == [i \in 1..Len(rows) |-> rows[i].chunk]
<1>1. Len(rows) \in Nat
  BY DEF SoundRows
<1>2. ToSet(s) = found /\ DOMAIN s = 1..Len(rows) /\ s = [i \in 1..Len(rows) |-> s[i]]
  BY DEF ToSet
<1>3. \A i, j \in 1..Len(rows) : i # j => s[i] # s[j]
  BY DEF SoundRows
<1> HIDE DEF s
<1>4. Cardinality(found) = Len(rows)
  BY <1>1, <1>2, <1>3, DistinctCount
<1>5. \A c \in found : InScope(c, r)
  BY DEF SoundRows, InReach
<1> QED BY <1>4, <1>5 DEF SoundRows

(* A result stays sound until the next call.                                 *)
LEMMA RetrievalStep ==
    ASSUME RetryInv, AttributionInv, StoredInv, RetrievalIsSound, [Next]_vars
    PROVE  RetrievalIsSound'
<1>1. ASSUME reply'.status # "rows" PROVE RetrievalIsSound'
  BY <1>1 DEF RetrievalIsSound
<1>2. CASE ask_handler
  <2>1. at > 0 /\ reply = NoReply /\ req \in Requests /\ UNCHANGED <<db, quiet, req, net>>
        /\ (Aside \/ Retrieves \/ SetsBudget \/ Prompts \/ Completes)
    BY <1>2, HandlerTurns DEF StoredInv
  <2>2. CASE reply'.status # "rows"
    BY <1>1, <2>2
  <2>3. CASE reply'.status = "rows"
    <3>1. Retrieves
      BY <2>1, <2>3 DEF Aside, SetsBudget, Prompts, Completes, NoReply, Reply
    <3>2. PICK rows : SoundRows(rows, req, db.stored) /\ GraphRows(rows, req, db.stored) /\ reply'.rows = rows
      BY <2>1, <2>3, <3>1 DEF Retrieves, NoReply, Reply
    <3>3. req.top_k \in Int
      BY <2>1, AskAssumption DEF IsRequest
    <3> DEFINE found == {rows[i].chunk : i \in 1..Len(rows)}
    <3>4. /\ Cardinality(found) = Len(rows)
          /\ Len(rows) <= req.top_k
          /\ \A c \in found : InScope(c, req)
          /\ \A i, j \in 1..Len(rows) : Dominates(rows[i], rows[j]) /\ req.weights = Equal => i < j
      BY <3>2, <3>3, RowsAreSound
    <3>5. req.mode = "graph" =>
                \E S \in seeds(req) :
                    LET all == Reached(req, db.stored, S)
                    IN  found \subseteq all /\ Len(rows) = Least({Cardinality(all), LaneLimit, req.top_k})
      BY <3>2 DEF GraphRows
    <3> QED BY <2>1, <3>2, <3>4, <3>5 DEF RetrievalIsSound
  <2> QED BY <2>2, <2>3
<1>3. CASE end \/ \E r \in Requests : begin(r)
  BY <1>1, <1>3, EmptyHands DEF NoReply, Reply
<1>4. CASE Elsewhere
  <2>1. reply.status = "rows" => req # None
    BY DEF RetryInv, Started, NoReply, Reply
  <2> QED BY <1>4, <2>1 DEF Elsewhere, RetrievalIsSound
<1> QED BY <1>2, <1>3, <1>4, OtherTurns

(* What the query returns is sound for any corpus and graph, any order of    *)
(* equal rows and whatever is administered around it; in graph mode it is    *)
(* complete too (run_query and the walk in retrieval/sql.rs).                *)
THEOREM RetrievalHolds == Spec => []RetrievalIsSound
<1>1. Init => RetryInv /\ AttributionInv /\ StoredInv /\ RetrievalIsSound
  BY AskStarts DEF Init, RetrievalIsSound, NoReply, Reply
<1>2. RetryInv /\ AttributionInv /\ StoredInv /\ RetrievalIsSound /\ [Next]_vars
        => (RetryInv /\ AttributionInv /\ StoredInv /\ RetrievalIsSound)'
  BY RetryStep, AttributionStep, StoredStep, RetrievalStep
<1> QED BY <1>1, <1>2, PTL DEF Spec

-----------------------------------------------------------------------------
(* The prompt and the citations                                              *)

\* The handler is past a statement of its path.
Passed(s) == \E i \in 1..(at - 1) : Path(req)[i] = s

\* The handler is on its path; it has a prompt only when that is built, of
\* chunks that are in scope, with the budget that was set.
PromptInv ==
    /\ req # None => at \in 0..Len(Path(req))
    /\ got.chunks \in Seq(Chunks) /\ got.budget \in Int /\ got.blocks \in Seq(Chunks)
    /\ ToSet(got.blocks) \subseteq ToSet(got.chunks)
    /\ req # None /\ req.surface # "library" => \A i \in 1..Len(got.chunks) : InScope(got.chunks[i], req)
    /\ Asked /\ Passed("budget") => got.budget = Setting
    /\ got.blocks # <<>> => req # None /\ net # "queued" /\ (at > 0 => Step("complete"))
    /\ PromptKeepsBudget

(* The order of the statements, on every way in.                             *)
LEMMA PathOrder ==
    ASSUME NEW r, r.surface \in Surfaces
    PROVE  /\ Len(Path(r)) \in Nat \ {0}
           /\ r.surface = "query" => Len(Path(r)) = 1 /\ Path(r)[1] = "query"
           /\ r.surface # "query" => Path(r)[Len(Path(r))] = "complete"
           /\ \A n \in 1..Len(Path(r)) : Path(r)[n] = "build_ask_prompt" =>
                /\ n + 1 = Len(Path(r))
                /\ r.surface # "library" => \E i \in 1..(n - 1) : Path(r)[i] = "budget"
<1>1. CASE r.surface = "query"
  BY <1>1 DEF Path, Http
<1>2. CASE r.surface = "library"
  BY <1>2 DEF Path, Http
<1>3. CASE r.surface = "sql"
  <2>1. Path(r) = <<"ns_default", "resolve", "query", "budget", "build", "model", "build_ask_prompt", "complete">>
    BY <1>3 DEF Path, Http
  <2> QED BY <1>3, <2>1
<1>4. CASE Http(r) /\ r.llm_provider # None
  <2>1. Path(r) = <<"body", "check_namespace", "build", "ns_default", "resolve", "model", "embed",
                    "query", "budget", "build_ask_prompt", "complete">>
    BY <1>4 DEF Path, Http
  <2> QED BY <1>4, <2>1 DEF Http
<1>5. CASE Http(r) /\ r.llm_provider = None
  <2>1. Path(r) = <<"body", "check_namespace", "ns_default", "resolve", "build", "ns_default", "resolve",
                    "model", "embed", "query", "budget", "build_ask_prompt", "complete">>
    BY <1>5 DEF Path, Http
  <2> QED BY <1>5, <2>1 DEF Http
<1> QED BY <1>1, <1>2, <1>3, <1>4, <1>5 DEF Surfaces, Http

(* Every step keeps the prompt what it is.                                   *)
LEMMA PromptStep ==
    ASSUME RetryInv, AttributionInv, StoredInv, PromptInv, [Next]_vars
    PROVE  PromptInv'
<1>1. CASE end \/ \E r \in Requests : begin(r)
  <2>1. /\ reply' = NoReply /\ got'.blocks = <<>>
        /\ got'.chunks \in Seq(Chunks) /\ got'.budget \in Int
        /\ req' # None /\ req'.surface # "library" => got'.chunks = <<>>
        /\ at' \in {0, 1} /\ (req' = None => at' = 0)
    BY <1>1, EmptyHands
  <2>2. req' # None => Len(Path(req')) \in Nat \ {0}
    <3>1. req' # None => req' \in Requests
      BY StoredStep DEF StoredInv
    <3> QED BY <3>1, AskAssumption, PathOrder DEF IsRequest
  <2>3. ~Passed("budget")'
    <3>1. CASE at' = 0
      BY <3>1 DEF Passed
    <3>2. CASE at' = 1
      BY <3>2 DEF Passed
    <3> QED BY <2>1, <3>1, <3>2
  <2>4. ToSet(got'.blocks) = {} /\ got'.blocks \in Seq(Chunks)
    BY <2>1 DEF ToSet
  <2>5. PromptKeepsBudget'
    BY <2>1 DEF PromptKeepsBudget
  <2> QED BY <2>1, <2>2, <2>3, <2>4, <2>5 DEF PromptInv
<1>2. CASE Elsewhere
  <2>1. /\ got'.chunks = got.chunks /\ got'.budget = got.budget /\ got'.blocks = got.blocks
        /\ req' = req /\ (at' \in {at, 0} \/ (net = "queued" /\ at' = 1))
        /\ (quiet' /\ req # None => quiet /\ db' = db)
        /\ (net' = "queued" => net = "queued")
    BY <1>2 DEF Elsewhere, SameHand
  <2>2. req # None => at' \in 0..Len(Path(req))
    <3>1. req # None => Len(Path(req)) \in Nat \ {0}
      BY AskAssumption, PathOrder DEF StoredInv, IsRequest
    <3> QED BY <2>1, <3>1 DEF PromptInv
  <2>3. Asked' /\ Passed("budget")' => got'.budget = Setting'
    <3> SUFFICES ASSUME Asked', Passed("budget")' PROVE got'.budget = Setting'
      OBVIOUS
    <3>1. Asked /\ db' = db
      BY <2>1 DEF Asked
    <3>2. at' = at
      BY <2>1 DEF Passed
    <3>3. Passed("budget") /\ Setting' = Setting
      BY <2>1, <3>1, <3>2 DEF Passed, Setting, HasNamespace, Namespace
    <3> QED BY <2>1, <3>1, <3>3 DEF PromptInv
  <2>4. got'.blocks # <<>> => net' # "queued" /\ (at' > 0 => Step("complete")')
    BY <2>1 DEF PromptInv, Step
  <2>5. PromptKeepsBudget'
    BY <2>1 DEF PromptInv, PromptKeepsBudget, HasNamespace, Namespace
  <2> QED BY <2>1, <2>2, <2>3, <2>4, <2>5 DEF PromptInv
<1>3. CASE ask_handler
  <2>1. /\ at > 0 /\ reply = NoReply /\ req # None /\ UNCHANGED <<db, quiet, req, net>>
        /\ Aside \/ Retrieves \/ SetsBudget \/ Prompts \/ Completes
    BY <1>3, HandlerTurns
  <2>2. at \in 1..Len(Path(req)) /\ req.surface \in Surfaces /\ Len(Path(req)) \in Nat \ {0}
    <3>1. at \in Nat /\ req \in Requests
      BY <2>1 DEF RetryInv, StoredInv
    <3>2. req.surface \in Surfaces
      BY <3>1, AskAssumption DEF IsRequest
    <3> QED BY <2>1, <3>1, <3>2, PathOrder DEF PromptInv
  <2>3. ASSUME NEW s, Step(s), s # "complete" PROVE got.blocks = <<>>
    BY <2>1, <2>3 DEF PromptInv, Step
  <2>4. ASSUME at' = at + 1, ~Step("complete"), req.surface = "query" => ~Step("query") PROVE at' \in 0..Len(Path(req))
    <3>1. at # Len(Path(req))
      BY <2>2, <2>4, PathOrder DEF Step
    <3> QED BY <2>2, <2>4, <3>1
  <2>5. Setting' = Setting /\ (Asked' => Asked /\ got.connected)
    BY <2>1 DEF Setting, HasNamespace, Namespace, Asked, AttributionInv
  <2>6. ASSUME at' \in {0, at} \/ (at' = at + 1 /\ ~Step("budget")), Passed("budget")' PROVE Passed("budget")
    BY <2>1, <2>2, <2>6 DEF Passed, Step
  <2>7. CASE Aside
    <3>1. got'.chunks = got.chunks /\ got'.budget = got.budget /\ got'.blocks = got.blocks
      BY <2>7 DEF Aside, SameHand
    <3>2. CASE at' \in {0, at}
      <4>1. at' \in 0..Len(Path(req)) /\ (at' > 0 => at' = at)
        BY <2>2, <3>2
      <4>2. got'.blocks # <<>> => net' # "queued" /\ (at' > 0 => Step("complete")')
        BY <2>1, <3>1, <4>1 DEF PromptInv, Step
      <4>3. PromptKeepsBudget'
        BY <2>1, <3>1 DEF PromptInv, PromptKeepsBudget, HasNamespace, Namespace
      <4> QED BY <2>1, <2>5, <2>6, <3>1, <3>2, <4>1, <4>2, <4>3 DEF PromptInv
    <3>3. CASE at' \notin {0, at}
      <4>1. at' = at + 1 /\ ~Step("query") /\ ~Step("budget") /\ ~Step("build_ask_prompt") /\ ~Step("complete")
        BY <2>7, <3>3 DEF Aside
      <4>2. got'.blocks = <<>>
        BY <2>1, <3>1, <4>1 DEF PromptInv
      <4>3. PromptKeepsBudget'
        BY <4>2 DEF PromptKeepsBudget
      <4> QED BY <2>1, <2>4, <2>5, <2>6, <3>1, <4>1, <4>2, <4>3 DEF PromptInv
    <3> QED BY <3>2, <3>3
  <2>8. CASE Retrieves
    <3>1. Step("query") /\ ~Step("budget") /\ ~Step("complete") /\ got.blocks = <<>>
      BY <2>3, <2>8 DEF Retrieves, Step
    <3>2. got'.blocks = <<>> /\ got'.budget = got.budget
      BY <2>8, <3>1 DEF Retrieves, SameHand
    <3>3. PromptKeepsBudget'
      BY <3>2 DEF PromptKeepsBudget
    <3>4. at' \in 0..Len(Path(req)) /\ (at' = 0 \/ (at' = at + 1 /\ ~Step("budget")))
      BY <2>2, <2>4, <2>8, <3>1 DEF Retrieves
    <3>5. /\ got'.chunks \in Seq(Chunks)
          /\ req.surface # "library" => \A i \in 1..Len(got'.chunks) : InScope(got'.chunks[i], req)
      <4>1. CASE got'.chunks = got.chunks
        BY <2>1, <4>1 DEF PromptInv
      <4>2. CASE got'.chunks # got.chunks
        <5>1. PICK rows : SoundRows(rows, req, db.stored) /\ got'.chunks = retrieve_chunks(rows)
          BY <2>8, <4>2 DEF Retrieves, SameHand
        <5>2. Len(rows) \in Nat /\ \A i \in 1..Len(rows) : rows[i].chunk \in InReach(req, db.stored)
          BY <5>1 DEF SoundRows
        <5>3. InReach(req, db.stored) \subseteq Chunks /\ \A c \in InReach(req, db.stored) : InScope(c, req)
          BY DEF InReach, StoredInv, IsDatabase
        <5>4. /\ got'.chunks \in Seq(Chunks) /\ Len(got'.chunks) = Len(rows)
              /\ \A i \in 1..Len(rows) : got'.chunks[i] = rows[i].chunk
          BY <5>1, <5>2, <5>3 DEF retrieve_chunks
        <5> QED BY <5>2, <5>3, <5>4
      <4> QED BY <4>1, <4>2
    <3>6. ToSet(got'.blocks) = {} /\ got'.blocks \in Seq(Chunks)
      BY <3>2 DEF ToSet
    <3> QED BY <2>1, <2>5, <2>6, <3>2, <3>3, <3>4, <3>5, <3>6 DEF PromptInv
  <2>9. CASE SetsBudget
    <3>1. Step("budget") /\ ~Step("query") /\ ~Step("complete") /\ got.blocks = <<>> /\ at' = at + 1
      BY <2>3, <2>9 DEF SetsBudget, Step
    <3>2. /\ got'.blocks = <<>> /\ got'.chunks = got.chunks
          /\ got'.budget \in Int /\ (got.connected => got'.budget = Setting)
      BY <2>9, <3>1 DEF SetsBudget
    <3>3. PromptKeepsBudget'
      BY <3>2 DEF PromptKeepsBudget
    <3>4. at' \in 0..Len(Path(req))
      BY <2>4, <3>1
    <3>5. ToSet(got'.blocks) = {} /\ got'.blocks \in Seq(Chunks)
      BY <3>2 DEF ToSet
    <3> QED BY <2>1, <2>5, <3>2, <3>3, <3>4, <3>5 DEF PromptInv
  <2>10. CASE Prompts
    <3>1. /\ Step("build_ask_prompt") /\ at' = at + 1
          /\ ~Refused(got.chunks, got.budget)
          /\ got'.blocks = build_ask_prompt(got.chunks, got.budget)
          /\ got'.chunks = got.chunks /\ got'.budget = got.budget
      BY <2>10 DEF Prompts
    <3>2. /\ got.chunks \in Seq(Chunk) /\ got.budget \in Int /\ Chunk = Chunks
      BY AskAssumption DEF PromptInv, Chunk
    <3>3. /\ got'.blocks \in Seq(Chunks) /\ got'.blocks # <<>>
          /\ ToSet(got'.blocks) \subseteq ToSet(got'.chunks)
          /\ Tokens(got'.blocks) <= got'.budget
          /\ Head(got'.blocks) = Head(got'.chunks)
          /\ KeepsOrder(got'.blocks, got'.chunks)
          /\ LeavesNoRoom(got'.blocks, got'.chunks, got'.budget)
      BY <3>1, <3>2, PromptFits
    <3>4. Path(req)[at] = "build_ask_prompt" /\ req.surface # "query"
      BY <2>2, <3>1, PathOrder DEF Step
    <3>5. at + 1 = Len(Path(req)) /\ (req.surface # "library" => Passed("budget"))
      BY <2>2, <3>4, PathOrder DEF Passed
    <3>6. net' # "queued" /\ Step("complete")' /\ at' \in 0..Len(Path(req))
      <4>1. Path(req)[Len(Path(req))] = "complete"
        BY <2>2, <3>4, PathOrder
      <4> QED BY <2>1, <2>2, <3>1, <3>5, <4>1 DEF Step, RetryInv, Started
    <3>7. ASSUME req'.surface # "library", quiet', HasNamespace', Namespace'.budget \notin {None, NotANumber}
          PROVE  got'.budget = Namespace'.budget
      <4>1. Asked
        BY <2>1, <2>2, <3>4, <3>7 DEF Asked, Surfaces
      <4>2. got.budget = Setting
        BY <2>1, <3>5, <3>7, <4>1 DEF PromptInv
      <4> QED BY <2>1, <3>1, <3>7, <4>2 DEF Setting, HasNamespace, Namespace
    <3>8. PromptKeepsBudget'
      BY <3>3, <3>7 DEF PromptKeepsBudget
    <3>9. ~Step("budget")
      BY <3>1 DEF Step
    <3> QED BY <2>1, <2>5, <2>6, <3>1, <3>3, <3>6, <3>8, <3>9 DEF PromptInv
  <2>11. CASE Completes
    <3>1. got'.chunks = got.chunks /\ got'.budget = got.budget /\ got'.blocks = got.blocks /\ at' = 0
      BY <2>11 DEF Completes
    <3>2. PromptKeepsBudget'
      BY <2>1, <3>1 DEF PromptInv, PromptKeepsBudget, HasNamespace, Namespace
    <3>3. ~Passed("budget")'
      BY <3>1 DEF Passed
    <3>4. at' \in 0..Len(Path(req)) /\ ~(at' > 0)
      BY <2>2, <3>1
    <3> QED BY <2>1, <3>1, <3>2, <3>3, <3>4 DEF PromptInv
  <2> QED BY <2>1, <2>7, <2>8, <2>9, <2>10, <2>11
<1> QED BY <1>1, <1>2, <1>3, OtherTurns

(* No call has a prompt at the start.                                        *)
LEMMA PromptStarts == Init => PromptInv
<1> SUFFICES ASSUME Init PROVE PromptInv
  OBVIOUS
<1>1. got.chunks = <<>> /\ got.blocks = <<>> /\ got.budget = 0 /\ req = None
  BY DEF Init, EmptyHand, Hand
<1>2. ToSet(<<>>) = {} /\ <<>> \in Seq(Chunks)
  BY DEF ToSet
<1> QED BY <1>1, <1>2 DEF PromptInv, PromptKeepsBudget, Asked

(* A prompt keeps to the budget of the namespace, opens with the best chunk, *)
(* keeps the order and wastes no room, for any chunks, budgets and token     *)
(* counts, on every way in (build_ask_prompt, ask_token_budget).             *)
THEOREM PromptIsWithinBudget == Spec => []PromptKeepsBudget
<1>1. Init => RetryInv /\ AttributionInv /\ StoredInv /\ PromptInv
  BY AskStarts, PromptStarts
<1>2. RetryInv /\ AttributionInv /\ StoredInv /\ PromptInv /\ [Next]_vars
        => (RetryInv /\ AttributionInv /\ StoredInv /\ PromptInv)'
  BY RetryStep, AttributionStep, StoredStep, PromptStep
<1>3. PromptInv => PromptKeepsBudget
  BY DEF PromptInv
<1> QED BY <1>1, <1>2, <1>3, PTL DEF Spec

(* What an answer cites stays what it was shown.                             *)
LEMMA CitationStep ==
    ASSUME RetryInv, AttributionInv, StoredInv, PromptInv, CitationsAreShown, [Next]_vars
    PROVE  CitationsAreShown'
<1>1. ASSUME reply'.status # "answer" PROVE CitationsAreShown'
  BY <1>1 DEF CitationsAreShown
<1>2. CASE ask_handler
  <2>1. /\ at > 0 /\ reply = NoReply /\ req # None /\ UNCHANGED <<db, quiet, req, net>>
        /\ Aside \/ Retrieves \/ SetsBudget \/ Prompts \/ Completes
    BY <1>2, HandlerTurns
  <2>2. CASE reply'.status # "answer"
    BY <1>1, <2>2
  <2>3. CASE reply'.status = "answer"
    <3> DEFINE cited == extract_citations(got'.numbers, got.blocks, got.chunks)
               valid == {n \in ToSet(got'.numbers) : n \in 1..Len(got.blocks)}
    <3>1. Completes
      BY <2>1, <2>3 DEF Aside, Retrieves, SetsBudget, Prompts, NoReply, Reply
    <3>2. got'.numbers \in Seq(Int) /\ reply'.cited = cited /\ got'.blocks = got.blocks
      BY <3>1 DEF Completes, Reply
    <3>3. got.blocks \in Seq(Chunk)
      BY AskAssumption DEF PromptInv, Chunk
    <3>4. /\ cited \in Seq(Chunk)
          /\ ToSet(cited) = {got.blocks[n] : n \in valid}
          /\ Len(cited) = Cardinality(valid)
      BY <3>2, <3>3, CitationsFollowNumbers
    <3> HIDE DEF cited
    <3>5. ASSUME req.surface # "library", NEW i \in 1..Len(cited) PROVE InScope(cited[i], req)
      <4>1. cited[i] \in ToSet(cited)
        <5>1. DOMAIN cited = 1..Len(cited)
          BY <3>4
        <5> QED BY <3>5, <5>1 DEF ToSet
      <4>2. PICK n \in 1..Len(got.blocks) : cited[i] = got.blocks[n]
        BY <3>4, <4>1
      <4>3. got.blocks[n] \in ToSet(got.chunks)
        <5>1. got.blocks[n] \in ToSet(got.blocks)
          BY <3>3 DEF ToSet
        <5> QED BY <5>1 DEF PromptInv
      <4>4. PICK k \in 1..Len(got.chunks) : got.blocks[n] = got.chunks[k]
        <5>1. DOMAIN got.chunks = 1..Len(got.chunks)
          BY DEF PromptInv
        <5> QED BY <4>3, <5>1 DEF ToSet
      <4> QED BY <2>1, <3>5, <4>2, <4>4 DEF PromptInv
    <3> QED BY <2>1, <3>2, <3>4, <3>5 DEF CitationsAreShown
  <2> QED BY <2>2, <2>3
<1>3. CASE end \/ \E r \in Requests : begin(r)
  BY <1>1, <1>3, EmptyHands DEF NoReply, Reply
<1>4. CASE Elsewhere
  BY <1>4 DEF Elsewhere, SameHand, CitationsAreShown
<1> QED BY <1>2, <1>3, <1>4, OtherTurns

(* Whatever numbers a model writes, an answer cites blocks it was shown,     *)
(* one for each of its numbers, out of the namespace and the filter          *)
(* that were asked about (extract_citations and the core's ask).             *)
THEOREM CitationsHold == Spec => []CitationsAreShown
<1>1. Init => RetryInv /\ AttributionInv /\ StoredInv /\ PromptInv /\ CitationsAreShown
  BY AskStarts, PromptStarts DEF Init, CitationsAreShown, NoReply, Reply
<1>2. RetryInv /\ AttributionInv /\ StoredInv /\ PromptInv /\ CitationsAreShown /\ [Next]_vars
        => (RetryInv /\ AttributionInv /\ StoredInv /\ PromptInv /\ CitationsAreShown)'
  BY RetryStep, AttributionStep, StoredStep, PromptStep, CitationStep
<1> QED BY <1>1, <1>2, PTL DEF Spec
=============================================================================
