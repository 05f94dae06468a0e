--------------------------------- MODULE Ask ---------------------------------
(***************************************************************************)
(* A question, by each of its ways in:                                     *)
(*   "query"    pgrg.query: retrieval alone                                *)
(*   "sql"      pgrg.ask of the extension                                  *)
(*   "http"     POST /v1/ask of the sidecar                                *)
(*   "shim"     pgrg.ask of client.sql: a POST through pg_net, and a wait  *)
(*   "library"  the core's ask with a RetryingProvider, which neither of   *)
(*              the two programs constructs                                *)
(*                                                                         *)
(* Each statement a call makes reads what is committed then, and providers,*)
(* namespaces and documents are administered between any two.  A call only *)
(* reads: calls do not disturb each other, and one at a time is enough.    *)
(***************************************************************************)
EXTENDS Retrieval, Prompt, Providers

CONSTANTS
    Requests,       \* the calls that are made
    Databases,      \* what is stored and set at the start
    NewProviders,   \* rows provider_create is called with
    NewNamespaces,  \* [name, llm_provider, budget] for namespace_create
    NewKeys,        \* values master_key_path is changed to
    Responses,      \* of an LLM: [status, fields]
    Answers,        \* sequences of cited numbers
    DefaultBudget,  \* 4000
    NotANumber,     \* a setting that does not cast to int
    MaxAttempts, Backoff, Cap, Timeout,     \* of RetryingProvider, HttpClient
    MaxPolls,       \* 300: polls of the client
    MaxChanges      \* bound: administrative changes

Surfaces == {"query", "sql", "http", "shim", "library"}

\* A row of pgrg.providers.  Its credential is in the clear, or was encrypted
\* once: what provider_create is given is not a ciphertext of a ciphertext.
IsProvider(p) ==
    /\ p = [name |-> p.name, kind |-> p.kind, provider |-> p.provider, model |-> p.model, credential |-> p.credential]
    /\ p.credential = None \/ (p.credential \in Credential /\ Len(p.credential.keys) <= 1)

IsBudget(b) == b \in {None, NotANumber} \/ b \in Int

IsDatabase(d) ==
    /\ d = [providers |-> d.providers, namespaces |-> d.namespaces, stored |-> d.stored, master_key |-> d.master_key,
            eager |-> d.eager]
    /\ d.providers \in Seq(ToSet(d.providers)) /\ \A p \in ToSet(d.providers) : IsProvider(p)
    /\ \A name \in DOMAIN d.namespaces : IsBudget(d.namespaces[name].budget)
    /\ d.stored \subseteq Chunks
    /\ d.master_key \in MasterKey
    /\ d.eager \in BOOLEAN

\* Only the core's ask is handed a provider that is built, and chunks.
IsRequest(r) ==
    /\ r # None /\ r.surface \in Surfaces /\ r.llm_provider # Err
    /\ r.q.near \subseteq Entities /\ r.hops \in Int /\ r.top_k \in Int
    /\ r.chunks \in Seq(Chunks) /\ r.budget \in Int
    /\ r.surface # "library" => r.chunks = <<>>
    /\ r.impl.credential = None \/ r.impl.credential.keys = <<>>

ASSUME AskAssumption ==
    /\ \A r \in Requests : IsRequest(r)
    /\ \A d \in Databases : IsDatabase(d)
    /\ \A p \in NewProviders : IsProvider(p)
    /\ \A n \in NewNamespaces : IsBudget(n.budget)
    /\ NewKeys \subseteq MasterKey
    /\ Answers \subseteq Seq(Int)
    /\ DOMAIN TokenCount = Chunks
    /\ MaxAttempts \in Nat \ {0} /\ Cap \in Nat \ {0} /\ Timeout \in Nat \ {0}
    /\ Backoff \in Seq(Nat) /\ Backoff # <<>>
    /\ MaxPolls \in Nat /\ MaxChanges \in Nat
    /\ DefaultBudget \in Nat \ {0}

VARIABLES
    db,         \* [providers, namespaces, stored, master_key, eager]
    changes,    \* administrative changes so far
    quiet,      \* none since the call began, and its connection is up
    req,        \* the call, None between two
    at,         \* where on its path the handler is, 0 when it does not run
    got,        \* what the handler has in hand
    reply,      \* what the handler returned
    attempt,    \* attempts at the LLM that failed
    elapsed,    \* since the first of them
    client,     \* the function of client.sql
    tries,      \* its polls
    net         \* the row of its request in pg_net

dbVars     == <<db, changes>>
retryVars  == <<attempt, elapsed>>
clientVars == <<client, tries, net>>
vars == <<db, changes, quiet, req, at, got, reply, attempt, elapsed, client, tries, net>>

-----------------------------------------------------------------------------
(* Statements in the order of the code, for each way in                      *)

Http(r) == r.surface \in {"http", "shim"}

Path(r) ==
    CASE r.surface = "query" -> <<"query">>
      [] r.surface = "library" -> <<"build_ask_prompt", "complete">>
      [] r.surface = "sql" ->
            <<"ns_default", "resolve", "query", "budget", "build", "model", "build_ask_prompt", "complete">>
      [] Http(r) /\ r.llm_provider # None ->
            <<"body", "check_namespace", "build", "ns_default", "resolve", "model", "embed",
              "query", "budget", "build_ask_prompt", "complete">>
      [] Http(r) /\ r.llm_provider = None ->
            <<"body", "check_namespace", "ns_default", "resolve", "build", "ns_default", "resolve", "model", "embed",
              "query", "budget", "build_ask_prompt", "complete">>

Step(s) == at > 0 /\ Path(req)[at] = s

\* Whether the connection of the sidecar's handler is lost: statements fail.
Lost == ~got.connected

Hand(name, impl, chunks, budget) ==
    [connected |-> TRUE, ns_default |-> None, name |-> name, impl |-> impl, model |-> None,
     chunks |-> chunks, budget |-> budget, blocks |-> <<>>, numbers |-> <<>>]
EmptyHand == Hand(None, Fallback, <<>>, 0)

Reply(status) == [status |-> status, rows |-> <<>>, cited |-> <<>>]
NoReply == Reply("none")

Return(x) ==
    /\ reply' = x
    /\ at' = 0
    /\ UNCHANGED <<db, changes, quiet, req, got, attempt, elapsed, client, tries, net>>

Proceed(g) ==
    /\ got' = g
    /\ at' = at + 1
    /\ UNCHANGED <<db, changes, quiet, req, reply, attempt, elapsed, client, tries, net>>

\* ereport!(ERROR) in the extension, 500 in the sidecar.
Fail == Return(Reply("error"))

HasNamespace == req.namespace \in DOMAIN db.namespaces
Namespace    == db.namespaces[req.namespace]

-----------------------------------------------------------------------------
(* The handler                                                               *)

AskJson ==
    /\ Step("body")
    /\ IF req.wellformed THEN Proceed(got) ELSE Return(Reply("bad_request"))

check_namespace ==
    /\ Step("check_namespace")
    /\ IF Lost THEN Fail
       ELSE IF HasNamespace THEN Proceed(got) ELSE Return(Reply("unknown_namespace"))

\* A statement that fails is read as NULL.
ns_default ==
    /\ Step("ns_default")
    /\ Proceed([got EXCEPT !.ns_default =
            IF ~Lost /\ HasNamespace THEN Namespace.llm_provider ELSE None])

\* The extension raises when there is none.  The sidecar builds the fallback
\* and, the second time, names nobody.
resolve ==
    /\ Step("resolve")
    /\ LET name == resolve_provider(req.llm_provider, got.ns_default, IF Lost THEN <<>> ELSE db.providers)
       IN  IF name = Err /\ ~Http(req) THEN Fail
           ELSE Proceed([got EXCEPT !.name = IF name = Err THEN None ELSE name])

\* Only for a provider it chose itself does the sidecar make do with the
\* fallback.
build ==
    /\ Step("build")
    /\ LET impl == IF Lost THEN Err ELSE build_provider_impl(db.providers, got.name, db.master_key)
       IN  CASE impl # Err -> Proceed([got EXCEPT !.impl = impl])
             [] impl = Err /\ Http(req) /\ req.llm_provider = None -> Proceed([got EXCEPT !.impl = Fallback])
             [] impl = Err /\ ~(Http(req) /\ req.llm_provider = None) -> Fail

provider_model ==
    /\ Step("model")
    /\ LET row == IF Lost THEN 0 ELSE Row(db.providers, got.name)
       IN  Proceed([got EXCEPT !.model = IF row = 0 THEN None ELSE db.providers[row].model])

embed ==
    /\ Step("embed")
    /\ Proceed(got) \/ Fail

\* Rows of the query as the prompt takes them.
retrieve_chunks(rows) == [i \in 1..Len(rows) |-> rows[i].chunk]

\* One statement.  Asks are hybrid, of equal weights.
query ==
    /\ Step("query")
    /\ IF Lost \/ req.mode \notin Mode \/ req.top_k < 0 THEN Fail
       ELSE \E v \in vec_lane(req, db.stored), b \in bm_lane(req, db.stored), g \in graph_lane(req, db.stored) :
            \E rows \in fused(req, RrfWeights(req.weights), [vec |-> v, bm25 |-> b, graph |-> g]) :
                CASE req.surface = "query" -> Return([Reply("rows") EXCEPT !.rows = rows])
                  [] req.surface # "query" /\ rows = <<>> -> Return(Reply("no context"))
                  [] req.surface # "query" /\ rows # <<>> -> Proceed([got EXCEPT !.chunks = retrieve_chunks(rows)])

\* settings->>'ask_token_budget', cast to int by the server: the extension
\* raises if that fails, the sidecar takes the default.
ask_token_budget ==
    /\ Step("budget")
    /\ LET set == IF ~Lost /\ HasNamespace THEN Namespace.budget ELSE None
       IN  IF set = NotANumber /\ ~Http(req) THEN Fail
           ELSE Proceed([got EXCEPT !.budget = IF set \in {None, NotANumber} THEN DefaultBudget ELSE set])

build_prompt ==
    /\ Step("build_ask_prompt")
    /\ IF Refused(got.chunks, got.budget) THEN Fail
       ELSE Proceed([got EXCEPT !.blocks = build_ask_prompt(got.chunks, got.budget)])

\* The rest of the core's ask, once there is a completion.
Answer(numbers) ==
    /\ reply' = [Reply("answer") EXCEPT !.cited = extract_citations(numbers, got.blocks, got.chunks)]
    /\ got' = [got EXCEPT !.numbers = numbers]
    /\ at' = 0

complete_once ==
    /\ Step("complete")
    /\ req.surface # "library"
    /\ IF got.impl.provider \in Networked
       THEN \E r \in Responses :
                \/ /\ complete(got.impl, r) = "Ok"
                   /\ \E numbers \in Answers : Answer(numbers)
                   /\ UNCHANGED <<db, changes, quiet, req, attempt, elapsed, client, tries, net>>
                \/ /\ complete(got.impl, r) # "Ok"
                   /\ Fail
       ELSE /\ \E numbers \in IF Mute(got.impl) THEN {<<>>} ELSE Answers : Answer(numbers)
            /\ UNCHANGED <<db, changes, quiet, req, attempt, elapsed, client, tries, net>>

\* Mutation: the cap is not tested before an attempt.
cap_reached_never == FALSE

\* start.elapsed() >= cap, at the head of the loop.
cap_reached == elapsed >= Cap

\* The wait after failed attempt n, cut to what remains.
Sleep(n, now) ==
    Least({Backoff[Least({n, Len(Backoff)})], IF now < Cap THEN Cap - now ELSE 0})

\* One turn of the loop of run_with_retry.  An attempt takes up to Timeout.
run_with_retry ==
    /\ Step("complete")
    /\ req.surface = "library"
    /\ ~cap_reached
    /\ \E r \in Responses, d \in 0..Timeout :
        LET outcome == complete(got.impl, r)
            sleep   == Sleep(attempt + 1, elapsed + d)
        IN  \/ /\ outcome = "Ok"
               /\ elapsed' = elapsed + d
               /\ \E numbers \in Answers : Answer(numbers)
               /\ UNCHANGED attempt
            \/ /\ outcome = "Llm"
               /\ elapsed' = elapsed + d
               /\ reply' = Reply("error") /\ at' = 0
               /\ UNCHANGED <<attempt, got>>
            \/ /\ outcome = "Http"
               /\ attempt' = attempt + 1
               /\ IF attempt + 1 < MaxAttempts /\ sleep > 0
                  THEN elapsed' = elapsed + d + sleep /\ UNCHANGED <<reply, at>>
                  ELSE elapsed' = elapsed + d /\ reply' = Reply("error") /\ at' = 0
               /\ UNCHANGED got
    /\ UNCHANGED <<db, changes, quiet, req, client, tries, net>>

\* The loop is left: retries exhausted.
give_up ==
    /\ Step("complete")
    /\ req.surface = "library"
    /\ cap_reached
    /\ Fail

ask_handler ==
    \/ AskJson \/ check_namespace \/ ns_default \/ resolve \/ build \/ provider_model \/ embed \/ query
    \/ ask_token_budget \/ build_prompt \/ complete_once \/ run_with_retry \/ give_up

\* The connection of the sidecar's handler breaks.  The extension's is its
\* own session.
lose_connection ==
    /\ at > 0 /\ Http(req) /\ ~Lost
    /\ got' = [got EXCEPT !.connected = FALSE]
    /\ quiet' = FALSE
    /\ UNCHANGED <<db, changes, req, at, reply, attempt, elapsed, client, tries, net>>

-----------------------------------------------------------------------------
(* The function of client.sql, and pg_net between it and the handler.  The   *)
(* function waits in the transaction that queued its request, and pg_net     *)
(* takes what is committed.  Only an eager pg_net, which takes a request out *)
(* of an open transaction, lets the function of client.sql ever answer;      *)
(* db.eager says which one is installed.                                     *)

Busy == at > 0 \/ client \in {"await", "poll"}

\* A call by any of the ways in.
begin(r) ==
    /\ req = None
    /\ req' = r
    /\ quiet' = TRUE
    /\ got' = Hand(r.llm_provider, r.impl, r.chunks, r.budget)
    /\ CASE r.surface # "shim" ->
                at' = 1 /\ UNCHANGED <<client, net>>
         [] r.surface = "shim" /\ r.sidecar_url ->
                client' = "await" /\ net' = "queued" /\ UNCHANGED at
         [] r.surface = "shim" /\ ~r.sidecar_url ->
                client' = "raised" /\ UNCHANGED <<at, net>>
    /\ UNCHANGED <<db, changes, reply, attempt, elapsed, tries>>

\* It is over, and pg_net has done with it: there may be another.
end ==
    /\ req # None /\ ~Busy /\ net \notin {"queued", "sent"}
    /\ req' = None
    /\ got' = EmptyHand
    /\ reply' = NoReply
    /\ attempt' = 0 /\ elapsed' = 0 /\ tries' = 0
    /\ client' = "idle" /\ net' = "none"
    /\ quiet' = TRUE
    /\ UNCHANGED <<db, changes, at>>

\* What pg_net writes into net._http_response.
Written == {"response", "timed_out", "error_msg"}

\* pg_net sends the request of its queue,
deliver ==
    /\ net = "queued" /\ db.eager
    /\ net' = "sent"
    /\ at' = 1
    /\ UNCHANGED <<db, changes, quiet, req, got, reply, attempt, elapsed, client, tries>>

\* or drops it with no word of it.
lose_request ==
    /\ net = "queued" /\ db.eager
    /\ net' = "lost"
    /\ UNCHANGED <<db, changes, quiet, req, at, got, reply, attempt, elapsed, client, tries>>

\* It writes a row: the response, its timeout, or an error on the way.  The
\* server drops the handler of a closed connection.
respond ==
    /\ net = "sent"
    /\ at = 0
    /\ net' = "response"
    /\ UNCHANGED <<db, changes, quiet, req, at, got, reply, attempt, elapsed, client, tries>>

break_off ==
    /\ net = "sent" /\ at > 0
    /\ net' \in {"timed_out", "error_msg"}
    /\ at' = 0
    /\ UNCHANGED <<db, changes, quiet, req, got, reply, attempt, elapsed, client, tries>>

pg_net == deliver \/ lose_request \/ respond \/ break_off

\* It blocks until pg_net has written a row: for ever, if it never does.
await_response ==
    /\ client = "await"
    /\ net \in Written
    /\ client' = "poll"
    /\ UNCHANGED <<db, changes, quiet, req, at, got, reply, attempt, elapsed, tries, net>>

\* The SELECT finds the row.
poll_found ==
    /\ client = "poll"
    /\ client' = IF net = "response" /\ reply.status \in {"answer", "no context"} THEN "row" ELSE "raised"
    /\ UNCHANGED <<db, changes, quiet, req, at, got, reply, attempt, elapsed, tries, net>>

\* Mutation: after the last poll it waits again.
poll_not_found_again ==
    /\ client = "poll"
    /\ IF tries < MaxPolls THEN tries' = tries + 1 /\ UNCHANGED client
                           ELSE tries' = 0 /\ client' = "await"
    /\ UNCHANGED <<db, changes, quiet, req, at, got, reply, attempt, elapsed, net>>

\* It does not see the row yet: it polls again, so many times.
poll_not_found ==
    /\ client = "poll"
    /\ IF tries < MaxPolls THEN tries' = tries + 1 /\ UNCHANGED client
                           ELSE client' = "raised" /\ UNCHANGED tries
    /\ UNCHANGED <<db, changes, quiet, req, at, got, reply, attempt, elapsed, net>>

pgrg_ask == await_response \/ poll_found \/ poll_not_found

\* The caller's statement is cancelled.  A request that pg_net has not seen
\* goes with its transaction.
cancel ==
    /\ client \in {"await", "poll"}
    /\ client' = "cancelled"
    /\ net' = IF net = "queued" /\ ~db.eager THEN "lost" ELSE net
    /\ UNCHANGED <<db, changes, quiet, req, at, got, reply, attempt, elapsed, tries>>

-----------------------------------------------------------------------------
(* Administration                                                            *)

Administer(d) ==
    /\ changes < MaxChanges
    /\ changes' = changes + 1
    /\ db' = d
    /\ quiet' = (req = None)
    /\ UNCHANGED <<req, at, got, reply, attempt, elapsed, client, tries, net>>

\* The name is the primary key.
Others(name) == RemoveFirstMatch(db.providers, LAMBDA p : p.name = name)

\* A new version of a row may come anywhere in a scan.
provider_create(row) ==
    LET stored == stored_credential(row.credential, db.master_key)
        rest   == Others(row.name)
    IN  /\ stored # Err
        /\ \E i \in 1..Len(rest) + 1 :
                Administer([db EXCEPT !.providers = InsertAt(rest, i, [row EXCEPT !.credential = stored])])

provider_drop(name) == Administer([db EXCEPT !.providers = Others(name)])

namespace_create(n) ==
    Administer([db EXCEPT !.namespaces =
        [m \in DOMAIN @ \union {n.name} |->
            IF m = n.name THEN [llm_provider |-> n.llm_provider, budget |-> n.budget] ELSE @[m]]])

\* Cascading: its documents and their chunks go with it.
namespace_drop(name, cascade) ==
    LET gone == {c \in db.stored : Corpus[c].namespace = name}
    IN  /\ cascade \/ gone = {}
        /\ Administer([db EXCEPT !.namespaces = [m \in DOMAIN @ \ {name} |-> @[m]],
                                 !.stored = @ \ gone])

delete_document(d) ==
    Administer([db EXCEPT !.stored = {c \in @ : Corpus[c].document # d}])

\* The operator's: the key file is replaced, or the setting changed.
set_master_key(m) == Administer([db EXCEPT !.master_key = m])

administration ==
    \/ \E row \in NewProviders : provider_create(row)
    \/ \E i \in 1..Len(db.providers) : provider_drop(db.providers[i].name)
    \/ \E n \in NewNamespaces : namespace_create(n)
    \/ \E name \in DOMAIN db.namespaces, cascade \in BOOLEAN : namespace_drop(name, cascade)
    \/ \E c \in db.stored : delete_document(Corpus[c].document)
    \/ \E m \in NewKeys \ {db.master_key} : set_master_key(m)

-----------------------------------------------------------------------------
Init ==
    /\ db \in Databases
    /\ changes = 0
    /\ quiet = TRUE
    /\ req = None
    /\ at = 0
    /\ got = EmptyHand
    /\ reply = NoReply
    /\ attempt = 0 /\ elapsed = 0
    /\ client = "idle" /\ tries = 0 /\ net = "none"

Next ==
    \/ \E r \in Requests : begin(r)
    \/ end
    \/ ask_handler \/ lose_connection
    \/ pg_net \/ pgrg_ask \/ cancel
    \/ administration

Spec == Init /\ [][Next]_vars

\* A handler runs on, and so does the function of client.sql once
\* _await_response returns.  Nothing is asked of pg_net, nor of the caller.
FairSpec ==
    /\ Spec
    /\ WF_vars(ask_handler)
    /\ WF_vars(pgrg_ask)

-----------------------------------------------------------------------------
(* Properties                                                                *)

\* A provider is built with its credential in the clear: what provider_create
\* encrypted, or let be because it was encrypted, one decryption undoes.
SecretsInTheClear ==
    got.impl.credential # None => got.impl.credential.keys = <<>>

\* Of what the graph reaches from the entities the index found, in either
\* direction and in no more than hops steps, graph mode returns all that its
\* limits admit, and hops = 0 nothing.  In every mode a result is in the
\* namespace and passes the filter, and comes once; with equal weights, as
\* every ask has them, it precedes what it beats in every lane.
RetrievalIsSound ==
    reply.status = "rows" =>
        LET rows == reply.rows
            found == {rows[i].chunk : i \in 1..Len(rows)}
        IN  /\ Cardinality(found) = Len(rows)
            /\ Len(rows) <= req.top_k
            /\ \A c \in found : InScope(c, req)
            /\ \A i, j \in 1..Len(rows) :
                    Dominates(rows[i], rows[j]) /\ req.weights = Equal => i < j
            /\ req.mode = "graph" /\ quiet =>
                    \E S \in seeds(req) :
                        LET all == Reached(req, db.stored, S)
                        IN  /\ found \subseteq all
                            /\ Len(rows) = Least({Cardinality(all), LaneLimit, req.top_k})

\* The prompt keeps to the budget of the namespace, opens with the best chunk,
\* keeps the order of the results, and leaves no chunk out that would still
\* have fitted behind those before it.
PromptKeepsBudget ==
    got.blocks # <<>> =>
        /\ Tokens(got.blocks) <= got.budget
        /\ Head(got.blocks) = Head(got.chunks)
        /\ req.surface # "library" /\ quiet /\ HasNamespace /\ Namespace.budget \notin {None, NotANumber}
                => Tokens(got.blocks) <= Namespace.budget
        /\ KeepsOrder(got.blocks, got.chunks)
        /\ LeavesNoRoom(got.blocks, got.chunks, got.budget)

\* The citations of an answer are the blocks the model was shown under the
\* numbers it wrote, each number once, however often it wrote it; and they are
\* of the namespace and the filter that were asked about.
CitationsAreShown ==
    reply.status = "answer" =>
        LET valid == {n \in ToSet(got.numbers) : n \in 1..Len(got.blocks)}
        IN  /\ ToSet(reply.cited) = {got.blocks[n] : n \in valid}
            /\ Len(reply.cited) = Cardinality(valid)
            /\ req.surface # "library" => \A i \in 1..Len(reply.cited) : InScope(reply.cited[i], req)

\* The provider named in an answer is the one that gave it, whatever is changed
\* or lost on the way, if the question named it or was asked of the extension.
\* A question that leaves the choice to the sidecar is answered before the
\* answer is given a name, by a second look at the providers: there it needs
\* that nothing changed and that the provider could be built, for else the
\* mock answers nothing under the name of another.  The model is looked up
\* apart and always needs that nothing changed.
HonestAttribution ==
    reply.status = "answer" /\ req.surface # "library" =>
        \/ got.name = got.impl.name /\ (quiet => got.model = got.impl.model)
        \/ /\ Http(req) /\ req.llm_provider = None
           /\ ~quiet \/ (got.impl = Fallback /\ got.numbers = <<>>)

\* Retries end: no more than MaxAttempts of them, none begun at the cap or
\* after it, no wait beyond it.  The last attempt may outlast the cap.
RetryStopsAtCap ==
    /\ attempt <= MaxAttempts
    /\ at > 0 => elapsed <= Cap
    /\ elapsed < Cap + Timeout

\* Every handler ends, with a reply or because its caller hung up, though its
\* connection may break and its LLM may fail; and the function of client.sql
\* ends once pg_net has written a row, be it a timeout or an error, and seen
\* or not.  Before that nothing ends its wait but a cancellation.
EveryAskEnds ==
    /\ at > 0 ~> at = 0
    /\ net \in Written ~> ~Busy
=============================================================================
