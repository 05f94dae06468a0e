------------------------------ MODULE Providers ------------------------------
(***************************************************************************)
(* Rows of pgrg.providers and what is made of them: the credential and its *)
(* encryption (core credentials), the choice of a provider (llm/resolve),  *)
(* its construction (provider_factory, the same in extension and sidecar)  *)
(* and the reading of its HTTP responses (llm/http and one file per kind). *)
(***************************************************************************)
EXTENDS Integers, Sequences, SequencesExt

CONSTANTS
    Keys,           \* master keys
    Secrets,        \* credentials in the clear
    JsonSecrets,    \* those that parse as an extraction
    None,           \* NULL
    Err             \* an error

-----------------------------------------------------------------------------
(* Credentials: a secret under the keys it was encrypted with, last first    *)

Credential == [secret : Secrets, keys : Seq(Keys)]

is_encrypted(c)  == c.keys # <<>>
encrypt_v1(c, k) == [c EXCEPT !.keys = <<k>> \o @]
decrypt_v1(c, k) == IF c.keys # <<>> /\ Head(c.keys) = k THEN [c EXCEPT !.keys = Tail(@)] ELSE Err

\* The setting master_key_path: not set, a file that load_from_path refuses
\* (absent, not of 32 bytes, not of mode 0600), or one that holds a key.
MasterKey == {"unset", "refused"} \union Keys
load_from_path(m) == IF m \in Keys THEN m ELSE Err

\* Mutation: what is encrypted already is encrypted again.
stored_credential_again(c, m) ==
    CASE c = None                        -> None
      [] c # None /\ m = "unset"         -> c
      [] c # None /\ m = "refused"       -> Err
      [] c # None /\ m \in Keys          -> encrypt_v1(c, m)

\* What provider_create stores.  Without a key it stores the clear text.
stored_credential(c, m) ==
    CASE c = None                                           -> None
      [] c # None /\ is_encrypted(c)                        -> c
      [] c # None /\ ~is_encrypted(c) /\ m = "unset"        -> c
      [] c # None /\ ~is_encrypted(c) /\ m = "refused"      -> Err
      [] c # None /\ ~is_encrypted(c) /\ m \in Keys         -> encrypt_v1(c, m)

\* At its use: clear text, the empty text (None) or an error.
plaintext(c, m) ==
    IF c = None \/ ~is_encrypted(c) THEN c
    ELSE IF load_from_path(m) = Err THEN Err ELSE decrypt_v1(c, load_from_path(m))

-----------------------------------------------------------------------------
(* Choice and construction; the rows are in the order a scan returns them    *)

Networked    == {"openai", "anthropic", "ollama"}
ProviderKind == Networked \union {"mock", "mock-extractor"}

\* Mutation: the default of the namespace comes first.
resolve_provider_default_first(explicit, ns_default, available) ==
    LET first == SelectInSeq(available, LAMBDA p : p.kind = "llm")
    IN  CASE ns_default # None                         -> ns_default
          [] ns_default = None /\ explicit # None      -> explicit
          [] OTHER -> IF first = 0 THEN Err ELSE available[first].name

\* Explicit, else the default of the namespace, else the first for LLMs.
\* Neither of the first two need be a row.
resolve_provider(explicit, ns_default, available) ==
    LET first == SelectInSeq(available, LAMBDA p : p.kind = "llm")
    IN  CASE explicit # None                           -> explicit
          [] explicit = None /\ ns_default # None      -> ns_default
          [] OTHER -> IF first = 0 THEN Err ELSE available[first].name

Row(rows, name) == SelectInSeq(rows, LAMBDA p : p.name = name)

\* MockProvider::new(), of no row: it answers nothing.
Fallback == [name |-> None, provider |-> "mock", model |-> None, credential |-> None]

\* The column kind is not looked at.  A credential is the key of a network
\* provider, the answer of a mock, the extraction of a mock-extractor.
build_provider_impl(rows, name, m) ==
    IF Row(rows, name) = 0 THEN Err
    ELSE LET row  == rows[Row(rows, name)]
             cred == plaintext(row.credential, m)
         IN  IF \/ cred = Err
                \/ row.provider \notin ProviderKind
                \/ /\ row.provider = "mock-extractor"
                   /\ cred = None \/ cred \notin [secret : JsonSecrets, keys : {<<>>}]
             THEN Err
             ELSE [name |-> name, provider |-> row.provider, model |-> row.model, credential |-> cred]

-----------------------------------------------------------------------------
(* A response is a status and the fields found in its body; a body that does *)
(* not parse has none.  Status 0: none came in time, or none could be sent.  *)

from_status(code) ==
    CASE code \in 200..299           -> "Ok"
      [] code \in {429} \union 500..599 -> "Retryable"
      [] OTHER                       -> "Permanent"

\* CoreError::Http is for what may pass, CoreError::Llm for the rest.
Outcome(r, needs) ==
    CASE r.status = 0 \/ from_status(r.status) = "Retryable"      -> "Http"
      [] r.status # 0 /\ from_status(r.status) = "Permanent"      -> "Llm"
      [] r.status # 0 /\ from_status(r.status) = "Ok"             -> IF needs \subseteq r.fields THEN "Ok" ELSE "Llm"

openai_complete(r)    == Outcome(r, {"choices[0].message.content"})
anthropic_complete(r) == Outcome(r, {"content[]", "text block"})
ollama_complete(r)    == Outcome(r, {"response"})

complete(impl, r) ==
    CASE impl.provider = "openai"    -> openai_complete(r)
      [] impl.provider = "anthropic" -> anthropic_complete(r)
      [] impl.provider = "ollama"    -> ollama_complete(r)
      [] OTHER                       -> "Ok"

\* The text a mock answers with: the credential of kind mock, else nothing.
Mute(impl) ==
    \/ impl.provider = "mock-extractor"
    \/ impl.provider = "mock" /\ impl.credential = None
=============================================================================
