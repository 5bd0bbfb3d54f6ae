-------------------------------- MODULE Config --------------------------------
(***************************************************************************)
(* What the two services accept as configuration: config.Load of plaidsync *)
(* and of the topper.  An environment is a function from the variables     *)
(* that are set to what a value says once trimmed: a number, a duration in *)
(* seconds, a list of its non-empty entries, a record, or a text.  A word  *)
(* is a name without its case, and the shape that tells what it may name.  *)
(*                                                                         *)
(* A reader notes a problem and goes on with the default in the place of   *)
(* the value; an environment with any problem is refused as a whole.       *)
(***************************************************************************)
EXTENDS Integers, Sequences, FiniteSets

CONSTANTS Absent,        \* not set, or blank
          Placeholder,   \* <...>, as in .env.example
          Junk,          \* does not parse
          TooLarge       \* a number, or a duration, that its type cannot hold

ASSUME ConfigAssumption == Cardinality({Absent, Placeholder, Junk, TooLarge}) = 4

Value(env, key) == IF key \in DOMAIN env THEN env[key] ELSE Absent
Optional(env, key, def) == IF Value(env, key) = Absent THEN def ELSE Value(env, key)
Missing(env, key) == Value(env, key) \in {Absent, Placeholder}

Number(v) == v \notin {Junk, TooLarge}
AtLeast(v, least) == Number(v) /\ v >= least
InRange(v, lo, hi) == Number(v) /\ lo <= v /\ v <= hi
ReadOr(v, good, def) == IF good THEN v ELSE def   \* what is kept of a value

Repeats(list) == \E i, j \in DOMAIN list : i < j /\ list[i] = list[j]
Names(list) == {list[i].name : i \in DOMAIN list}
NamesRepeat(list) == Cardinality(Names(list)) < Len(list)

(* isASCIILetters(2), isProductName, isIdentifier and isKeyName. *)
CountryShapes == {"alpha2"}
ProductShapes == {"alpha2", "word", "numbered"}   \* with a digit, not at the start
IdentifierShapes == ProductShapes \cup {"underscored"}   \* at the start
KeyNameShapes == IdentifierShapes \cup {"hyphened"}
AllOf(list, shapes) == \A i \in DOMAIN list : list[i].shape \in shapes

(* Of the variables in a table, those given that are not as it says. *)
Refused(env, key, Good(_)) == {k \in {key} : Value(env, k) # Absent /\ ~Good(env[k])}
TooSmall(env, minimum) ==
  {k \in DOMAIN minimum : Value(env, k) # Absent /\ ~AtLeast(env[k], minimum[k])}
NotAChoice(env, choices) ==
  {k \in DOMAIN choices : Value(env, k) # Absent /\ env[k] \notin choices[k]}

LogLevels == {"debug", "info", "warn", "error"}
LogFormats == {"json", "text"}

CheckBindAddr(v) == v # Junk /\ InRange(v.port, 1, 65535)
HTTPURL(v) == v # Junk /\ v.scheme \in {"http", "https"} /\ v.host # ""

-----------------------------------------------------------------------------
(* plaidsync *)

DefaultProducts == <<[name |-> "transactions", shape |-> "word"]>>

PlaidEnv(env) == LET v == Optional(env, "PLAID_ENV", "sandbox")
                 IN  ReadOr(v, v \in {"sandbox", "production"}, "sandbox")

CheckRedirectURI(v) == HTTPURL(v) /\ (v.scheme = "https" \/ v.host = "localhost")
CheckWebhookURL(v, plaidEnv) == HTTPURL(v) /\ (plaidEnv = "production" => v.scheme = "https")

CheckCountryCodes(list) == AllOf(list, CountryShapes) /\ ~NamesRepeat(list)

(* A product is in one of the four lists, once; the later one is blamed.    *)
ProductLists == <<"PLAIDSYNC_PRODUCTS", "PLAIDSYNC_REQUIRED_IF_SUPPORTED_PRODUCTS",
                  "PLAIDSYNC_OPTIONAL_PRODUCTS", "PLAIDSYNC_ADDITIONAL_CONSENTED_PRODUCTS">>
Products(env, n) == Optional(env, ProductLists[n], IF n = 1 THEN DefaultProducts ELSE <<>>)
CheckProducts(env, n) ==
  LET list == Products(env, n)
  IN  /\ AllOf(list, ProductShapes) /\ ~NamesRepeat(list)
      /\ \A first \in 1..(n - 1) : Names(Products(env, first)) \cap Names(list) = {}

(* The keyring: PLAIDSYNC_KEK at the active version, and the previous ones. *)
DecodeKEK(v) == v # Junk /\ v.bytes = 32
ActiveVersion(env) == LET v == Optional(env, "PLAIDSYNC_KEK_VERSION", 1)
                      IN  ReadOr(v, AtLeast(v, 1), 1)
PreviousKEKs(env) == Optional(env, "PLAIDSYNC_KEK_PREVIOUS", <<>>)
CheckPrevious(list, active) ==
  /\ \A i \in DOMAIN list :
       /\ list[i] # Junk /\ AtLeast(list[i].version, 1) /\ DecodeKEK(list[i].kek)
       /\ list[i].version # active
  /\ \A i, j \in DOMAIN list : list[i].version = list[j].version => i = j
Keyring(env) ==   \* of an environment that is accepted
  LET list == PreviousKEKs(env)
      versions == {list[i].version : i \in DOMAIN list}
      at(v) == CHOOSE i \in DOMAIN list : list[i].version = v
  IN  [v \in versions \cup {ActiveVersion(env)} |->
         IF v = ActiveVersion(env) THEN env["PLAIDSYNC_KEK"].key ELSE list[at(v)].kek.key]

(* RETRY_MAX is compared with the defaults, too. *)
RetryTime(env, key, def) == LET v == Optional(env, key, def) IN ReadOr(v, AtLeast(v, 1), def)
RetryBase(env) == RetryTime(env, "PLAIDSYNC_SYNC_RETRY_BASE", 2)
RetryMax(env) == RetryTime(env, "PLAIDSYNC_SYNC_RETRY_MAX", 120)

(* What is asked of a value that is given. *)
PlaidsyncMinimum ==
  [PLAIDSYNC_KEK_VERSION |-> 1, PLAIDSYNC_SYNC_MIN_INTERVAL |-> 0, PLAIDSYNC_SYNC_INTERVAL |-> 1,
   PLAIDSYNC_SYNC_MAX_ATTEMPTS |-> 1, PLAIDSYNC_SYNC_RETRY_BASE |-> 1,
   PLAIDSYNC_SYNC_RETRY_MAX |-> 1, PLAIDSYNC_SYNC_CONCURRENCY |-> 1,
   PLAIDSYNC_SHUTDOWN_TIMEOUT |-> 1, PLAIDSYNC_TRANSACTIONS_DAYS_REQUESTED |-> 1]
PlaidsyncChoices ==
  [PLAID_ENV |-> {"sandbox", "production"},
   PLAIDSYNC_SCHEDULER_ENABLED |-> BOOLEAN, PLAIDSYNC_RECURRING_ENABLED |-> BOOLEAN,
   PLAIDSYNC_LOG_LEVEL |-> LogLevels, PLAIDSYNC_LOG_FORMAT |-> LogFormats]

(* The variables plaidsync's Load complains of. *)
LoadPlaidsync(env) ==
  {key \in {"PLAIDSYNC_DATABASE_URL", "PLAID_CLIENT_ID", "PLAID_SECRET",
            "PLAIDSYNC_API_TOKEN", "PLAIDSYNC_KEK"} : Missing(env, key)}
  \cup TooSmall(env, PlaidsyncMinimum) \cup NotAChoice(env, PlaidsyncChoices)
  \cup Refused(env, "PLAIDSYNC_API_TOKEN", LAMBDA v : v # Placeholder /\ v.bytes >= 32)
  \cup Refused(env, "PLAIDSYNC_BIND_ADDR", CheckBindAddr)
  \cup Refused(env, "PLAIDSYNC_KEK", LAMBDA v : v # Placeholder /\ DecodeKEK(v))
  \cup Refused(env, "PLAIDSYNC_KEK_PREVIOUS", LAMBDA v : CheckPrevious(v, ActiveVersion(env)))
  \cup Refused(env, "PLAIDSYNC_REDIRECT_URI", CheckRedirectURI)
  \cup Refused(env, "PLAIDSYNC_WEBHOOK_URL", LAMBDA v : CheckWebhookURL(v, PlaidEnv(env)))
  \cup Refused(env, "PLAIDSYNC_COUNTRY_CODES", CheckCountryCodes)
  \cup Refused(env, "PLAIDSYNC_TRANSACTIONS_DAYS_REQUESTED", LAMBDA v : InRange(v, 1, 730))
  \cup Refused(env, "PLAIDSYNC_LINK_LANGUAGE", LAMBDA v : v.shape \in CountryShapes)
  \cup {ProductLists[n] : n \in {n \in DOMAIN ProductLists : ~CheckProducts(env, n)}}
  \cup {key \in {"PLAIDSYNC_SYNC_RETRY_MAX"} : RetryMax(env) < RetryBase(env)}

-----------------------------------------------------------------------------
(* The topper *)

PlaidTables == {"plaid_items", "plaid_accounts", "transactions", "sync_jobs", "sync_runs"}
ReservedTableNames == {"views"}

(* "name:scope:token" entries; a name has its case. *)
GoodKey(entry) ==
  /\ entry # Junk /\ entry.name.shape \in KeyNameShapes
  /\ entry.scope \in {"read", "readwrite"}
  /\ entry.token # Placeholder /\ entry.token.bytes >= 32
CheckAPIKeys(entries) ==
  /\ entries # Placeholder
  /\ \A i \in DOMAIN entries :
       /\ GoodKey(entries[i])
       /\ \A j \in 1..(i - 1) : /\ entries[j].name # entries[i].name
                                 /\ entries[j].token # entries[i].token

(* The scope of each token, of entries that are accepted. *)
Scopes(entries) ==
  LET keys == {entries[i] : i \in DOMAIN entries}
  IN  [t \in {k.token : k \in keys} |-> (CHOOSE k \in keys : k.token = t).scope]

CheckWriteTables(list) ==
  /\ AllOf(list, IdentifierShapes) /\ ~NamesRepeat(list)
  /\ Names(list) \cap (ReservedTableNames \cup PlaidTables) = {}

CheckOrigins(list) ==
  ~Repeats(list) /\ \A i \in DOMAIN list : HTTPURL(list[i]) /\ list[i].path = ""

TopperMinimum ==
  [TOPPER_CACHE_TTL |-> 0, TOPPER_STARTUP_WAIT |-> 0, TOPPER_QUERY_TIMEOUT |-> 1,
   TOPPER_SHUTDOWN_TIMEOUT |-> 1, TOPPER_MAX_BODY_BYTES |-> 1]
TopperChoices == [TOPPER_LOG_LEVEL |-> LogLevels, TOPPER_LOG_FORMAT |-> LogFormats]

(* The variables the topper's Load complains of; of an empty list of keys,  *)
(* only if it has not complained of the variables read before.              *)
LoadTopper(env) ==
  LET before == Refused(env, "TOPPER_BIND_ADDR", CheckBindAddr)
                \cup {key \in {"TOPPER_DATABASE_URL"} : Missing(env, key)}
  IN  before
      \cup {key \in {"TOPPER_API_KEYS"} : Missing(env, key)}
      \cup Refused(env, "TOPPER_API_KEYS",
                   LAMBDA v : IF v = <<>> THEN before # {} ELSE CheckAPIKeys(v))
      \cup Refused(env, "TOPPER_WRITE_TABLES", CheckWriteTables)
      \cup Refused(env, "TOPPER_CORS_ORIGINS", CheckOrigins)
      \cup TooSmall(env, TopperMinimum) \cup NotAChoice(env, TopperChoices)
=============================================================================
