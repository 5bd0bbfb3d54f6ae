------------------------------- MODULE Settings -------------------------------
(***************************************************************************)
(* The settings of the desktop app (desktop/src/main/settings.ts): two     *)
(* files, secrets.bin and config.json, each replaced atomically, one after *)
(* the other; the copies in memory; and the database cluster, which keeps  *)
(* the password it was created with.                                       *)
(*                                                                         *)
(* A save runs without interruption in the main process, but a write can   *)
(* fail and the app can be killed between the two.  What is saved goes to  *)
(* the services as their environment (supervisor.ts).                      *)
(***************************************************************************)
EXTENDS Config

CONSTANTS Envs,          \* Plaid environments
          Tunings,       \* what a save may ask of the rest of config.json
          Defaults,      \* and what it is at first
          MaxTyped,      \* bound on the secrets the user types for each
          NULL

ASSUME SettingsAssumption == MaxTyped \in Nat \ {0} /\ Defaults \in Tunings

VARIABLES disk, memory,  \* the files, and what the running app holds of them
          pending,       \* the config a save has yet to write, or NULL
          up,            \* the app runs
          cluster,       \* what the database was created with, or NULL: its password,
                         \* and the key that access tokens in it are sealed with
          typed,         \* history: by environment, how many secrets were stored
          generated      \* history: how often keys were generated

vars == <<disk, memory, pending, up, cluster, typed, generated>>

(* A secret is the environment it is for and which of those typed it is.    *)
(* byEnv: plaidSecrets, 0 where there is none; keys: apiToken, topperToken, *)
(* kek and dbPassword, generated together.                                  *)
Secret == Envs \X (1..MaxTyped)
Secrets == [active : Secret, byEnv : [Envs -> 0..MaxTyped], keys : Nat \ {0}]
Configs == [env : Envs, tuning : Tunings]

ASSUME NullAssumption == NULL \notin Secrets \cup Configs

Files == [secrets : Secrets \cup {NULL}, config : Configs \cup {NULL}]

Nothing == [secrets |-> NULL, config |-> NULL]
NoneSaved == [e \in Envs |-> 0]

Configured == memory.secrets # NULL /\ memory.config # NULL

(* knownSecrets *)
Known(s, c) == [e \in Envs |-> IF s.byEnv[e] # 0 THEN s.byEnv[e]
                               ELSE IF c # NULL /\ e = c.env THEN s.active[2] ELSE 0]

SavedOnly(s, c) == s.byEnv   \* mutant: of an old file nothing is carried over
Carried(s, c) == Known(s, c)

(* validateConfig.  It counts neither the digits of the interval nor how    *)
(* often a country or a product is named.                                   *)
AnyDays(t) ==   \* mutant: the days are not checked
  /\ t.interval # Junk /\ t.linkClientName # Absent
  /\ AllOf(t.countryCodes, {"alpha2"}) /\ AllOf(t.products, {"alpha2", "word", "underscored"})
ValidConfig(t) ==
  /\ t.interval # Junk /\ t.linkClientName # Absent
  /\ t.days \in 1..730
  /\ AllOf(t.countryCodes, {"alpha2"}) /\ AllOf(t.products, {"alpha2", "word", "underscored"})

(* What the environments are made of; the marks of Config are none of it.   *)
Tokens == [bytes : Nat, key : Nat]
Entries == [name : {[name |-> "desktop", shape |-> "word"]}, scope : {"readwrite"}, token : Tokens]
Given == Nat \cup {"url", "id"} \cup Secret \cup Tokens \cup Entries \cup Seq(Entries)
         \cup [host : {"127.0.0.1"}, port : Nat]
         \cup {t.countryCodes : t \in Tunings} \cup {t.products : t \in Tunings}

ASSUME MarksAssumption == \A mark \in {Absent, Placeholder, Junk, TooLarge} : mark \notin Given

(* The numbers of a config, and that the one of a new app is valid.         *)
ASSUME TuningAssumption ==
  /\ ValidConfig(Defaults)
  /\ \A t \in Tunings : t.interval \in Nat \cup {TooLarge, Junk} /\ t.days \in Int
  /\ Envs \subseteq {"sandbox", "production"}

(* saveSecrets, and what of the save is left to do. *)
SaveSecrets(s, config) ==
  /\ disk' = [disk EXCEPT !.secrets = s]
  /\ memory' = [memory EXCEPT !.secrets = s]
  /\ pending' = config

(* What doStart gives the services; write tables are in shared/api.ts.      *)
PlaidsyncEnv(files) ==
  LET s == files.secrets
      t == files.config.tuning
  IN [PLAIDSYNC_BIND_ADDR |-> [host |-> "127.0.0.1", port |-> 1024],
      PLAIDSYNC_DATABASE_URL |-> "url", PLAIDSYNC_API_TOKEN |-> [bytes |-> 64, key |-> s.keys],
      PLAIDSYNC_KEK_VERSION |-> 1, PLAIDSYNC_KEK |-> [bytes |-> 32, key |-> s.keys],
      PLAID_CLIENT_ID |-> "id", PLAID_SECRET |-> s.active, PLAID_ENV |-> files.config.env,
      PLAIDSYNC_COUNTRY_CODES |-> t.countryCodes, PLAIDSYNC_PRODUCTS |-> t.products,
      PLAIDSYNC_TRANSACTIONS_DAYS_REQUESTED |-> t.days,
      PLAIDSYNC_LINK_CLIENT_NAME |-> t.linkClientName,
      PLAIDSYNC_SYNC_INTERVAL |-> t.interval, PLAIDSYNC_RECURRING_ENABLED |-> FALSE,
      PLAIDSYNC_LOG_FORMAT |-> "text", PLAIDSYNC_LOG_LEVEL |-> "info"]

TopperEnv(files) ==
  LET word(name) == [name |-> name, shape |-> "word"]
  IN [TOPPER_BIND_ADDR |-> [host |-> "127.0.0.1", port |-> 1024], TOPPER_DATABASE_URL |-> "url",
      TOPPER_API_KEYS |-> <<[name |-> word("desktop"), scope |-> "readwrite",
                            token |-> [bytes |-> 64, key |-> files.secrets.keys]]>>,
      TOPPER_WRITE_TABLES |-> <<word("budgets"), word("category_overrides"), word("merchant_rules"),
                              word("preferences"), word("categories"), word("recurring_entries"),
                              word("recurring_hidden")>>,
      TOPPER_STARTUP_WAIT |-> 60, TOPPER_CACHE_TTL |-> 2,
      TOPPER_LOG_FORMAT |-> "text", TOPPER_LOG_LEVEL |-> "info"]

Created(files) ==
  [password |-> files.secrets.keys, version |-> ActiveVersion(PlaidsyncEnv(files)),
   kek |-> Keyring(PlaidsyncEnv(files))[ActiveVersion(PlaidsyncEnv(files))]]

(* A fresh directory, or files written before there were plaidSecrets.      *)
Init ==
  /\ \/ disk = Nothing /\ typed = NoneSaved /\ cluster = NULL /\ generated = 0
     \/ \E e \in Envs :
          /\ disk = [secrets |-> [active |-> <<e, 1>>, byEnv |-> NoneSaved, keys |-> 1],
                     config |-> [env |-> e, tuning |-> Defaults]]
          /\ typed = [NoneSaved EXCEPT ![e] = 1]
          /\ cluster = Created(disk) /\ generated = 1
  /\ memory = Nothing /\ pending = NULL /\ up = FALSE

-----------------------------------------------------------------------------
(* The app is launched: config.json is read, secrets.bin when first used.   *)
Launch ==
  /\ ~up /\ up' = TRUE
  /\ memory' = disk
  /\ UNCHANGED <<disk, pending, cluster, typed, generated>>

(* setup: what an earlier run has generated is kept. *)
AlwaysFresh(existing) == generated + 1   \* mutant: keys are generated every time
Keys(existing) == IF existing = NULL THEN generated + 1 ELSE existing.keys

Setup(env) ==
  /\ up /\ pending = NULL /\ ~Configured
  /\ typed[env] < MaxTyped
  /\ LET existing == memory.secrets
         n == typed[env] + 1
         kept == IF existing = NULL THEN NoneSaved ELSE existing.byEnv
         keys == Keys(existing)
     IN  /\ SaveSecrets([active |-> <<env, n>>, byEnv |-> [kept EXCEPT ![env] = n],
                         keys |-> keys],
                        [env |-> env,
                         tuning |-> IF memory.config = NULL THEN Defaults ELSE memory.config.tuning])
         /\ typed' = [typed EXCEPT ![env] = n]
         /\ generated' = IF keys > generated THEN keys ELSE generated
  /\ UNCHANGED <<up, cluster>>

(* update: with a secret for the environment the patch ends up in, *)
UpdateTyped(env, tuning) ==
  /\ up /\ pending = NULL /\ Configured
  /\ typed[env] < MaxTyped /\ ValidConfig(tuning)
  /\ LET n == typed[env] + 1
     IN  /\ SaveSecrets([memory.secrets EXCEPT
                           !.active = <<env, n>>,
                           !.byEnv = [Carried(memory.secrets, memory.config) EXCEPT ![env] = n]],
                        [env |-> env, tuning |-> tuning])
         /\ typed' = [typed EXCEPT ![env] = n]
  /\ UNCHANGED <<up, cluster, generated>>

(* or without one, if one is known; it is stored only when it is another    *)
(* than the services were given.                                            *)
SameSecret(s, secret) == secret = s.active

UpdateKnown(env, tuning) ==
  /\ up /\ pending = NULL /\ Configured /\ ValidConfig(tuning)
  /\ LET known == Known(memory.secrets, memory.config)
         secret == <<env, known[env]>>
     IN  /\ known[env] # 0
         /\ IF SameSecret(memory.secrets, secret)
            THEN pending' = [env |-> env, tuning |-> tuning] /\ UNCHANGED <<disk, memory>>
            ELSE SaveSecrets([memory.secrets EXCEPT
                                !.active = secret,
                                !.byEnv = [Carried(memory.secrets, memory.config)
                                             EXCEPT ![env] = known[env]]],
                             [env |-> env, tuning |-> tuning])
  /\ UNCHANGED <<up, cluster, typed, generated>>

(* this.config, then config.json; the caller restarts the services. *)
SaveConfig ==
  /\ up /\ pending # NULL
  /\ disk' = [disk EXCEPT !.config = pending]
  /\ memory' = [memory EXCEPT !.config = pending]
  /\ pending' = NULL
  /\ UNCHANGED <<up, cluster, typed, generated>>

(* The write throws: the request fails with the new config in memory. *)
SaveConfigFails ==
  /\ up /\ pending # NULL
  /\ memory' = [memory EXCEPT !.config = pending]
  /\ pending' = NULL
  /\ UNCHANGED <<disk, up, cluster, typed, generated>>

(* It rewrites config.json from memory. *)
MarkKekBackedUp ==
  /\ up /\ pending = NULL /\ Configured
  /\ disk' = [disk EXCEPT !.config = memory.config]
  /\ UNCHANGED <<memory, pending, up, cluster, typed, generated>>

(* doStart: the first one creates the cluster. *)
FirstStart ==
  /\ up /\ pending = NULL /\ Configured
  /\ cluster = NULL /\ cluster' = Created(memory)
  /\ UNCHANGED <<disk, memory, pending, up, typed, generated>>

(* Quit, or killed at any point. *)
End ==
  /\ up /\ up' = FALSE
  /\ memory' = Nothing /\ pending' = NULL
  /\ UNCHANGED <<disk, cluster, typed, generated>>

(* The user, while the app is not running, removes config.json, after which *)
(* a secret of an old file cannot be told to be any environment's.          *)
DeleteConfig ==
  /\ ~up /\ disk.config # NULL
  /\ disk' = [disk EXCEPT !.config = NULL]
  /\ typed' = IF disk.secrets = NULL THEN NoneSaved ELSE disk.secrets.byEnv
  /\ UNCHANGED <<memory, pending, up, cluster, generated>>

Next ==
  \/ Launch \/ End
  \/ \E env \in Envs : Setup(env)
  \/ \E env \in Envs, tuning \in Tunings : UpdateTyped(env, tuning) \/ UpdateKnown(env, tuning)
  \/ SaveConfig \/ SaveConfigFails \/ MarkKekBackedUp \/ FirstStart
  \/ DeleteConfig

Spec == Init /\ [][Next]_vars

-----------------------------------------------------------------------------
(* Properties *)

(* "Every environment's secret the user has entered": wherever a save was   *)
(* cut short, the last secret of each environment is still known, in memory *)
(* and after a restart, also of files from before there were plaidSecrets   *)
(* (knownSecrets, setup, update).                                           *)
EnteredSecretsKnown ==
  \A files \in {disk, memory} :
    files.secrets # NULL => \A e \in Envs : typed[e] # 0 =>
      \/ Known(files.secrets, files.config)[e] = typed[e]
      \/ files.config = NULL /\ files.secrets.byEnv[e] = typed[e]

(* "so that a database created by an earlier run stays readable": over      *)
(* interrupted and repeated setups the app has the database's password, and  *)
(* in the keyring plaidsync is given, the key of what was sealed (setup).    *)
KeysFitDatabase ==
  disk.secrets # NULL /\ disk.config # NULL /\ cluster # NULL =>
    LET ring == Keyring(PlaidsyncEnv(disk))
    IN  /\ disk.secrets.keys = cluster.password
        /\ cluster.version \in DOMAIN ring /\ ring[cluster.version] = cluster.kek

(* What validateConfig lets through although plaidsync refuses it. *)
Gaps(t) ==
  {k \in {"PLAIDSYNC_SYNC_INTERVAL"} : t.interval \in {0, TooLarge}}
  \cup {k \in {"PLAIDSYNC_COUNTRY_CODES"} : NamesRepeat(t.countryCodes)}
  \cup {k \in {"PLAIDSYNC_PRODUCTS"} : NamesRepeat(t.products) \/ ~AllOf(t.products, {"alpha2", "word"})}

(* Two programs check the settings: what the app has saved, in one run or   *)
(* over several, both services' Load accepts, so that they start, but for   *)
(* an interval of 0 or of too many digits, a country or a product named     *)
(* twice, and a product that begins with an underscore (validateConfig).    *)
ServicesLoad ==
  up /\ pending = NULL /\ Configured =>
    /\ LoadPlaidsync(PlaidsyncEnv(memory)) = Gaps(memory.config.tuning)
    /\ LoadTopper(TopperEnv(memory)) = {}
=============================================================================
