---------------------------- MODULE Settings_proofs ----------------------------
(***************************************************************************)
(* Proofs about Settings, for any environments, configurations and number  *)
(* of secrets typed: no secret that was entered is lost, and the keys are  *)
(* those of the database, wherever a save or a setup was cut short; and    *)
(* what was saved the services' Load accepts, but for Gaps.                *)
(*                                                                         *)
(* secrets.bin is written first, so it must fit the config.json there is   *)
(* and the one still to be written (Recalled): a secret is among the       *)
(* plaidSecrets, or it is the active one of an old file whose config.json  *)
(* names the environment.  The keys are generated with the first           *)
(* secrets.bin and copied from then on (Sealed).                           *)
(***************************************************************************)
EXTENDS Settings, FiniteSetTheorems, FunctionTheorems, TLAPS

Typed ==
  /\ disk \in Files /\ memory \in Files
  /\ pending \in Configs \cup {NULL} /\ up \in BOOLEAN
  /\ typed \in [Envs -> 0..MaxTyped] /\ generated \in Nat

(* The files are written in their order. *)
InOrder ==
  /\ disk.secrets = NULL => disk.config = NULL /\ typed = NoneSaved
  /\ up => memory.secrets = disk.secrets
  /\ memory.secrets = NULL => memory.config = NULL /\ pending = NULL
  /\ up /\ disk.config # NULL => memory.config # NULL
  /\ ~up => memory = Nothing /\ pending = NULL

(* The secret of each environment, read with the config of a file. *)
Tells(s, c) ==
  /\ c # NULL => typed[c.env] # 0
  /\ \A e \in Envs : \/ s.byEnv[e] = typed[e]
                     \/ s.byEnv[e] = 0 /\ c # NULL /\ c.env = e /\ s.active = <<e, typed[e]>>
Recalled ==
  disk.secrets # NULL =>
    /\ Tells(disk.secrets, disk.config)
    /\ up => Tells(disk.secrets, memory.config)
    /\ pending # NULL => Tells(disk.secrets, pending)

Sealed ==
  cluster # NULL =>
    /\ disk.secrets # NULL
    /\ cluster = [password |-> disk.secrets.keys, version |-> 1, kek |-> disk.secrets.keys]

IInv == Typed /\ InOrder /\ Recalled /\ Sealed

LEMMA NullIsNone == NULL \notin Configs /\ NULL \notin Secrets
BY NullAssumption

(* The keyring of what the app saves holds one key, as version 1. *)
LEMMA RingIsKek ==
  ASSUME NEW files \in Files, files.secrets # NULL, files.config # NULL
  PROVE  /\ ActiveVersion(PlaidsyncEnv(files)) = 1
         /\ Keyring(PlaidsyncEnv(files)) = [v \in {1} |-> files.secrets.keys]
<1> DEFINE env == PlaidsyncEnv(files)
<1>1. /\ "PLAIDSYNC_KEK_VERSION" \in DOMAIN env /\ env["PLAIDSYNC_KEK_VERSION"] = 1
      /\ env["PLAIDSYNC_KEK"].key = files.secrets.keys
      /\ "PLAIDSYNC_KEK_PREVIOUS" \notin DOMAIN env
  BY DEF PlaidsyncEnv
<1> HIDE DEF env
<1>2. ActiveVersion(env) = 1
  BY <1>1 DEF ActiveVersion, Optional, Value, ReadOr
<1>3. PreviousKEKs(env) = <<>>
  BY <1>1 DEF PreviousKEKs, Optional, Value
<1>4. {PreviousKEKs(env)[i].version : i \in DOMAIN PreviousKEKs(env)} = {}
  BY <1>3
<1>5. Keyring(env) = [v \in {1} |-> files.secrets.keys]
  BY <1>1, <1>2, <1>4 DEF Keyring
<1> QED
  BY <1>2, <1>5 DEF env

LEMMA CreatedIs ==
  ASSUME NEW files \in Files, files.secrets # NULL, files.config # NULL
  PROVE  Created(files) = [password |-> files.secrets.keys, version |-> 1,
                           kek |-> files.secrets.keys]
BY RingIsKek DEF Created

(* What is known is what was typed. *)
LEMMA KnownIsTyped ==
  ASSUME Typed, NEW s \in Secrets, NEW c \in Configs \cup {NULL}, Tells(s, c)
  PROVE  /\ Known(s, c) \in [Envs -> 0..MaxTyped]
         /\ \A e \in Envs : typed[e] # 0 => Known(s, c)[e] = typed[e]
         /\ c # NULL => Known(s, c) = typed
         /\ c = NULL => s.byEnv = typed
<1>1. s.byEnv \in [Envs -> 0..MaxTyped] /\ typed \in [Envs -> 0..MaxTyped]
  BY DEF Typed, Secrets
<1>2. s.active \in Secret /\ \A e \in Envs, n \in Nat : s.active = <<e, n>> => s.active[2] = n
  BY DEF Secrets
<1>3. ASSUME NEW e \in Envs
      PROVE  /\ Known(s, c)[e] \in 0..MaxTyped
             /\ typed[e] # 0 => Known(s, c)[e] = typed[e]
             /\ c # NULL => Known(s, c)[e] = typed[e]
             /\ c = NULL => s.byEnv[e] = typed[e]
  <2>1. s.active[2] \in 0..MaxTyped
    BY <1>2, SettingsAssumption DEF Secret
  <2>2. /\ s.byEnv[e] \in 0..MaxTyped /\ typed[e] \in 0..MaxTyped
        /\ \/ s.byEnv[e] = typed[e]
           \/ s.byEnv[e] = 0 /\ c # NULL /\ c.env = e /\ s.active[2] = typed[e]
        /\ c # NULL => typed[c.env] # 0
    BY <1>1, <1>2, SettingsAssumption DEF Tells
  <2>3. Known(s, c)[e] = IF s.byEnv[e] # 0 THEN s.byEnv[e]
                         ELSE IF c # NULL /\ e = c.env THEN s.active[2] ELSE 0
    BY DEF Known
  <2> QED
    BY <2>1, <2>2, <2>3, SettingsAssumption
<1> QED
  BY <1>1, <1>3 DEF Known

-----------------------------------------------------------------------------
(* Inductiveness *)

LEMMA InitHolds == Init => IInv
<1> SUFFICES ASSUME Init PROVE IInv
  OBVIOUS
<1> USE DEF Nothing, NoneSaved
<1>1. CASE disk = Nothing /\ typed = NoneSaved /\ cluster = NULL /\ generated = 0
  <2>1. memory = Nothing /\ pending = NULL /\ up = FALSE
    BY DEF Init
  <2>2. Nothing \in Files /\ NoneSaved \in [Envs -> 0..MaxTyped]
    BY SettingsAssumption DEF Files
  <2>3. Typed
    BY <1>1, <2>1, <2>2 DEF Typed
  <2> QED
    BY <1>1, <2>1, <2>3 DEF IInv, InOrder, Recalled, Sealed
<1>2. ASSUME NEW e \in Envs,
             disk = [secrets |-> [active |-> <<e, 1>>, byEnv |-> NoneSaved, keys |-> 1],
                     config |-> [env |-> e, tuning |-> Defaults]],
             typed = [NoneSaved EXCEPT ![e] = 1],
             cluster = Created(disk), generated = 1
      PROVE  IInv
  <2>1. disk.secrets \in Secrets /\ disk.config \in Configs
    BY <1>2, SettingsAssumption DEF Secrets, Secret, Configs
  <2>2. disk \in Files /\ disk.secrets # NULL /\ disk.config # NULL
    BY <1>2, <2>1, NullIsNone DEF Files
  <2>3. memory = Nothing /\ pending = NULL /\ up = FALSE
    BY DEF Init
  <2>4. typed \in [Envs -> 0..MaxTyped] /\ generated \in Nat /\ memory \in Files
    BY <1>2, <2>3, SettingsAssumption DEF Files
  <2>5. Typed
    BY <2>2, <2>3, <2>4 DEF Typed
  <2>6. InOrder
    BY <2>2, <2>3 DEF InOrder
  <2>7. Recalled
    BY <1>2, <2>2, <2>3 DEF Recalled, Tells
  <2>8. Sealed
    BY <1>2, <2>2, CreatedIs DEF Sealed
  <2> QED
    BY <2>5, <2>6, <2>7, <2>8 DEF IInv
<1> QED
  BY <1>1, <1>2 DEF Init

(* A save of secrets that hold every one typed, with the keys of before. *)
LEMMA SaveHolds ==
  ASSUME IInv, up, UNCHANGED <<up, cluster>>,
         NEW s \in Secrets, NEW c \in Configs, SaveSecrets(s, c),
         typed' \in [Envs -> 0..MaxTyped], generated' \in Nat,
         typed' = s.byEnv, typed'[c.env] # 0,
         \A e \in Envs : typed[e] # 0 => typed'[e] # 0,
         cluster # NULL => s.keys = disk.secrets.keys
  PROVE  IInv'
<1>1. /\ disk' = [disk EXCEPT !.secrets = s] /\ memory' = [memory EXCEPT !.secrets = s]
      /\ pending' = c /\ s # NULL /\ c # NULL
  BY NullIsNone DEF SaveSecrets
<1>2. /\ disk \in Files /\ memory \in Files
      /\ disk'.secrets = s /\ disk'.config = disk.config
      /\ memory'.secrets = s /\ memory'.config = memory.config
  BY <1>1 DEF IInv, Typed, Files
<1>3. Typed'
  BY <1>1, <1>2 DEF IInv, Typed, Files
<1>4. InOrder'
  BY <1>1, <1>2 DEF IInv, InOrder
<1>5. \A d \in {disk.config, memory.config} :
        d # NULL => d \in Configs /\ typed[d.env] # 0
  BY <1>2 DEF IInv, InOrder, Recalled, Tells, Files
<1>6. \A d \in {disk.config, memory.config} : d # NULL => typed'[d.env] # 0
  BY <1>5 DEF Configs
<1>7. Recalled'
  BY <1>1, <1>2, <1>6 DEF Recalled, Tells
<1>8. Sealed'
  BY <1>1, <1>2 DEF IInv, Sealed
<1> QED
  BY <1>3, <1>4, <1>7, <1>8 DEF IInv

LEMMA SetupHolds ==
  ASSUME IInv, NEW env \in Envs, Setup(env)
  PROVE  IInv'
<1> DEFINE existing == memory.secrets
           n == typed[env] + 1
           kept == IF existing = NULL THEN NoneSaved ELSE existing.byEnv
           keys == Keys(existing)
           s == [active |-> <<env, n>>, byEnv |-> [kept EXCEPT ![env] = n], keys |-> keys]
           c == [env |-> env,
                 tuning |-> IF memory.config = NULL THEN Defaults ELSE memory.config.tuning]
<1>1. /\ up /\ ~Configured /\ typed[env] < MaxTyped /\ SaveSecrets(s, c)
      /\ typed' = [typed EXCEPT ![env] = n]
      /\ generated' = IF keys > generated THEN keys ELSE generated
      /\ UNCHANGED <<up, cluster>>
  BY DEF Setup
<1>2. memory \in Files /\ typed \in [Envs -> 0..MaxTyped] /\ generated \in Nat
  BY DEF IInv, Typed
<1>3. n \in 1..MaxTyped
  BY <1>1, <1>2, SettingsAssumption
<1>4. existing = disk.secrets /\ (existing = NULL => typed = NoneSaved)
  BY <1>1 DEF IInv, InOrder
<1>5. kept = typed
  <2>1. CASE existing = NULL
    BY <1>4, <2>1
  <2>2. CASE existing # NULL
    <3>1. memory.config = NULL /\ existing \in Secrets
      BY <1>1, <1>2, <2>2 DEF Configured, Files
    <3>2. Tells(existing, NULL)
      BY <1>1, <1>4, <2>2, <3>1 DEF IInv, Recalled
    <3> QED
      BY <2>2, <3>1, <3>2, KnownIsTyped DEF IInv
  <2> QED
    BY <2>1, <2>2
<1>6. keys \in Nat \ {0} /\ (existing # NULL => keys = existing.keys)
  BY <1>2 DEF Keys, Files, Secrets
<1>7. s \in Secrets
  BY <1>2, <1>3, <1>5, <1>6 DEF Secrets, Secret
<1>8. c \in Configs
  BY <1>2, SettingsAssumption DEF Files, Configs
<1>9. typed' = s.byEnv /\ typed' \in [Envs -> 0..MaxTyped] /\ typed'[c.env] # 0
  <2>1. typed' = [typed EXCEPT ![env] = n] /\ s.byEnv = [typed EXCEPT ![env] = n] /\ c.env = env
    BY <1>1, <1>5
  <2> HIDE DEF s, c
  <2>2. typed' \in [Envs -> 0..MaxTyped] /\ typed'[env] = n
    BY <1>2, <1>3, <2>1, SettingsAssumption
  <2> QED
    BY <1>3, <2>1, <2>2, SettingsAssumption
<1>10. \A e \in Envs : typed[e] # 0 => typed'[e] # 0
  BY <1>1, <1>2, <1>3
<1>11. cluster # NULL => s.keys = disk.secrets.keys
  BY <1>4, <1>6 DEF IInv, Sealed
<1>12. generated' \in Nat
  BY <1>1, <1>2, <1>6
<1> HIDE DEF s, c
<1> QED
  BY <1>1, <1>7, <1>8, <1>9, <1>10, <1>11, <1>12, SaveHolds

(* update finds the secrets of a configured app as they were typed. *)
LEMMA WhenConfigured ==
  ASSUME IInv, up, Configured
  PROVE  /\ memory.secrets \in Secrets /\ memory.config \in Configs
         /\ disk.secrets = memory.secrets /\ disk.secrets # NULL
         /\ Known(memory.secrets, memory.config) = typed
<1>1. memory.secrets \in Secrets /\ memory.config \in Configs
  BY DEF IInv, Typed, Files, Configured
<1>2. memory.config # NULL /\ disk.secrets = memory.secrets /\ disk.secrets # NULL
  BY DEF IInv, InOrder, Configured
<1>3. Tells(memory.secrets, memory.config)
  BY <1>2 DEF IInv, Recalled
<1> QED
  BY <1>1, <1>2, <1>3, KnownIsTyped DEF IInv

LEMMA UpdateTypedHolds ==
  ASSUME IInv, NEW env \in Envs, NEW tuning \in Tunings, UpdateTyped(env, tuning)
  PROVE  IInv'
<1> DEFINE n == typed[env] + 1
           s == [memory.secrets EXCEPT
                   !.active = <<env, n>>,
                   !.byEnv = [Carried(memory.secrets, memory.config) EXCEPT ![env] = n]]
           c == [env |-> env, tuning |-> tuning]
<1>1. /\ up /\ Configured /\ typed[env] < MaxTyped /\ SaveSecrets(s, c)
      /\ typed' = [typed EXCEPT ![env] = n] /\ UNCHANGED <<up, cluster, generated>>
  BY DEF UpdateTyped
<1>2. typed \in [Envs -> 0..MaxTyped] /\ generated \in Nat
  BY DEF IInv, Typed
<1>3. n \in 1..MaxTyped
  BY <1>1, <1>2, SettingsAssumption
<1>4. /\ memory.secrets \in Secrets /\ disk.secrets = memory.secrets
      /\ Carried(memory.secrets, memory.config) = typed
  BY <1>1, WhenConfigured DEF Carried
<1>5. s \in Secrets /\ s.byEnv = [typed EXCEPT ![env] = n] /\ s.keys = disk.secrets.keys
  <2>1. <<env, n>> \in Secret /\ [typed EXCEPT ![env] = n] \in [Envs -> 0..MaxTyped]
    BY <1>2, <1>3, SettingsAssumption DEF Secret
  <2>2. s = [memory.secrets EXCEPT !.active = <<env, n>>, !.byEnv = [typed EXCEPT ![env] = n]]
    BY <1>4
  <2> HIDE DEF s, n
  <2> QED
    BY <1>4, <2>1, <2>2 DEF Secrets
<1>6. c \in Configs
  BY DEF Configs
<1>7. typed' = s.byEnv /\ typed' \in [Envs -> 0..MaxTyped] /\ typed'[c.env] # 0
  BY <1>1, <1>2, <1>3, <1>5
<1>8. \A e \in Envs : typed[e] # 0 => typed'[e] # 0
  BY <1>1, <1>2, <1>3
<1> HIDE DEF s, c
<1> QED
  BY <1>1, <1>2, <1>5, <1>6, <1>7, <1>8, SaveHolds

LEMMA UpdateKnownHolds ==
  ASSUME IInv, NEW env \in Envs, NEW tuning \in Tunings, UpdateKnown(env, tuning)
  PROVE  IInv'
<1> DEFINE known == Known(memory.secrets, memory.config)
           s == [memory.secrets EXCEPT
                   !.active = <<env, known[env]>>,
                   !.byEnv = [Carried(memory.secrets, memory.config) EXCEPT ![env] = known[env]]]
           c == [env |-> env, tuning |-> tuning]
<1>1. /\ up /\ Configured /\ known[env] # 0
      /\ UNCHANGED <<up, cluster, typed, generated>>
  BY DEF UpdateKnown
<1>2. typed \in [Envs -> 0..MaxTyped] /\ generated \in Nat
  BY DEF IInv, Typed
<1>3. /\ memory.secrets \in Secrets /\ disk.secrets = memory.secrets /\ disk.secrets # NULL
      /\ known = typed /\ Carried(memory.secrets, memory.config) = typed
  BY <1>1, WhenConfigured DEF Carried
<1>4. c \in Configs /\ c # NULL /\ c.env = env
  BY NullIsNone DEF Configs
<1>5. CASE SameSecret(memory.secrets, <<env, known[env]>>)
  <2>1. pending' = c /\ UNCHANGED <<disk, memory>>
    BY <1>5 DEF UpdateKnown
  <2>2. Tells(disk.secrets, c)
    <3>1. memory.config # NULL /\ Tells(disk.secrets, memory.config)
      BY <1>1, <1>3 DEF IInv, Recalled, Configured
    <3>2. disk.secrets.active = <<env, typed[env]>>
      BY <1>3, <1>5 DEF SameSecret
    <3>3. \A e \in Envs : disk.secrets.active = <<e, typed[e]>> => e = env
      BY <3>2
    <3> QED
      BY <1>1, <1>3, <1>4, <3>1, <3>3 DEF Tells
  <2>3. Typed' /\ InOrder' /\ Sealed'
    BY <1>1, <1>3, <1>4, <2>1 DEF IInv, Typed, InOrder, Sealed
  <2>4. Recalled'
    BY <1>1, <2>1, <2>2 DEF IInv, Recalled, Tells
  <2> QED
    BY <2>3, <2>4 DEF IInv
<1>6. CASE ~SameSecret(memory.secrets, <<env, known[env]>>)
  <2>1. SaveSecrets(s, c)
    BY <1>6 DEF UpdateKnown
  <2>2. s \in Secrets /\ s.byEnv = typed /\ s.keys = disk.secrets.keys
    <3>1. <<env, known[env]>> \in Secret /\ [typed EXCEPT ![env] = known[env]] = typed
      BY <1>1, <1>2, <1>3, SettingsAssumption DEF Secret
    <3>2. s = [memory.secrets EXCEPT !.active = <<env, known[env]>>, !.byEnv = typed]
      BY <1>3, <3>1
    <3> HIDE DEF s, known
    <3> QED
      BY <1>2, <1>3, <3>1, <3>2 DEF Secrets
  <2> HIDE DEF s, c
  <2> QED
    BY <1>1, <1>2, <1>3, <1>4, <2>1, <2>2, SaveHolds
<1> QED
  BY <1>5, <1>6

LEMMA SaveConfigHolds ==
  ASSUME IInv, SaveConfig \/ SaveConfigFails
  PROVE  IInv'
<1>1. /\ up /\ pending # NULL /\ memory' = [memory EXCEPT !.config = pending]
      /\ pending' = NULL /\ UNCHANGED <<up, cluster, typed, generated>>
      /\ disk' \in {disk, [disk EXCEPT !.config = pending]}
  BY DEF SaveConfig, SaveConfigFails
<1>2. /\ disk \in Files /\ memory \in Files /\ pending \in Configs
      /\ disk'.secrets = disk.secrets /\ disk'.config \in {disk.config, pending}
      /\ memory'.secrets = memory.secrets /\ memory'.config = pending
  BY <1>1 DEF IInv, Typed, Files
<1>3. Typed'
  BY <1>1, <1>2 DEF IInv, Typed, Files
<1>4. InOrder'
  BY <1>1, <1>2 DEF IInv, InOrder
<1>5. Recalled'
  BY <1>1, <1>2 DEF IInv, Recalled, Tells
<1>6. Sealed'
  BY <1>1, <1>2 DEF IInv, Sealed
<1> QED
  BY <1>3, <1>4, <1>5, <1>6 DEF IInv

LEMMA OthersHold ==
  ASSUME IInv, Launch \/ End \/ MarkKekBackedUp \/ FirstStart \/ DeleteConfig
  PROVE  IInv'
<1>1. CASE Launch
  <2>1. Typed' /\ InOrder'
    BY <1>1 DEF Launch, IInv, Typed, InOrder
  <2>2. Recalled' /\ Sealed'
    BY <1>1 DEF Launch, IInv, InOrder, Recalled, Sealed, Tells
  <2> QED
    BY <2>1, <2>2 DEF IInv
<1>2. CASE End
  <2>1. Typed' /\ InOrder'
    BY <1>2 DEF End, IInv, Typed, InOrder, Nothing, Files
  <2>2. Recalled' /\ Sealed'
    BY <1>2 DEF End, IInv, Recalled, Sealed, Tells
  <2> QED
    BY <2>1, <2>2 DEF IInv
<1>3. CASE MarkKekBackedUp
  <2>1. /\ up /\ Configured /\ pending = NULL
        /\ disk \in Files /\ memory \in Files /\ disk' = [disk EXCEPT !.config = memory.config]
        /\ UNCHANGED <<memory, pending, up, cluster, typed, generated>>
    BY <1>3 DEF MarkKekBackedUp, IInv, Typed
  <2>2. disk'.secrets = disk.secrets /\ disk'.config = memory.config
    BY <2>1 DEF Files
  <2>3. Typed' /\ InOrder'
    BY <2>1, <2>2 DEF IInv, Typed, InOrder, Files, Configured
  <2>4. Recalled' /\ Sealed'
    BY <2>1, <2>2 DEF IInv, Recalled, Sealed, Tells
  <2> QED
    BY <2>3, <2>4 DEF IInv
<1>4. CASE FirstStart
  <2>1. /\ up /\ Configured /\ cluster' = Created(memory)
        /\ UNCHANGED <<disk, memory, pending, up, typed, generated>>
    BY <1>4 DEF FirstStart
  <2>2. Typed' /\ InOrder' /\ Recalled'
    BY <2>1 DEF IInv, Typed, InOrder, Recalled, Tells
  <2>3. Sealed'
    BY <2>1, WhenConfigured, CreatedIs DEF IInv, Typed, Sealed, Configured
  <2> QED
    BY <2>2, <2>3 DEF IInv
<1>5. CASE DeleteConfig
  <2>1. /\ ~up /\ disk.config # NULL /\ disk \in Files
        /\ disk' = [disk EXCEPT !.config = NULL]
        /\ typed' = IF disk.secrets = NULL THEN NoneSaved ELSE disk.secrets.byEnv
        /\ UNCHANGED <<memory, pending, up, cluster, generated>>
    BY <1>5 DEF DeleteConfig, IInv, Typed
  <2>2. disk'.secrets = disk.secrets /\ disk'.config = NULL /\ pending = NULL
    BY <2>1 DEF Files, IInv, InOrder
  <2>3. disk.secrets # NULL /\ disk.secrets \in Secrets /\ typed' = disk.secrets.byEnv
    BY <2>1 DEF IInv, InOrder, Files
  <2>4. Typed'
    BY <2>1, <2>3 DEF IInv, Typed, Files, Secrets
  <2>5. InOrder' /\ Recalled' /\ Sealed'
    BY <2>1, <2>2, <2>3 DEF IInv, InOrder, Recalled, Sealed, Tells
  <2> QED
    BY <2>4, <2>5 DEF IInv
<1> QED
  BY <1>1, <1>2, <1>3, <1>4, <1>5

LEMMA StepHolds == IInv /\ [Next]_vars => IInv'
<1> SUFFICES ASSUME IInv, [Next]_vars PROVE IInv'
  OBVIOUS
<1>1. CASE UNCHANGED vars
  BY <1>1 DEF vars, IInv, Typed, InOrder, Recalled, Sealed, Tells
<1> QED
  BY <1>1, SetupHolds, UpdateTypedHolds, UpdateKnownHolds, SaveConfigHolds, OthersHold DEF Next

-----------------------------------------------------------------------------
(* What the services say to what was saved *)

(* Every config there is has passed validateConfig, or is the first one. *)
Accepted == \A c \in {disk.config, memory.config, pending} : c # NULL => ValidConfig(c.tuning)

LEMMA AcceptedHolds == IInv /\ Accepted /\ [Next]_vars => Accepted'
<1> SUFFICES ASSUME IInv, Accepted, [Next]_vars PROVE Accepted'
  OBVIOUS
<1>1. disk \in Files /\ memory \in Files /\ Accepted
  BY DEF IInv, Typed
<1>2. ASSUME NEW s, NEW c, SaveSecrets(s, c), ValidConfig(c.tuning)
      PROVE  Accepted'
  BY <1>1, <1>2 DEF SaveSecrets, Accepted, Files
<1>3. CASE UNCHANGED vars \/ FirstStart
  BY <1>1, <1>3 DEF vars, FirstStart, Accepted
<1>4. CASE Launch \/ End
  BY <1>1, <1>4 DEF Launch, End, Accepted, Nothing
<1>5. ASSUME NEW env \in Envs, Setup(env)
      PROVE  Accepted'
  <2>1. PICK s, c : /\ SaveSecrets(s, c)
                    /\ c.tuning = IF memory.config = NULL THEN Defaults ELSE memory.config.tuning
    BY <1>5 DEF Setup
  <2>2. ValidConfig(c.tuning)
    BY <1>1, <2>1, TuningAssumption DEF Accepted
  <2> QED
    BY <1>2, <2>1, <2>2
<1>6. ASSUME NEW env \in Envs, NEW tuning \in Tunings, UpdateTyped(env, tuning)
      PROVE  Accepted'
  <2>1. PICK s : SaveSecrets(s, [env |-> env, tuning |-> tuning]) /\ ValidConfig(tuning)
    BY <1>6 DEF UpdateTyped
  <2> QED
    BY <1>2, <2>1
<1>7. ASSUME NEW env \in Envs, NEW tuning \in Tunings, UpdateKnown(env, tuning)
      PROVE  Accepted'
  <2> DEFINE c == [env |-> env, tuning |-> tuning]
  <2>1. ValidConfig(c.tuning)
    BY <1>7 DEF UpdateKnown
  <2>2. \/ pending' = c /\ UNCHANGED <<disk, memory>>
        \/ \E s : SaveSecrets(s, c)
    BY <1>7 DEF UpdateKnown
  <2>3. CASE pending' = c /\ UNCHANGED <<disk, memory>>
    BY <1>1, <2>1, <2>3 DEF Accepted
  <2> QED
    BY <1>2, <2>1, <2>2, <2>3
<1>8. CASE SaveConfig \/ SaveConfigFails
  BY <1>1, <1>8 DEF SaveConfig, SaveConfigFails, Accepted, Files
<1>9. CASE MarkKekBackedUp \/ DeleteConfig
  BY <1>1, <1>9 DEF MarkKekBackedUp, DeleteConfig, Accepted, Files
<1> QED
  BY <1>3, <1>4, <1>5, <1>6, <1>7, <1>8, <1>9 DEF Next

LEMMA Acceptance == Spec => [](IInv /\ Accepted)
<1>1. Init => IInv /\ Accepted
  <2>1. Init => Accepted
    BY TuningAssumption DEF Init, Accepted, Nothing
  <2> QED
    BY <2>1, InitHolds
<1>2. IInv /\ Accepted /\ [Next]_vars => (IInv /\ Accepted)'
  BY AcceptedHolds, StepHolds
<1> QED
  BY <1>1, <1>2, PTL DEF Spec

(* A number, a name or a record is none of the marks. *)
LEMMA GivenIsRead ==
  ASSUME NEW v \in Given
  PROVE  v # Absent /\ v # Placeholder /\ v # Junk /\ v # TooLarge
BY MarksAssumption

(* An entry that is not given is not one that is too large. *)
LEMMA MarksDiffer == Absent # TooLarge
<1> SUFFICES ASSUME Absent = TooLarge PROVE FALSE
  OBVIOUS
<1>1. IsFiniteSet({}) /\ Cardinality({}) = 0
  BY FS_EmptySet
<1>2. IsFiniteSet({TooLarge}) /\ Cardinality({TooLarge}) = 1
  BY FS_Singleton
<1>3. IsFiniteSet({TooLarge, Junk}) /\ Cardinality({TooLarge, Junk}) \in 1..2
  BY <1>2, FS_AddElement, {TooLarge} \cup {Junk} = {TooLarge, Junk}
<1>4. Cardinality({TooLarge, Junk, Placeholder}) \in 1..3
  BY <1>3, FS_AddElement, {TooLarge, Junk} \cup {Placeholder} = {TooLarge, Junk, Placeholder}
<1>5. {Absent, Placeholder, Junk, TooLarge} = {TooLarge, Junk, Placeholder}
  OBVIOUS
<1> QED
  BY <1>4, <1>5, ConfigAssumption

LEMMA NumbersAreGiven ==
  ASSUME NEW n \in Nat
  PROVE  n \in Given /\ n # Absent /\ n # Junk /\ n # TooLarge
BY GivenIsRead DEF Given

LEMMA ListsAreGiven ==
  ASSUME NEW t \in Tunings
  PROVE  t.countryCodes \in Given /\ t.products \in Given
BY DEF Given

LEMMA TokensAreGiven ==
  ASSUME NEW n \in Nat, NEW key \in Nat
  PROVE  [bytes |-> n, key |-> key] \in Given
BY DEF Given, Tokens

LEMMA AddressesAreGiven == [host |-> "127.0.0.1", port |-> 1024] \in Given
<1>1. [host |-> "127.0.0.1", port |-> 1024] \in [host : {"127.0.0.1"}, port : Nat]
  OBVIOUS
<1> QED
  BY <1>1 DEF Given

LEMMA PlaidsyncAccepts ==
  ASSUME NEW files \in Files, files.secrets # NULL, files.config # NULL,
         ValidConfig(files.config.tuning)
  PROVE  LoadPlaidsync(PlaidsyncEnv(files)) = Gaps(files.config.tuning)
<1> DEFINE env == PlaidsyncEnv(files)
           t == files.config.tuning
<1>1. /\ files.secrets \in Secrets /\ files.config.env \in Envs /\ t \in Tunings
  BY DEF Files, Configs
<1>2. /\ t.interval \in Nat \cup {TooLarge, Junk} /\ t.interval # Junk
      /\ t.days \in 1..730
      /\ AllOf(t.countryCodes, {"alpha2"})
      /\ AllOf(t.products, {"alpha2", "word", "underscored"})
      /\ files.config.env \in {"sandbox", "production"}
  BY <1>1, TuningAssumption DEF ValidConfig
<1>3. /\ DOMAIN env = {"PLAIDSYNC_BIND_ADDR", "PLAIDSYNC_DATABASE_URL", "PLAIDSYNC_API_TOKEN",
                       "PLAIDSYNC_KEK_VERSION", "PLAIDSYNC_KEK", "PLAID_CLIENT_ID",
                       "PLAID_SECRET", "PLAID_ENV", "PLAIDSYNC_COUNTRY_CODES",
                       "PLAIDSYNC_PRODUCTS", "PLAIDSYNC_TRANSACTIONS_DAYS_REQUESTED",
                       "PLAIDSYNC_LINK_CLIENT_NAME", "PLAIDSYNC_SYNC_INTERVAL",
                       "PLAIDSYNC_RECURRING_ENABLED", "PLAIDSYNC_LOG_FORMAT",
                       "PLAIDSYNC_LOG_LEVEL"}
      /\ env["PLAIDSYNC_BIND_ADDR"] = [host |-> "127.0.0.1", port |-> 1024]
      /\ env["PLAIDSYNC_DATABASE_URL"] = "url" /\ env["PLAID_CLIENT_ID"] = "id"
      /\ env["PLAIDSYNC_API_TOKEN"] = [bytes |-> 64, key |-> files.secrets.keys]
      /\ env["PLAIDSYNC_KEK_VERSION"] = 1
      /\ env["PLAIDSYNC_KEK"] = [bytes |-> 32, key |-> files.secrets.keys]
      /\ env["PLAID_SECRET"] = files.secrets.active
      /\ env["PLAID_ENV"] = files.config.env
      /\ env["PLAIDSYNC_COUNTRY_CODES"] = t.countryCodes
      /\ env["PLAIDSYNC_PRODUCTS"] = t.products
      /\ env["PLAIDSYNC_TRANSACTIONS_DAYS_REQUESTED"] = t.days
      /\ env["PLAIDSYNC_SYNC_INTERVAL"] = t.interval
      /\ env["PLAIDSYNC_RECURRING_ENABLED"] = FALSE
      /\ env["PLAIDSYNC_LOG_FORMAT"] = "text" /\ env["PLAIDSYNC_LOG_LEVEL"] = "info"
  BY DEF PlaidsyncEnv
<1> HIDE DEF env, t
<1>4. /\ "url" \in Given /\ "id" \in Given /\ files.secrets.active \in Given
      /\ env["PLAIDSYNC_API_TOKEN"] \in Given /\ env["PLAIDSYNC_KEK"] \in Given
      /\ env["PLAIDSYNC_BIND_ADDR"] \in Given
      /\ t.countryCodes \in Given /\ t.products \in Given
  <2>1. files.secrets.active \in Secret /\ files.secrets.keys \in Nat
    BY <1>1 DEF Secrets
  <2>2. "url" \in Given /\ "id" \in Given /\ files.secrets.active \in Given
    BY <2>1 DEF Given
  <2> QED
    BY <1>1, <1>3, <2>1, <2>2, ListsAreGiven, TokensAreGiven, AddressesAreGiven
<1>5. {key \in {"PLAIDSYNC_DATABASE_URL", "PLAID_CLIENT_ID", "PLAID_SECRET",
                "PLAIDSYNC_API_TOKEN", "PLAIDSYNC_KEK"} : Missing(env, key)} = {}
  BY <1>3, <1>4, GivenIsRead DEF Missing, Value
<1>6. TooSmall(env, PlaidsyncMinimum) = {k \in {"PLAIDSYNC_SYNC_INTERVAL"} : t.interval \in {0, TooLarge}}
  <2>1. DOMAIN PlaidsyncMinimum =
          {"PLAIDSYNC_KEK_VERSION", "PLAIDSYNC_SYNC_MIN_INTERVAL", "PLAIDSYNC_SYNC_INTERVAL",
           "PLAIDSYNC_SYNC_MAX_ATTEMPTS", "PLAIDSYNC_SYNC_RETRY_BASE",
           "PLAIDSYNC_SYNC_RETRY_MAX", "PLAIDSYNC_SYNC_CONCURRENCY",
           "PLAIDSYNC_SHUTDOWN_TIMEOUT", "PLAIDSYNC_TRANSACTIONS_DAYS_REQUESTED"}
        /\ PlaidsyncMinimum["PLAIDSYNC_KEK_VERSION"] = 1
        /\ PlaidsyncMinimum["PLAIDSYNC_SYNC_INTERVAL"] = 1
        /\ PlaidsyncMinimum["PLAIDSYNC_TRANSACTIONS_DAYS_REQUESTED"] = 1
    BY DEF PlaidsyncMinimum
  <2>2. \A k \in DOMAIN PlaidsyncMinimum :
          k \in DOMAIN env <=> k \in {"PLAIDSYNC_KEK_VERSION", "PLAIDSYNC_SYNC_INTERVAL",
                                      "PLAIDSYNC_TRANSACTIONS_DAYS_REQUESTED"}
    BY <1>3, <2>1
  <2>3. AtLeast(1, 1) /\ AtLeast(t.days, 1) /\ (~AtLeast(t.interval, 1) <=> t.interval \in {0, TooLarge})
    <3>1. t.days \in Nat /\ AtLeast(1, 1) /\ AtLeast(t.days, 1)
      BY <1>2, NumbersAreGiven DEF AtLeast, Number
    <3>2. CASE t.interval \in Nat
      <4>1. Number(t.interval) /\ t.interval # TooLarge
        BY <3>2, NumbersAreGiven DEF Number
      <4> QED
        BY <3>1, <3>2, <4>1 DEF AtLeast
    <3>3. CASE t.interval = TooLarge
      BY <3>1, <3>3 DEF AtLeast, Number
    <3> QED
      BY <1>2, <3>1, <3>2, <3>3
  <2>4. t.interval = Absent => t.interval \notin {0, TooLarge}
    BY NumbersAreGiven, MarksDiffer
  <2> QED
    BY <1>3, <2>1, <2>2, <2>3, <2>4 DEF TooSmall, Value
<1>7. NotAChoice(env, PlaidsyncChoices) = {}
  <2>1. /\ PlaidsyncChoices["PLAID_ENV"] = {"sandbox", "production"}
        /\ PlaidsyncChoices["PLAIDSYNC_RECURRING_ENABLED"] = BOOLEAN
        /\ PlaidsyncChoices["PLAIDSYNC_LOG_LEVEL"] = LogLevels
        /\ PlaidsyncChoices["PLAIDSYNC_LOG_FORMAT"] = LogFormats
        /\ DOMAIN PlaidsyncChoices =
             {"PLAID_ENV", "PLAIDSYNC_SCHEDULER_ENABLED", "PLAIDSYNC_RECURRING_ENABLED",
              "PLAIDSYNC_LOG_LEVEL", "PLAIDSYNC_LOG_FORMAT"}
    BY DEF PlaidsyncChoices
  <2>2. env["PLAIDSYNC_RECURRING_ENABLED"] \in BOOLEAN
    BY <1>3
  <2> QED
    BY <1>2, <1>3, <2>1, <2>2 DEF NotAChoice, Value, LogLevels, LogFormats
<1>8. Refused(env, "PLAIDSYNC_API_TOKEN", LAMBDA v : v # Placeholder /\ v.bytes >= 32) = {}
  BY <1>3, <1>4, GivenIsRead DEF Refused
<1>9. Refused(env, "PLAIDSYNC_BIND_ADDR", CheckBindAddr) = {}
  <2>1. CheckBindAddr(env["PLAIDSYNC_BIND_ADDR"])
    BY <1>3, <1>4, GivenIsRead, NumbersAreGiven DEF CheckBindAddr, InRange, Number
  <2> QED
    BY <2>1 DEF Refused
<1>10. Refused(env, "PLAIDSYNC_KEK", LAMBDA v : v # Placeholder /\ DecodeKEK(v)) = {}
  BY <1>3, <1>4, GivenIsRead DEF Refused, DecodeKEK
<1>11. /\ Refused(env, "PLAIDSYNC_KEK_PREVIOUS", LAMBDA v : CheckPrevious(v, ActiveVersion(env))) = {}
       /\ Refused(env, "PLAIDSYNC_REDIRECT_URI", CheckRedirectURI) = {}
       /\ Refused(env, "PLAIDSYNC_WEBHOOK_URL", LAMBDA v : CheckWebhookURL(v, PlaidEnv(env))) = {}
       /\ Refused(env, "PLAIDSYNC_LINK_LANGUAGE", LAMBDA v : v.shape \in CountryShapes) = {}
  BY <1>3 DEF Refused, Value
<1>12. Refused(env, "PLAIDSYNC_COUNTRY_CODES", CheckCountryCodes)
         = {k \in {"PLAIDSYNC_COUNTRY_CODES"} : NamesRepeat(t.countryCodes)}
  <2>1. CheckCountryCodes(t.countryCodes) <=> ~NamesRepeat(t.countryCodes)
    BY <1>2 DEF CheckCountryCodes, CountryShapes
  <2> QED
    BY <1>3, <1>4, <2>1, GivenIsRead DEF Refused, Value
<1>13. Refused(env, "PLAIDSYNC_TRANSACTIONS_DAYS_REQUESTED", LAMBDA v : InRange(v, 1, 730)) = {}
  <2>1. InRange(t.days, 1, 730)
    <3>1. \A d \in 1..730 : d \in Nat /\ 1 <= d /\ d <= 730
      OBVIOUS
    <3> QED
      BY <1>2, <3>1, NumbersAreGiven DEF InRange, Number
  <2> QED
    BY <1>3, <2>1 DEF Refused
<1>14. {ProductLists[n] : n \in {n \in DOMAIN ProductLists : ~CheckProducts(env, n)}}
         = {k \in {"PLAIDSYNC_PRODUCTS"} :
              NamesRepeat(t.products) \/ ~AllOf(t.products, {"alpha2", "word"})}
  <2>1. DOMAIN ProductLists = 1..4 /\ ProductLists[1] = "PLAIDSYNC_PRODUCTS"
        /\ \A n \in 2..4 : ProductLists[n] \notin DOMAIN env
    BY <1>3 DEF ProductLists
  <2>2. Products(env, 1) = t.products /\ \A n \in 2..4 : Products(env, n) = <<>>
    BY <1>3, <1>4, <2>1, GivenIsRead DEF Products, Optional, Value
  <2>3. AllOf(t.products, ProductShapes) <=> AllOf(t.products, {"alpha2", "word"})
    BY <1>2 DEF AllOf, ProductShapes
  <2>4. CheckProducts(env, 1) <=> ~NamesRepeat(t.products) /\ AllOf(t.products, {"alpha2", "word"})
    BY <2>2, <2>3 DEF CheckProducts
  <2>5. ASSUME NEW n \in 2..4 PROVE CheckProducts(env, n)
    <3>1. Names(<<>>) = {} /\ AllOf(<<>>, ProductShapes)
      BY DEF Names, AllOf
    <3>2. Cardinality(Names(<<>>)) = 0
      BY <3>1, FS_EmptySet
    <3>3. ~ (0 < Len(<<>>))
      OBVIOUS
    <3>4. ~NamesRepeat(<<>>)
      BY <3>2, <3>3 DEF NamesRepeat
    <3> QED
      BY <2>2, <3>1, <3>4 DEF CheckProducts
  <2>6. {n \in DOMAIN ProductLists : ~CheckProducts(env, n)}
          = {n \in {1} : NamesRepeat(t.products) \/ ~AllOf(t.products, {"alpha2", "word"})}
    BY <2>1, <2>4, <2>5
  <2> QED
    BY <2>1, <2>6
<1>15. {key \in {"PLAIDSYNC_SYNC_RETRY_MAX"} : RetryMax(env) < RetryBase(env)} = {}
  BY <1>3 DEF RetryMax, RetryBase, RetryTime, Optional, Value, ReadOr
<1>16. LoadPlaidsync(env) = Gaps(t)
  BY <1>5, <1>6, <1>7, <1>8, <1>9, <1>10, <1>11, <1>12, <1>13, <1>14, <1>15
  DEF LoadPlaidsync, Gaps
<1> QED
  BY <1>16 DEF env, t

(* The topper's one key, and the tables it may write. *)
Desktop(keys) == [name |-> [name |-> "desktop", shape |-> "word"], scope |-> "readwrite",
                  token |-> [bytes |-> 64, key |-> keys]]

LEMMA DesktopIsAKey ==
  ASSUME NEW keys \in Nat
  PROVE  /\ <<Desktop(keys)>> \in Given
         /\ CheckAPIKeys(<<Desktop(keys)>>)
<1>1. [bytes |-> 64, key |-> keys] \in Tokens
  BY DEF Tokens
<1>2. Desktop(keys) \in Entries
  BY <1>1 DEF Desktop, Entries
<1>3. Desktop(keys) \in Given /\ <<Desktop(keys)>> \in Given
  BY <1>2 DEF Given
<1>4. GoodKey(Desktop(keys))
  <2>1. /\ Desktop(keys).name.shape = "word" /\ Desktop(keys).scope = "readwrite"
        /\ Desktop(keys).token = [bytes |-> 64, key |-> keys]
    BY DEF Desktop
  <2>2. Desktop(keys).token # Placeholder /\ Desktop(keys).token.bytes >= 32
    BY <2>1, GivenIsRead, TokensAreGiven
  <2> QED
    BY <1>3, <2>1, <2>2, GivenIsRead
    DEF GoodKey, KeyNameShapes, IdentifierShapes, ProductShapes
<1> HIDE DEF Desktop
<1> QED
  BY <1>3, <1>4, GivenIsRead DEF CheckAPIKeys

(* Seven names are seven. *)
LEMMA SevenTables ==
  ASSUME NEW list, DOMAIN list = 1..7, Len(list) = 7,
         \A i \in 1..7 : list[i].shape = "word",
         \A i, j \in 1..7 : list[i].name = list[j].name => i = j,
         \A i \in 1..7 : list[i].name \notin ReservedTableNames \cup PlaidTables
  PROVE  CheckWriteTables(list)
<1> DEFINE f == [i \in 1..7 |-> list[i].name]
<1>1. f \in Bijection(1..7, Names(list))
  <2>1. f \in Injection(1..7, Names(list))
    BY Fun_IsInj DEF Names
  <2>2. f \in Surjection(1..7, Names(list))
    BY Fun_IsSurj DEF Names
  <2> QED
    BY <2>1, <2>2, Fun_IsBij
<1> HIDE DEF f
<1>2. Cardinality(Names(list)) = 7
  BY <1>1, FS_CountingElements, ExistsBijection(1..7, Names(list)) DEF ExistsBijection
<1>3. AllOf(list, IdentifierShapes)
  BY DEF AllOf, IdentifierShapes, ProductShapes
<1> QED
  BY <1>2, <1>3 DEF CheckWriteTables, NamesRepeat, Names

LEMMA TopperAccepts ==
  ASSUME NEW files \in Files, files.secrets # NULL
  PROVE  LoadTopper(TopperEnv(files)) = {}
<1> DEFINE env == TopperEnv(files)
           key == Desktop(files.secrets.keys)
           tables == env["TOPPER_WRITE_TABLES"]
<1>1. /\ DOMAIN env = {"TOPPER_BIND_ADDR", "TOPPER_DATABASE_URL", "TOPPER_API_KEYS",
                       "TOPPER_WRITE_TABLES", "TOPPER_STARTUP_WAIT", "TOPPER_CACHE_TTL",
                       "TOPPER_LOG_FORMAT", "TOPPER_LOG_LEVEL"}
      /\ env["TOPPER_BIND_ADDR"] = [host |-> "127.0.0.1", port |-> 1024]
      /\ env["TOPPER_DATABASE_URL"] = "url" /\ env["TOPPER_API_KEYS"] = <<key>>
      /\ env["TOPPER_STARTUP_WAIT"] = 60 /\ env["TOPPER_CACHE_TTL"] = 2
      /\ env["TOPPER_LOG_FORMAT"] = "text" /\ env["TOPPER_LOG_LEVEL"] = "info"
  BY DEF TopperEnv, Desktop
<1>2. /\ DOMAIN tables = 1..7 /\ Len(tables) = 7
      /\ \A i \in 1..7 : tables[i].shape = "word"
      /\ tables[1].name = "budgets" /\ tables[2].name = "category_overrides"
      /\ tables[3].name = "merchant_rules" /\ tables[4].name = "preferences"
      /\ tables[5].name = "categories" /\ tables[6].name = "recurring_entries"
      /\ tables[7].name = "recurring_hidden"
  BY DEF TopperEnv
<1> HIDE DEF env, key, tables
<1>3. files.secrets.keys \in Nat
  BY DEF Files, Secrets
<1>4. env["TOPPER_BIND_ADDR"] \in Given /\ "url" \in Given
  <2>1. "url" \in Given
    BY DEF Given
  <2> QED
    BY <1>1, <2>1, AddressesAreGiven
<1>5. Refused(env, "TOPPER_BIND_ADDR", CheckBindAddr) = {}
  <2>1. CheckBindAddr(env["TOPPER_BIND_ADDR"])
    BY <1>1, <1>4, GivenIsRead, NumbersAreGiven DEF CheckBindAddr, InRange, Number
  <2> QED
    BY <2>1 DEF Refused
<1>6. {k \in {"TOPPER_DATABASE_URL"} : Missing(env, k)} = {}
  BY <1>1, <1>4, GivenIsRead DEF Missing, Value
<1>7. <<key>> \in Given /\ CheckAPIKeys(<<key>>) /\ <<key>> # <<>>
  BY <1>3, DesktopIsAKey DEF key
<1>8. {k \in {"TOPPER_API_KEYS"} : Missing(env, k)} = {}
  BY <1>1, <1>7, GivenIsRead DEF Missing, Value
<1>9. Refused(env, "TOPPER_WRITE_TABLES", CheckWriteTables) = {}
  <2>1. \A i, j \in 1..7 : tables[i].name = tables[j].name => i = j
    BY <1>2
  <2>2. \A i \in 1..7 : tables[i].name \notin ReservedTableNames \cup PlaidTables
    BY <1>2 DEF ReservedTableNames, PlaidTables
  <2>3. CheckWriteTables(tables)
    BY <1>2, <2>1, <2>2, SevenTables
  <2> QED
    BY <2>3 DEF Refused, tables
<1>10. Refused(env, "TOPPER_CORS_ORIGINS", CheckOrigins) = {}
  BY <1>1 DEF Refused, Value
<1>11. TooSmall(env, TopperMinimum) = {}
  <2>1. /\ DOMAIN TopperMinimum =
             {"TOPPER_CACHE_TTL", "TOPPER_STARTUP_WAIT", "TOPPER_QUERY_TIMEOUT",
              "TOPPER_SHUTDOWN_TIMEOUT", "TOPPER_MAX_BODY_BYTES"}
        /\ TopperMinimum["TOPPER_CACHE_TTL"] = 0 /\ TopperMinimum["TOPPER_STARTUP_WAIT"] = 0
    BY DEF TopperMinimum
  <2>2. AtLeast(60, 0) /\ AtLeast(2, 0)
    BY NumbersAreGiven DEF AtLeast, Number
  <2> QED
    BY <1>1, <2>1, <2>2 DEF TooSmall, Value
<1>12. NotAChoice(env, TopperChoices) = {}
  <2>1. /\ DOMAIN TopperChoices = {"TOPPER_LOG_LEVEL", "TOPPER_LOG_FORMAT"}
        /\ TopperChoices["TOPPER_LOG_LEVEL"] = LogLevels
        /\ TopperChoices["TOPPER_LOG_FORMAT"] = LogFormats
    BY DEF TopperChoices
  <2> QED
    BY <1>1, <2>1 DEF NotAChoice, Value, LogLevels, LogFormats
<1>13. LoadTopper(env) = {}
  <2> DEFINE before == Refused(env, "TOPPER_BIND_ADDR", CheckBindAddr)
                       \cup {k \in {"TOPPER_DATABASE_URL"} : Missing(env, k)}
  <2>1. Refused(env, "TOPPER_API_KEYS",
                LAMBDA v : IF v = <<>> THEN before # {} ELSE CheckAPIKeys(v)) = {}
    <3> HIDE DEF before
    <3> QED
      BY <1>1, <1>7 DEF Refused
  <2> QED
    BY <1>5, <1>6, <1>8, <1>9, <1>10, <1>11, <1>12, <2>1 DEF LoadTopper
<1> QED
  BY <1>13 DEF env

-----------------------------------------------------------------------------
(* Theorems *)

LEMMA Invariance == Spec => []IInv
BY InitHolds, StepHolds, PTL DEF Spec

(* Wherever a save is cut short or fails, the last secret entered for each  *)
(* environment is known to the running app and after a restart.             *)
THEOREM SecretsAreKept == Spec => []EnteredSecretsKnown
<1>1. IInv => EnteredSecretsKnown
  <2> SUFFICES ASSUME IInv, NEW files \in {disk, memory}, files.secrets # NULL,
                      NEW e \in Envs, typed[e] # 0
               PROVE  \/ Known(files.secrets, files.config)[e] = typed[e]
                      \/ files.config = NULL /\ files.secrets.byEnv[e] = typed[e]
    BY DEF EnteredSecretsKnown
  <2>1. files \in Files /\ files.secrets \in Secrets /\ files.config \in Configs \cup {NULL}
    BY DEF IInv, Typed, Files
  <2>2. Tells(files.secrets, files.config)
    BY DEF IInv, InOrder, Recalled, Nothing
  <2> QED
    BY <2>1, <2>2, KnownIsTyped DEF IInv
<1> QED
  BY <1>1, Invariance, PTL

(* Over interrupted and repeated setups the app has the password the        *)
(* database was created with, and plaidsync the key of what is sealed in it.*)
THEOREM DatabaseStaysReadable == Spec => []KeysFitDatabase
<1>1. IInv => KeysFitDatabase
  BY RingIsKek DEF IInv, Typed, Sealed, KeysFitDatabase
<1> QED
  BY <1>1, Invariance, PTL

(* What the app has saved both services accept, but for an interval of 0 or *)
(* of too many digits, a country or a product named twice, and a product    *)
(* that begins with an underscore.                                          *)
THEOREM ServicesStart == Spec => []ServicesLoad
<1>1. IInv /\ Accepted => ServicesLoad
  BY PlaidsyncAccepts, TopperAccepts DEF IInv, Typed, Accepted, Configured, ServicesLoad
<1> QED
  BY <1>1, Acceptance, PTL
=============================================================================
