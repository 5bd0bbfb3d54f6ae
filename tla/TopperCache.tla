----------------------------- MODULE TopperCache -----------------------------
(***************************************************************************)
(* The topper's response cache (postgres-topper/internal/cache/cache.go)   *)
(* under concurrent GET requests for read-only relations                   *)
(* (internal/api/select.go), while other programs commit to the database.  *)
(*                                                                         *)
(* A body is the number of commits it was read after.  Time is counted in  *)
(* ticks; what takes no call to the database takes less than a tick.       *)
(***************************************************************************)
EXTENDS Naturals, FiniteSets, Functions

CONSTANTS Callers,       \* concurrent requests
          Paths,         \* path and query of a request
          TTL,           \* TOPPER_CACHE_TTL
          QueryTimeout,  \* TOPPER_QUERY_TIMEOUT
          Cap,           \* cacheEntries
          MaxTime,       \* bound on the clock
          MaxCommits,    \* bound on what other programs commit
          Nobody

ASSUME TopperCacheAssumption ==
  /\ TTL \in Nat \ {0}   \* Enabled
  /\ QueryTimeout \in Nat /\ Cap \in Nat \ {0}
  /\ MaxTime \in Nat /\ MaxCommits \in Nat
  /\ Nobody \notin Callers

VARIABLES now, db,   \* the clock; how many transactions are committed
          m,         \* the stored entries, by key
          flight,    \* singleflight: the caller that fills a key, or Nobody
          call,      \* where each request is
          replies,   \* history: what the last step answered
          shown      \* history: by key, the newest body answered so far

cacheVars == <<now, db, m, flight, call, replies, shown>>

(* readAt: when the body was read. *)
Entry == [body : 0..MaxCommits, readAt : 0..MaxTime, expires : Nat]
NoBody == [body |-> 0, readAt |-> 0, expires |-> 0]

(* filling: the query is on its way; read: it has its snapshot; done: the   *)
(* leader has the entry or, ok being FALSE, an error.                       *)
Call == [pc : {"idle", "asked", "missed", "waiting", "leading", "filling", "read", "done"},
         key : Paths, entry : Entry, deadline : Nat, ok : BOOLEAN]

CacheInit ==
  /\ now = 0 /\ db = 0
  /\ m = [k \in {} |-> NoBody]
  /\ flight = [k \in Paths |-> Nobody]
  /\ \E k \in Paths :
       call = [c \in Callers |-> [pc |-> "idle", key |-> k, entry |-> NoBody,
                                  deadline |-> 0, ok |-> TRUE]]
  /\ replies = {} /\ shown = [k \in Paths |-> 0]

Goes(c, pc) == call' = [call EXCEPT ![c].pc = pc]

(* The callers in cs get e, which is younger than it looks: Expires counts  *)
(* from the end of the query, the age of the body from its snapshot.        *)
Reply(cs, e) ==
  LET key == call[CHOOSE c \in cs : TRUE].key
  IN  /\ replies' = {[key |-> key, body |-> e.body, age |-> now - e.readAt]}
      /\ shown' = [shown EXCEPT ![key] = IF e.body > @ THEN e.body ELSE @]

NoAnswer == replies' = {} /\ UNCHANGED shown

Released(c) == [call[c] EXCEPT !.pc = "idle", !.entry = NoBody,
                               !.deadline = 0, !.ok = TRUE]

Stale(e) == now > e.expires   \* mutant: served for one tick too many
Expired(e) == ~(now < e.expires)

Expirations == {k \in DOMAIN m : Expired(m[k])}

-----------------------------------------------------------------------------
(* serveRead *)
Ask(c) ==
  /\ call[c].pc = "idle"
  /\ \E k \in Paths : call' = [call EXCEPT ![c] = [@ EXCEPT !.pc = "asked", !.key = k]]
  /\ NoAnswer
  /\ UNCHANGED <<now, db, m, flight>>

Hit(c) == call[c].key \in DOMAIN m \ Expirations
Miss(c) == call[c].key \notin DOMAIN m \ Expirations

(* load: an expired entry is deleted by whoever looks at it. *)
DropIfExpired(c) == m' = Restrict(m, DOMAIN m \ (Expirations \cap {call[c].key}))

LoadHit(c) ==
  /\ call[c].pc = "asked" /\ Hit(c)
  /\ Reply({c}, m[call[c].key])
  /\ call' = [call EXCEPT ![c] = Released(c)]
  /\ UNCHANGED <<now, db, m, flight>>

LoadMiss(c) ==
  /\ call[c].pc = "asked" /\ Miss(c)
  /\ DropIfExpired(c)
  /\ Goes(c, "missed") /\ NoAnswer
  /\ UNCHANGED <<now, db, flight>>

(* singleflight.Group.Do: the first caller of a key runs the function, those *)
(* that come before it has returned wait for its result.                     *)
NeverFlying(k) == FALSE   \* mutant: no single flight
Flying(k) == flight[k] # Nobody

Join(c) ==
  /\ call[c].pc = "missed" /\ Flying(call[c].key)
  /\ Goes(c, "waiting") /\ NoAnswer
  /\ UNCHANGED <<now, db, m, flight>>

Lead(c) ==
  /\ call[c].pc = "missed" /\ ~Flying(call[c].key)
  /\ flight' = [flight EXCEPT ![call[c].key] = c]
  /\ Goes(c, "leading") /\ NoAnswer
  /\ UNCHANGED <<now, db, m>>

(* A caller that missed before the previous fill was stored finds it now. *)
FoundAgain(c) == Hit(c)

LoadAgain(c) ==
  /\ call[c].pc = "leading"
  /\ IF FoundAgain(c)
     THEN /\ call' = [call EXCEPT ![c].pc = "done", ![c].entry = m[call[c].key]]
          /\ UNCHANGED m
     ELSE /\ call' = [call EXCEPT ![c].pc = "filling", ![c].deadline = now + QueryTimeout]
          /\ DropIfExpired(c)
  /\ NoAnswer
  /\ UNCHANGED <<now, db, flight>>

(* readBody, which the request's own context does not cancel. *)
Query(c) ==
  /\ call[c].pc = "filling"
  /\ call' = [call EXCEPT ![c] = [@ EXCEPT !.pc = "read", !.entry.body = db,
                                           !.entry.readAt = now]]
  /\ NoAnswer
  /\ UNCHANGED <<now, db, m, flight>>

FillFails(c) ==
  /\ call[c].pc \in {"filling", "read"}
  /\ call' = [call EXCEPT ![c] = [@ EXCEPT !.pc = "done", !.entry = NoBody, !.ok = FALSE]]
  /\ NoAnswer
  /\ UNCHANGED <<now, db, m, flight>>

(* store: what is kept of a full cache.  First every expired entry goes,     *)
(* then, if that was not enough, arbitrary ones until one more fits.         *)
Kept ==
  LET fresh == DOMAIN m \ Expirations
  IN  IF Cardinality(DOMAIN m) < Cap THEN {DOMAIN m}
      ELSE IF Cardinality(fresh) < Cap THEN {fresh}
      ELSE {ks \in SUBSET fresh : Cardinality(ks) = Cap - 1}

Store(c) ==
  /\ call[c].pc = "read"
  /\ LET e == [call[c].entry EXCEPT !.expires = now + TTL]
     IN  /\ \E ks \in Kept :
              m' = [k \in ks \cup {call[c].key} |-> IF k = call[c].key THEN e ELSE m[k]]
         /\ call' = [call EXCEPT ![c].pc = "done", ![c].entry = e]
  /\ NoAnswer
  /\ UNCHANGED <<now, db, flight>>

(* The leader's function has returned: everybody who waits has its result. *)
Landed(k) == [flight EXCEPT ![k] = Nobody]

Land(c) ==
  /\ call[c].pc = "done"
  /\ LET cs == {c} \cup {d \in Callers : call[d].pc = "waiting" /\ call[d].key = call[c].key}
     IN  /\ IF call[c].ok THEN Reply(cs, call[c].entry) ELSE NoAnswer
         /\ call' = [d \in Callers |-> IF d \in cs THEN Released(d) ELSE call[d]]
  /\ flight' = Landed(call[c].key)
  /\ UNCHANGED <<now, db, m>>

-----------------------------------------------------------------------------
(* plaidsync, or a write through the topper: nothing invalidates an entry. *)
CommitElsewhere ==
  /\ db < MaxCommits /\ db' = db + 1
  /\ NoAnswer
  /\ UNCHANGED <<now, m, flight, call>>

(* A fill ends before its deadline, and between calls of the database there *)
(* is no time to speak of.                                                  *)
Tick ==
  /\ now < MaxTime /\ now' = now + 1
  /\ \A c \in Callers : /\ call[c].pc \in {"filling", "read"} => now < call[c].deadline
                        /\ call[c].pc # "done"
  /\ NoAnswer
  /\ UNCHANGED <<db, m, flight, call>>

CallerStep(c) ==
  \/ LoadHit(c) \/ LoadMiss(c) \/ Join(c) \/ Lead(c) \/ LoadAgain(c)
  \/ Query(c) \/ FillFails(c) \/ Store(c) \/ Land(c)

CacheNext ==
  \/ \E c \in Callers : Ask(c) \/ CallerStep(c)
  \/ CommitElsewhere \/ Tick

CacheSpec == CacheInit /\ [][CacheNext]_cacheVars

-----------------------------------------------------------------------------
(* Properties *)

(* What a response misses was committed less than TTL plus one query before *)
(* it: an entry that expires TTL after its query has ended may be older     *)
(* than TTL (Cache.Do takes the time after fill).                           *)
StalenessBounded == \A r \in replies : r.age < TTL + QueryTimeout

(* A response for a key is never older than one any caller has already had, *)
(* across expiry, eviction and refills (Cache.Do: reads of one key are in   *)
(* the order of their flights).                                             *)
ReadsNeverGoBack == [][\A r \in replies' : r.body >= shown[r.key]]_cacheVars
=============================================================================
