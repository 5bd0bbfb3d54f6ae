------------------------------ MODULE HostedLink ------------------------------
(***************************************************************************)
(* Linking a bank by Plaid Hosted Link: the dialog of the desktop app      *)
(* (components/hosted-link-button.tsx), which polls every two seconds,     *)
(* answers or not; plaidsync, which keeps the sessions in memory and turns *)
(* a finished one into an item (internal/api/hosted.go, link.go); and the  *)
(* user, who may open the page in several tabs.                            *)
(*                                                                         *)
(* An item is called by the link token it was linked with.  The row it     *)
(* becomes and its initial job are those of ItemSync and JobQueue.         *)
(***************************************************************************)
EXTENDS Naturals, FiniteSets

CONSTANTS Tokens,       \* link tokens
          Polls,        \* status requests under way at once
          MaxPages,     \* bound on how often the page of a token is opened
          MaxFaults,    \* bound on failing calls and restarts of plaidsync
          NULL

ASSUME HostedLinkAssumption ==
  /\ MaxPages \in Nat /\ MaxFaults \in Nat
  /\ NULL \notin Tokens \cup Polls

VARIABLES link,      \* what Plaid knows of each link token
          hosted,    \* hostedSessions: the session of each token, or NULL
          stored,    \* the items in plaid_items
          poll,      \* where each status request is
          phase,     \* React state of the dialog
          effect,    \* the phase rendered last, whose interval ticks
          answered,  \* history: the final statuses answered for each token
          broken,    \* history: tokens of which a completion has failed
          faults

plaidsync == <<hosted, stored, answered, broken>>
dialog == <<phase, effect>>
vars == <<link, plaidsync, poll, dialog, faults>>

(* ends: how pages have ended: with a public token, finished without one   *)
(* (Plaid reports update mode like that), or with the user leaving.        *)
Link == [state : {"fresh", "issued", "expired"}, opened : Nat, open : Nat,
         ends : SUBSET {"token", "finished", "exit"}, exchanged : BOOLEAN]

Final == {"completed", "exited", "expired"}
Session == [update : BOOLEAN, expired : BOOLEAN, done : Final \cup {NULL},
            mu : Polls \cup {NULL}]
ASSUME NullAssumption == NULL \notin Session \cup Final

(* stopped: the interval it was sent from is cleared.                        *)
Poll == [pc : {"none", "sent", "asking", "exchanging", "storing", "enriching", "relinking",
               "answered"},
         token : Tokens \cup {NULL}, stopped : BOOLEAN,
         reply : Final \cup {"none", "pending", "started", "error", "unknown"}]
NoPoll == [pc |-> "none", token |-> NULL, stopped |-> FALSE, reply |-> "none"]

Phase == [kind : {"idle", "starting", "waiting", "failed"}, session : Tokens \cup {NULL},
          started : BOOLEAN]
Plain(kind) == [kind |-> kind, session |-> NULL, started |-> FALSE]
Waiting(t, started) == [kind |-> "waiting", session |-> t, started |-> started]

Init ==
  /\ link = [t \in Tokens |-> [state |-> "fresh", opened |-> 0, open |-> 0, ends |-> {},
                               exchanged |-> FALSE]]
  /\ hosted = [t \in Tokens |-> NULL]
  /\ stored = {}
  /\ poll = [p \in Polls |-> NoPoll]
  /\ phase = Plain("idle") /\ effect = Plain("idle")
  /\ answered = [t \in Tokens |-> {}] /\ broken = {}
  /\ faults = 0

Fails == faults < MaxFaults /\ faults' = faults + 1

-----------------------------------------------------------------------------
(* The user at Plaid *)

OpenPage(t) ==
  /\ link[t].state = "issued" /\ link[t].opened < MaxPages
  /\ link' = [link EXCEPT ![t].opened = @ + 1, ![t].open = @ + 1]
  /\ UNCHANGED <<plaidsync, poll, dialog, faults>>

EndPage(t) ==
  /\ link[t].open > 0
  /\ \E end \in {"token", "finished", "exit"} :
       link' = [link EXCEPT ![t].open = @ - 1, ![t].ends = @ \cup {end}]
  /\ UNCHANGED <<plaidsync, poll, dialog, faults>>

PlaidExpires(t) ==
  /\ link[t].state = "issued"
  /\ link' = [link EXCEPT ![t].state = "expired"]
  /\ UNCHANGED <<plaidsync, poll, dialog, faults>>

(* By plaidsync's clock. *)
Expire(t) ==
  /\ hosted[t] # NULL /\ ~hosted[t].expired
  /\ hosted' = [hosted EXCEPT ![t].expired = TRUE]
  /\ UNCHANGED <<link, stored, answered, broken, poll, dialog, faults>>

-----------------------------------------------------------------------------
(* The dialog *)

(* No more answers are taken from the interval. *)
Stopped == [p \in Polls |-> IF poll[p].pc = "none" THEN NoPoll
                            ELSE [poll[p] EXCEPT !.stopped = TRUE]]

(* What a click sets is rendered at once. *)
Click(ph) == phase' = ph /\ effect' = ph /\ poll' = Stopped

Start ==
  /\ phase.kind = "idle" /\ effect.kind = "idle"
  /\ Click(Plain("starting"))
  /\ UNCHANGED <<link, plaidsync, faults>>

CancelDialog ==
  /\ effect.kind \in {"waiting", "failed"}
  /\ Click(Plain("idle"))
  /\ UNCHANGED <<link, plaidsync, faults>>

Retry ==
  /\ effect.kind = "failed"
  /\ Click(Plain("starting"))
  /\ UNCHANGED <<link, plaidsync, faults>>

(* createHosted, for a new item or in update mode; what an answer sets is   *)
(* rendered some time later.                                                *)
Create(t, update) ==
  /\ phase.kind = "starting" /\ link[t].state = "fresh"
  /\ link' = [link EXCEPT ![t].state = "issued"]
  /\ hosted' = [hosted EXCEPT ![t] = [update |-> update, expired |-> FALSE, done |-> NULL,
                                      mu |-> NULL]]
  /\ phase' = Waiting(t, FALSE)
  /\ UNCHANGED <<stored, answered, broken, poll, effect, faults>>

CreateFails ==
  /\ phase.kind = "starting"
  /\ phase' = Plain("idle")
  /\ UNCHANGED <<link, plaidsync, poll, effect, faults>>

Render ==
  /\ phase # effect
  /\ effect' = phase /\ poll' = Stopped
  /\ UNCHANGED <<link, plaidsync, phase, faults>>

(* The interval ticks whether or not the last poll was answered. *)
Tick(p) ==
  /\ effect.kind = "waiting" /\ poll[p].pc = "none"
  /\ poll' = [poll EXCEPT ![p] = [NoPoll EXCEPT !.pc = "sent", !.token = effect.session]]
  /\ UNCHANGED <<link, plaidsync, dialog, faults>>

Shows(p) ==
  LET reply == poll[p].reply
      t == poll[p].token
  IN  CASE reply \in {"error", "unknown", "expired"} -> Plain("failed")
        [] reply \in {"pending", "started"} ->
             IF (reply = "started") = effect.started THEN phase
             ELSE Waiting(t, reply = "started")
        [] reply = "completed" -> Plain("idle")
        [] reply = "exited" -> [Plain("failed") EXCEPT !.session = t]

Receive(p) ==
  /\ poll[p].pc = "answered"
  /\ phase' = IF poll[p].stopped THEN phase ELSE Shows(p)
  /\ poll' = [poll EXCEPT ![p] = NoPoll]
  /\ UNCHANGED <<link, plaidsync, effect, faults>>

-----------------------------------------------------------------------------
(* plaidsync: handleHostedStatus *)

Goes(p, pc) == poll' = [poll EXCEPT ![p].pc = pc]
Answers(p, reply) ==
  /\ poll' = [poll EXCEPT ![p].pc = "answered", ![p].reply = reply]
  /\ answered' = [answered EXCEPT ![poll[p].token] = IF reply \in Final THEN @ \cup {reply} ELSE @]

(* The deferred Unlock. *)
Unlocked(t) == [hosted EXCEPT ![t].mu = NULL]

NotRemembered(t, status) == Unlocked(t)   \* mutant: done is not set
Remembered(t, status) == [Unlocked(t) EXCEPT ![t].done = status]

Ends(p, status) == hosted' = Remembered(poll[p].token, status) /\ Answers(p, status)
FailsWith(p) == hosted' = Unlocked(poll[p].token) /\ Answers(p, "error")

UnknownSession(p) ==
  /\ poll[p].pc = "sent" /\ hosted[poll[p].token] = NULL
  /\ Answers(p, "unknown")
  /\ UNCHANGED <<link, hosted, stored, broken, dialog, faults>>

NoMutex(s) == TRUE   \* mutant: polls of a session run together
Free(s) == s.mu = NULL

NeverExpired(s) == FALSE   \* mutant: only Plaid says that a token has expired
PastExpiration(s) == s.expired

Lock(p) ==
  LET t == poll[p].token
  IN  /\ poll[p].pc = "sent" /\ hosted[t] # NULL /\ Free(hosted[t])
      /\ \/ hosted[t].done # NULL
            /\ Answers(p, hosted[t].done) /\ UNCHANGED hosted
         \/ hosted[t].done = NULL /\ PastExpiration(hosted[t])
            /\ hosted' = [hosted EXCEPT ![t].done = "expired"] /\ Answers(p, "expired")
         \/ hosted[t].done = NULL /\ ~PastExpiration(hosted[t])
            /\ hosted' = [hosted EXCEPT ![t].mu = p] /\ Goes(p, "asking") /\ UNCHANGED answered
      /\ UNCHANGED <<link, stored, broken, dialog, faults>>

(* GetLinkSession: what it says of all the pages that were opened. *)
Outcome(l) ==
  CASE "token" \in l.ends -> "token"
    [] "token" \notin l.ends /\ l.open > 0 -> "started"
    [] "token" \notin l.ends /\ l.open = 0 /\ "exit" \in l.ends -> "exit"
    [] l.open = 0 /\ l.ends = {"finished"} -> "finished"
    [] l.open = 0 /\ l.ends = {} -> "pending"

Pending(p) ==
  LET t == poll[p].token
  IN  /\ poll[p].pc = "asking" /\ Outcome(link[t]) \in {"pending", "started"}
      /\ hosted' = Unlocked(t) /\ Answers(p, Outcome(link[t]))
      /\ UNCHANGED <<link, stored, broken, dialog, faults>>

InvalidLinkToken(p) ==
  /\ poll[p].pc = "asking" /\ link[poll[p].token].state = "expired"
  /\ Ends(p, "expired")
  /\ UNCHANGED <<link, stored, broken, dialog, faults>>

AskFails(p) ==
  /\ poll[p].pc = "asking" /\ Fails
  /\ FailsWith(p)
  /\ UNCHANGED <<link, stored, broken, dialog>>

Exited(p) ==
  /\ poll[p].pc = "asking" /\ Outcome(link[poll[p].token]) = "exit"
  /\ Ends(p, "exited")
  /\ UNCHANGED <<link, stored, broken, dialog, faults>>

(* completeHosted: linkItem with a public token; without one, the item of   *)
(* an update-mode session is re-linked.                                     *)
Complete(p) ==
  LET outcome == Outcome(link[poll[p].token])
  IN  /\ poll[p].pc = "asking" /\ outcome \in {"token", "finished"}
      /\ Goes(p, IF outcome = "token" THEN "exchanging" ELSE "relinking")
      /\ UNCHANGED <<link, plaidsync, dialog, faults>>

(* ExchangePublicToken, which Plaid grants once. *)
Exchange(p) ==
  LET t == poll[p].token
  IN  /\ poll[p].pc = "exchanging" /\ ~link[t].exchanged
      /\ link' = [link EXCEPT ![t].exchanged = TRUE]
      /\ Goes(p, "storing")
      /\ UNCHANGED <<hosted, stored, answered, broken, dialog, faults>>

(* Refused, or failed with or without effect. *)
ExchangeFails(p) ==
  LET t == poll[p].token
  IN  /\ poll[p].pc = "exchanging"
      /\ \/ link[t].exchanged /\ UNCHANGED <<link, faults>>
         \/ ~link[t].exchanged /\ Fails
            /\ \E effective \in BOOLEAN : link' = [link EXCEPT ![t].exchanged = effective]
      /\ broken' = broken \cup {t}
      /\ FailsWith(p)
      /\ UNCHANGED <<stored, dialog>>

(* UpsertItem *)
StoreItem(p) ==
  /\ poll[p].pc = "storing"
  /\ stored' = stored \cup {poll[p].token}
  /\ Goes(p, "enriching")
  /\ UNCHANGED <<link, hosted, answered, broken, dialog, faults>>

(* /item/get, the second UpsertItem and GetItem; or GetCredential and the   *)
(* UpsertItem of an item that is there.                                     *)
Completed(p) ==
  /\ \/ poll[p].pc = "enriching"
     \/ poll[p].pc = "relinking" /\ hosted[poll[p].token].update
  /\ stored' = stored \cup {poll[p].token}
  /\ Ends(p, "completed")
  /\ UNCHANGED <<link, broken, dialog, faults>>

(* Not remembered: the next poll retries. *)
CompletionFails(p) ==
  LET t == poll[p].token
  IN  /\ \/ poll[p].pc \in {"storing", "enriching"} /\ Fails
         \/ poll[p].pc = "relinking" /\ hosted[t].update /\ Fails
         \/ poll[p].pc = "relinking" /\ ~hosted[t].update /\ UNCHANGED faults
      /\ broken' = broken \cup {t}
      /\ FailsWith(p)
      /\ UNCHANGED <<link, stored, dialog>>

(* The sessions are in memory; a request under way is not answered. *)
AtServer(p) == poll[p].pc \notin {"none", "answered"}

Restart ==
  /\ Fails
  /\ hosted' = [t \in Tokens |-> NULL]
  /\ poll' = [p \in Polls |-> IF AtServer(p) THEN [poll[p] EXCEPT !.pc = "answered",
                                                                  !.reply = "error"]
                              ELSE poll[p]]
  /\ UNCHANGED <<link, stored, answered, broken, dialog>>

Handle(p) ==
  \/ UnknownSession(p) \/ Pending(p) \/ InvalidLinkToken(p) \/ AskFails(p) \/ Exited(p)
  \/ Complete(p) \/ Exchange(p) \/ ExchangeFails(p) \/ StoreItem(p) \/ Completed(p)
  \/ CompletionFails(p)

Next ==
  \/ \E t \in Tokens : OpenPage(t) \/ EndPage(t) \/ PlaidExpires(t) \/ Expire(t)
  \/ Start \/ CancelDialog \/ Retry \/ CreateFails \/ Render
  \/ \E t \in Tokens, update \in BOOLEAN : Create(t, update)
  \/ \E p \in Polls : Tick(p) \/ Lock(p) \/ Handle(p) \/ Receive(p)
  \/ Restart

Spec == Init /\ [][Next]_vars

(* The interval ticks, React renders, requests go on and time passes; a     *)
(* mutex lets everybody in who waits (sync.Mutex is fair to waiters).       *)
FairSpec ==
  /\ Spec /\ WF_vars(Render)
  /\ \A p \in Polls : /\ WF_vars(Tick(p)) /\ WF_vars(Handle(p)) /\ WF_vars(Receive(p))
                      /\ SF_vars(Lock(p))
  /\ \A t \in Tokens : WF_vars(Expire(t))

-----------------------------------------------------------------------------
(* Properties *)

(* "two concurrent polls cannot both see the public token and both try to   *)
(* exchange it": it is sent to Plaid again only after a completion that     *)
(* failed (handleHostedStatus).                                             *)
SentAgainOnlyAfterFailure ==
  [][\A p \in Polls : Exchange(p) \/ ExchangeFails(p) =>
       (link[poll[p].token].exchanged => poll[p].token \in broken)]_vars

(* A session ends once: whatever the user does at Plaid afterwards, and     *)
(* however polls overlap, no two final statuses are answered for a token    *)
(* (hostedSession.done).                                                    *)
OneFinalStatus == \A t \in Tokens : Cardinality(answered[t]) <= 1

(* The dialog does not wait longer than the session lives, whatever happens *)
(* to the polls and however they queue up behind one another (the mutex of  *)
(* handleHostedStatus, tick).                                               *)
WaitingEnds == phase.kind = "waiting" ~> phase.kind # "waiting"
=============================================================================
