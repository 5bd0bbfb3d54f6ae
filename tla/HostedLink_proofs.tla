--------------------------- MODULE HostedLink_proofs ---------------------------
(***************************************************************************)
(* Proofs about HostedLink, for any number of tokens, polls, pages and     *)
(* faults: a session ends with one status, and a public token is sent to   *)
(* Plaid again only after a completion that failed.                        *)
(*                                                                         *)
(* Both rest on the mutex of a session (Locked): whoever is at work for it *)
(* is alone, and has seen that it is not done.  A session that a restart   *)
(* has forgotten never comes back, since its token is not fresh any more.  *)
(***************************************************************************)
EXTENDS HostedLink, FiniteSetTheorems, TLAPS

USE DEF plaidsync, dialog

AtWork(p) == poll[p].pc \in {"asking", "exchanging", "storing", "enriching", "relinking"}
Has(p) == poll[p].pc \in {"storing", "enriching"}

Typed ==
  /\ link \in [Tokens -> Link] /\ hosted \in [Tokens -> Session \cup {NULL}]
  /\ poll \in [Polls -> Poll] /\ phase \in Phase /\ effect \in Phase
  /\ answered \in [Tokens -> SUBSET Final] /\ broken \subseteq Tokens

(* A poll is of a token, and so is the phase that sends it. *)
OfToken(ph) == ph.kind = "waiting" => ph.session \in Tokens
Named ==
  /\ OfToken(phase) /\ OfToken(effect)
  /\ \A p \in Polls : /\ poll[p].pc # "none" => poll[p].token \in Tokens
                      /\ poll[p].pc = "answered" => poll[p].reply # "none"

Fresh ==
  \A t \in Tokens : link[t].state = "fresh" => /\ hosted[t] = NULL /\ answered[t] = {}
                                               /\ ~link[t].exchanged

Locked ==
  \A p \in Polls : AtWork(p) => /\ hosted[poll[p].token] # NULL
                                /\ hosted[poll[p].token].mu = p
                                /\ hosted[poll[p].token].done = NULL

(* The final status of a session that is remembered is done. *)
Once ==
  \A t \in Tokens : /\ \E s \in Final : answered[t] \subseteq {s}
                    /\ hosted[t] # NULL => IF hosted[t].done = NULL THEN answered[t] = {}
                                           ELSE answered[t] \subseteq {hosted[t].done}

(* A token that was exchanged has become an item, or is about to. *)
Spent ==
  \A t \in Tokens : link[t].exchanged /\ t \notin broken /\ hosted[t] # NULL
                      => \/ hosted[t].done # NULL
                         \/ \E p \in Polls : poll[p].token = t /\ Has(p)

IInv == Typed /\ Named /\ Fresh /\ Locked /\ Once /\ Spent

LEMMA NullIsNone == NULL \notin Tokens /\ NULL \notin Polls /\ NULL \notin Session /\ NULL \notin Final
BY HostedLinkAssumption, NullAssumption

LEMMA NoPollTyped == NoPoll \in Poll /\ NoPoll.pc = "none"
BY DEF NoPoll, Poll

LEMMA PhasesTyped ==
  /\ \A kind \in {"idle", "starting", "waiting", "failed"} :
       Plain(kind) \in Phase /\ Plain(kind).kind = kind
  /\ \A t \in Tokens, started \in BOOLEAN :
       /\ Waiting(t, started) \in Phase /\ OfToken(Waiting(t, started))
       /\ [Plain("failed") EXCEPT !.session = t] \in Phase
       /\ OfToken([Plain("failed") EXCEPT !.session = t])
BY DEF Plain, Waiting, Phase, OfToken

LEMMA InitKeeps == Init => IInv
<1> SUFFICES ASSUME Init
             PROVE  IInv
  OBVIOUS
<1>1. Plain("idle") \in Phase /\ OfToken(Plain("idle"))
  BY PhasesTyped DEF OfToken, Plain
<1>2. \A p \in Polls : poll[p] = NoPoll
  BY DEF Init
<1>3. \A t \in Tokens : link[t] \in Link /\ ~link[t].exchanged
  BY DEF Init, Link
<1>4. Typed
  BY <1>1, <1>3, NoPollTyped DEF Init, Typed
<1>5. Named /\ Locked
  BY <1>1, <1>2, NoPollTyped DEF Init, Named, Locked, AtWork
<1>6. Fresh /\ Once /\ Spent
  BY <1>3 DEF Init, Fresh, Once, Spent, Final
<1> QED
  BY <1>4, <1>5, <1>6 DEF IInv

(* Nobody else is at work for the token of a poll that is. *)
LEMMA AloneAtWork ==
  ASSUME IInv, NEW p \in Polls, AtWork(p)
  PROVE  \A q \in Polls : q # p /\ AtWork(q) => poll[q].token # poll[p].token
BY DEF IInv, Locked

(* What happens elsewhere: nobody starts or ends work at the server. *)
LEMMA Elsewhere ==
  ASSUME IInv, Typed', Named',
         UNCHANGED <<answered, broken>>,
         \A t \in Tokens : /\ link'[t].exchanged = link[t].exchanged
                           /\ link'[t].state = "fresh" => link[t].state = "fresh"
                           /\ (hosted'[t] = NULL) = (hosted[t] = NULL)
                           /\ hosted[t] # NULL => /\ hosted'[t].done = hosted[t].done
                                                  /\ hosted'[t].mu = hosted[t].mu,
         \A p \in Polls : /\ AtWork(p)' <=> AtWork(p)
                          /\ AtWork(p) => /\ poll'[p].pc = poll[p].pc
                                          /\ poll'[p].token = poll[p].token
  PROVE  IInv'
<1>1. \A p \in Polls : AtWork(p) => poll[p].token \in Tokens
  BY DEF IInv, Named, AtWork
<1>2. Fresh' /\ Once'
  BY DEF IInv, Fresh, Once
<1>3. Locked'
  BY <1>1 DEF IInv, Locked
<1>4. \A p \in Polls : Has(p) => Has(p)' /\ poll'[p].token = poll[p].token
  BY DEF Has, AtWork
<1>5. Spent'
  BY <1>4 DEF IInv, Spent
<1> QED
  BY <1>2, <1>3, <1>5 DEF IInv

-----------------------------------------------------------------------------
(* The user, Plaid, the clock and the dialog *)

LEMMA UserSteps ==
  ASSUME IInv, NEW t \in Tokens, OpenPage(t) \/ EndPage(t) \/ PlaidExpires(t) \/ Expire(t)
  PROVE  IInv'
<1>1. link \in [Tokens -> Link] /\ hosted \in [Tokens -> Session \cup {NULL}] /\ link[t] \in Link
  BY DEF IInv, Typed
<1>2. CASE OpenPage(t) \/ EndPage(t) \/ PlaidExpires(t)
  <2>1. /\ link' \in [Tokens -> Link]
        /\ \A u \in Tokens : /\ link'[u].exchanged = link[u].exchanged
                             /\ link'[u].state = "fresh" => link[u].state = "fresh"
    <3>1. CASE OpenPage(t)
      BY <1>1, <3>1 DEF OpenPage, Link
    <3>2. CASE EndPage(t)
      <4>1. PICK end \in {"token", "finished", "exit"} :
              link' = [link EXCEPT ![t].open = @ - 1, ![t].ends = @ \cup {end}]
        BY <3>2 DEF EndPage
      <4>2. link[t].open \in Nat /\ link[t].open > 0 /\ link[t].ends \in SUBSET {"token", "finished", "exit"}
        BY <1>1, <3>2 DEF EndPage, Link
      <4>3. link[t].open - 1 \in Nat /\ link[t].ends \cup {end} \in SUBSET {"token", "finished", "exit"}
        BY <4>2
      <4> QED
        BY <1>1, <4>1, <4>3 DEF Link
    <3>3. CASE PlaidExpires(t)
      BY <1>1, <3>3 DEF PlaidExpires, Link
    <3> QED
      BY <1>2, <3>1, <3>2, <3>3
  <2>2. UNCHANGED <<hosted, stored, answered, broken, poll, phase, effect>>
    BY <1>2 DEF OpenPage, EndPage, PlaidExpires
  <2>3. Typed' /\ Named'
    BY <2>1, <2>2 DEF IInv, Typed, Named, OfToken
  <2> QED
    BY <2>1, <2>2, <2>3, Elsewhere DEF AtWork
<1>3. CASE Expire(t)
  <2>1. hosted[t] \in Session /\ hosted[t] # NULL
    BY <1>1, <1>3 DEF Expire
  <2> DEFINE s == [hosted[t] EXCEPT !.expired = TRUE]
  <2>2. s \in Session /\ s.done = hosted[t].done /\ s.mu = hosted[t].mu
    BY <2>1 DEF Session
  <2>3. s # NULL
    BY <2>2, NullIsNone
  <2>4. hosted' = [hosted EXCEPT ![t] = s]
    BY <1>3 DEF Expire
  <2>5. UNCHANGED <<link, stored, answered, broken, poll, phase, effect>>
    BY <1>3 DEF Expire
  <2> HIDE DEF s
  <2>6. /\ hosted' \in [Tokens -> Session \cup {NULL}]
        /\ hosted'[t] = s /\ \A u \in Tokens : u # t => hosted'[u] = hosted[u]
    BY <1>1, <2>2, <2>4
  <2>7. Typed' /\ Named'
    BY <2>5, <2>6 DEF IInv, Typed, Named, OfToken
  <2> QED
    BY <2>1, <2>2, <2>3, <2>5, <2>6, <2>7, Elsewhere DEF AtWork
<1> QED
  BY <1>2, <1>3

LEMMA StoppedTyped ==
  ASSUME IInv
  PROVE  /\ Stopped \in [Polls -> Poll]
         /\ \A p \in Polls : /\ Stopped[p].pc = poll[p].pc
                             /\ poll[p].pc # "none" => /\ Stopped[p].token = poll[p].token
                                                       /\ Stopped[p].reply = poll[p].reply
<1>1. poll \in [Polls -> Poll]
  BY DEF IInv, Typed
<1>2. ASSUME NEW p \in Polls
      PROVE  /\ Stopped[p] \in Poll /\ Stopped[p].pc = poll[p].pc
             /\ poll[p].pc # "none" => /\ Stopped[p].token = poll[p].token
                                       /\ Stopped[p].reply = poll[p].reply
  <2>1. poll[p] \in Poll
    BY <1>1
  <2>2. CASE poll[p].pc = "none"
    <3>1. Stopped[p] = NoPoll
      BY <2>2 DEF Stopped
    <3> QED
      BY <2>2, <3>1, NoPollTyped
  <2>3. CASE poll[p].pc # "none"
    <3>1. Stopped[p] = [poll[p] EXCEPT !.stopped = TRUE]
      BY <2>3 DEF Stopped
    <3> QED
      BY <2>1, <3>1 DEF Poll
  <2> QED
    BY <2>2, <2>3
<1>3. Stopped \in [Polls -> Poll]
  BY <1>2 DEF Stopped
<1> QED
  BY <1>2, <1>3

(* The dialog shows something else, and may stop listening to its polls. *)
LEMMA DialogMoves ==
  ASSUME IInv, phase' \in Phase, OfToken(phase'), effect' \in Phase, OfToken(effect'),
         poll' = Stopped \/ UNCHANGED poll, UNCHANGED <<link, hosted, answered, broken>>
  PROVE  IInv'
<1>1. /\ poll' \in [Polls -> Poll]
      /\ \A p \in Polls : /\ poll'[p].pc = poll[p].pc
                          /\ poll[p].pc # "none" => /\ poll'[p].token = poll[p].token
                                                    /\ poll'[p].reply = poll[p].reply
  BY StoppedTyped DEF IInv, Typed
<1>2. Typed' /\ Named'
  BY <1>1 DEF IInv, Typed, Named, OfToken
<1> QED
  BY <1>1, <1>2, Elsewhere DEF AtWork

LEMMA DialogSteps ==
  ASSUME IInv, Start \/ CancelDialog \/ Retry \/ CreateFails \/ Render
  PROVE  IInv'
<1>1. phase \in Phase /\ effect \in Phase /\ OfToken(phase) /\ OfToken(effect)
  BY DEF IInv, Typed, Named
<1>2. \A kind \in {"idle", "starting"} : Plain(kind) \in Phase /\ OfToken(Plain(kind))
  BY PhasesTyped DEF OfToken
<1>3. CASE Start \/ CancelDialog \/ Retry
  <2>1. PICK kind \in {"idle", "starting"} : Click(Plain(kind))
    BY <1>3 DEF Start, CancelDialog, Retry
  <2>2. UNCHANGED <<link, hosted, answered, broken>>
    BY <1>3 DEF Start, CancelDialog, Retry
  <2> QED
    BY <1>2, <2>1, <2>2, DialogMoves DEF Click
<1>4. CASE CreateFails
  BY <1>1, <1>2, <1>4, DialogMoves DEF CreateFails
<1>5. CASE Render
  BY <1>1, <1>5, DialogMoves DEF Render
<1> QED
  BY <1>3, <1>4, <1>5

(* A fresh token has no poll, no answer and was not exchanged. *)
LEMMA Created ==
  ASSUME IInv, NEW t \in Tokens, NEW update \in BOOLEAN, Create(t, update)
  PROVE  IInv'
<1> DEFINE s == [update |-> update, expired |-> FALSE, done |-> NULL, mu |-> NULL]
<1>1. /\ link \in [Tokens -> Link] /\ hosted \in [Tokens -> Session \cup {NULL}] /\ link[t] \in Link
      /\ hosted[t] = NULL /\ answered[t] = {} /\ ~link[t].exchanged
      /\ UNCHANGED <<stored, answered, broken, poll, effect>>
  BY DEF IInv, Typed, Fresh, Create
<1>2. s \in Session /\ s # NULL /\ s.done = NULL
  <2>1. s \in Session
    BY DEF Session
  <2> QED
    BY <2>1, NullIsNone
<1>3. hosted' = [hosted EXCEPT ![t] = s] /\ phase' = Waiting(t, FALSE)
  BY DEF Create
<1>4. /\ link' \in [Tokens -> Link] /\ link'[t].state = "issued" /\ ~link'[t].exchanged
      /\ \A u \in Tokens : u # t => link'[u] = link[u]
  BY <1>1 DEF Create, Link
<1> HIDE DEF s
<1>5. /\ hosted' \in [Tokens -> Session \cup {NULL}] /\ hosted'[t] = s
      /\ \A u \in Tokens : u # t => hosted'[u] = hosted[u]
  BY <1>1, <1>2, <1>3
<1>6. \A p \in Polls : AtWork(p) => poll[p].token \in Tokens /\ poll[p].token # t
  BY <1>1 DEF IInv, Named, Locked, AtWork
<1>7. Typed' /\ Named'
  BY <1>1, <1>3, <1>4, <1>5, PhasesTyped DEF IInv, Typed, Named, OfToken
<1>8. Fresh' /\ Once'
  BY <1>1, <1>2, <1>4, <1>5 DEF IInv, Fresh, Once
<1>9. Locked'
  BY <1>1, <1>5, <1>6 DEF IInv, Locked, AtWork
<1>10. Spent'
  BY <1>1, <1>4, <1>5 DEF IInv, Spent, Has
<1> QED
  BY <1>7, <1>8, <1>9, <1>10 DEF IInv

LEMMA Ticks ==
  ASSUME IInv, NEW p \in Polls, Tick(p)
  PROVE  IInv'
<1> DEFINE r == [NoPoll EXCEPT !.pc = "sent", !.token = effect.session]
<1>1. poll \in [Polls -> Poll] /\ effect.session \in Tokens /\ poll[p].pc = "none"
  BY DEF IInv, Typed, Named, OfToken, Tick
<1>2. r \in Poll /\ r.pc = "sent" /\ r.token = effect.session
  BY <1>1, NoPollTyped DEF Poll
<1>3. poll' = [poll EXCEPT ![p] = r] /\ UNCHANGED <<link, hosted, answered, broken, phase, effect>>
  BY DEF Tick
<1> HIDE DEF r
<1>4. /\ poll' \in [Polls -> Poll] /\ poll'[p] = r
      /\ \A q \in Polls : q # p => poll'[q] = poll[q]
  BY <1>1, <1>2, <1>3
<1>5. Typed' /\ Named'
  BY <1>1, <1>2, <1>3, <1>4 DEF IInv, Typed, Named, OfToken
<1>6. ~AtWork(p) /\ ~AtWork(p)'
  BY <1>1, <1>2, <1>4 DEF AtWork
<1> QED
  BY <1>3, <1>4, <1>5, <1>6, Elsewhere DEF AtWork

LEMMA Receives ==
  ASSUME IInv, NEW p \in Polls, Receive(p)
  PROVE  IInv'
<1>1. /\ poll \in [Polls -> Poll] /\ poll[p].pc = "answered" /\ poll[p].token \in Tokens
      /\ poll[p].reply \in Final \cup {"pending", "started", "error", "unknown"}
      /\ poll' = [poll EXCEPT ![p] = NoPoll]
      /\ UNCHANGED <<link, hosted, answered, broken, effect>>
      /\ phase \in Phase /\ OfToken(phase)
  BY DEF IInv, Typed, Named, Receive, Poll
<1>2. phase' \in Phase /\ OfToken(phase')
  <2>1. CASE poll[p].stopped
    BY <1>1, <2>1 DEF Receive
  <2>2. CASE poll[p].reply \in {"error", "unknown", "expired"}
    BY <1>1, <2>1, <2>2, PhasesTyped DEF Receive, Shows, OfToken
  <2>3. CASE poll[p].reply \in {"pending", "started"}
    BY <1>1, <2>1, <2>3, PhasesTyped DEF Receive, Shows
  <2>4. CASE poll[p].reply = "completed"
    BY <1>1, <2>1, <2>4, PhasesTyped DEF Receive, Shows, OfToken
  <2>5. CASE poll[p].reply = "exited"
    BY <1>1, <2>1, <2>5, PhasesTyped DEF Receive, Shows
  <2> QED
    BY <1>1, <2>2, <2>3, <2>4, <2>5 DEF Final
<1>3. /\ poll' \in [Polls -> Poll] /\ poll'[p].pc = "none"
      /\ \A q \in Polls : q # p => poll'[q] = poll[q]
  BY <1>1, NoPollTyped
<1>4. Typed' /\ Named'
  BY <1>1, <1>2, <1>3 DEF IInv, Typed, Named, OfToken
<1>5. ~AtWork(p) /\ ~AtWork(p)'
  BY <1>1, <1>3 DEF AtWork
<1> QED
  BY <1>1, <1>3, <1>4, <1>5, Elsewhere DEF AtWork

-----------------------------------------------------------------------------
(* plaidsync *)

(* One poll moves, and what it does is about the session of its token. *)
Moves(p, t, r) ==
  /\ poll[p].token = t /\ poll' = [poll EXCEPT ![p] = r] /\ r.token = t /\ r.pc # "none"
  /\ r.pc = "answered" => r.reply # "none"
  /\ \A q \in Polls : q # p /\ AtWork(q) => poll[q].token # t
  /\ UNCHANGED <<phase, effect>>
  /\ hosted[t] # NULL
  /\ hosted' \in [Tokens -> Session \cup {NULL}] /\ hosted'[t] # NULL
  /\ \A u \in Tokens : u # t => hosted'[u] = hosted[u]
  /\ r.pc \in {"asking", "exchanging", "storing", "enriching", "relinking"}
       => hosted'[t].mu = p /\ hosted'[t].done = NULL
  /\ answered' \in [Tokens -> SUBSET Final]
  /\ \A u \in Tokens : u # t => answered'[u] = answered[u]
  /\ \/ hosted'[t].done = NULL /\ answered'[t] = {}
     \/ hosted'[t].done \in Final /\ answered'[t] \subseteq {hosted'[t].done}
  /\ link' \in [Tokens -> Link] /\ link'[t].state = link[t].state
  /\ \A u \in Tokens : u # t => link'[u] = link[u]
  /\ broken \subseteq broken' /\ broken' \subseteq Tokens
  /\ link'[t].exchanged /\ t \notin broken'
       => hosted'[t].done # NULL \/ r.pc \in {"storing", "enriching"}

LEMMA ServerMoves ==
  ASSUME IInv, NEW p \in Polls, NEW t \in Tokens, NEW r \in Poll, Moves(p, t, r)
  PROVE  IInv'
<1> USE DEF Moves
<1>1. /\ poll' \in [Polls -> Poll] /\ poll'[p] = r
      /\ \A q \in Polls : q # p => poll'[q] = poll[q]
  BY DEF IInv, Typed
<1>2. Typed' /\ Named'
  BY <1>1 DEF IInv, Typed, Named, OfToken
<1>3. Fresh'
  BY DEF IInv, Fresh
<1>4. Locked'
  BY <1>1 DEF IInv, Named, Locked, AtWork
<1>5. Once'
  <2>1. \E s \in Final : answered'[t] \subseteq {s}
    BY DEF Final
  <2> QED
    BY <2>1, NullIsNone DEF IInv, Once
<1>6. Spent'
  <2> SUFFICES ASSUME NEW u \in Tokens, link'[u].exchanged, u \notin broken', hosted'[u] # NULL,
                      hosted'[u].done = NULL
               PROVE  \E q \in Polls : poll'[q].token = u /\ Has(q)'
    BY DEF Spent
  <2>1. CASE u = t
    BY <1>1, <2>1 DEF Has
  <2>2. CASE u # t
    <3>1. PICK q \in Polls : poll[q].token = u /\ Has(q)
      BY <2>2 DEF IInv, Spent
    <3> QED
      BY <1>1, <2>2, <3>1 DEF Has
  <2> QED
    BY <2>1, <2>2
<1> QED
  BY <1>2, <1>3, <1>4, <1>5, <1>6 DEF IInv

(* Where the poll of a step is. *)
LEMMA WhereItIs ==
  ASSUME IInv, NEW p \in Polls, AtWork(p)
  PROVE  LET t == poll[p].token
         IN  /\ t \in Tokens /\ hosted[t] \in Session /\ hosted[t] # NULL
             /\ hosted[t].mu = p /\ hosted[t].done = NULL /\ answered[t] = {}
             /\ \A q \in Polls : q # p /\ AtWork(q) => poll[q].token # t
             /\ link[t] \in Link
             /\ link[t].exchanged /\ t \notin broken => Has(p)
<1> DEFINE t == poll[p].token
<1>1. t \in Tokens /\ hosted[t] # NULL /\ hosted[t].mu = p /\ hosted[t].done = NULL
  BY DEF IInv, Named, Locked, AtWork
<1>2. hosted[t] \in Session /\ link[t] \in Link
  BY <1>1 DEF IInv, Typed
<1>3. answered[t] = {}
  BY <1>1 DEF IInv, Once
<1>4. \A q \in Polls : q # p /\ AtWork(q) => poll[q].token # t
  BY <1>1, AloneAtWork
<1>5. ASSUME link[t].exchanged, t \notin broken
      PROVE  Has(p)
  <2>1. PICK q \in Polls : poll[q].token = t /\ Has(q)
    BY <1>1, <1>5 DEF IInv, Spent
  <2>2. q = p
    BY <1>4, <2>1 DEF Has, AtWork
  <2> QED
    BY <2>1, <2>2
<1> QED
  BY <1>1, <1>2, <1>3, <1>4, <1>5

LEMMA SessionsTyped ==
  ASSUME NEW t \in Tokens, hosted \in [Tokens -> Session \cup {NULL}], hosted[t] \in Session
  PROVE  /\ Unlocked(t) \in [Tokens -> Session \cup {NULL}]
         /\ Unlocked(t)[t] # NULL /\ Unlocked(t)[t].done = hosted[t].done
         /\ \A u \in Tokens : u # t => Unlocked(t)[u] = hosted[u]
         /\ \A status \in Final :
              /\ Remembered(t, status) \in [Tokens -> Session \cup {NULL}]
              /\ Remembered(t, status)[t] # NULL /\ Remembered(t, status)[t].done = status
              /\ \A u \in Tokens : u # t => Remembered(t, status)[u] = hosted[u]
<1> DEFINE s == [hosted[t] EXCEPT !.mu = NULL]
<1>1. s \in Session /\ s.done = hosted[t].done
  BY DEF Session
<1>2. Unlocked(t) = [hosted EXCEPT ![t] = s]
  BY DEF Unlocked
<1>3. /\ Unlocked(t) \in [Tokens -> Session \cup {NULL}]
      /\ Unlocked(t)[t] = s /\ \A u \in Tokens : u # t => Unlocked(t)[u] = hosted[u]
  BY <1>1, <1>2
<1>4. ASSUME NEW status \in Final
      PROVE  /\ Remembered(t, status) \in [Tokens -> Session \cup {NULL}]
             /\ Remembered(t, status)[t] # NULL /\ Remembered(t, status)[t].done = status
             /\ \A u \in Tokens : u # t => Remembered(t, status)[u] = hosted[u]
  <2> DEFINE d == [s EXCEPT !.done = status]
  <2>1. d \in Session /\ d.done = status
    BY <1>1 DEF Session
  <2>2. Remembered(t, status) = [Unlocked(t) EXCEPT ![t] = d]
    BY <1>3 DEF Remembered
  <2> HIDE DEF s, d
  <2>3. /\ Remembered(t, status) \in [Tokens -> Session \cup {NULL}]
        /\ Remembered(t, status)[t] = d
        /\ \A u \in Tokens : u # t => Remembered(t, status)[u] = Unlocked(t)[u]
    BY <1>3, <2>1, <2>2
  <2> QED
    BY <1>3, <2>1, <2>3, NullIsNone
<1> HIDE DEF s
<1> QED
  BY <1>1, <1>3, <1>4, NullIsNone

(* A poll is answered. *)
LEMMA AnswerTyped ==
  ASSUME IInv, NEW p \in Polls, poll[p].token \in Tokens,
         NEW reply \in Final \cup {"pending", "started", "error", "unknown"}, Answers(p, reply)
  PROVE  LET t == poll[p].token
             r == [poll[p] EXCEPT !.pc = "answered", !.reply = reply]
         IN  /\ r \in Poll /\ poll' = [poll EXCEPT ![p] = r] /\ r.token = t /\ r.pc = "answered"
             /\ r.reply = reply /\ reply # "none"
             /\ answered' \in [Tokens -> SUBSET Final]
             /\ answered'[t] = IF reply \in Final THEN answered[t] \cup {reply} ELSE answered[t]
             /\ \A u \in Tokens : u # t => answered'[u] = answered[u]
<1> DEFINE t == poll[p].token
           r == [poll[p] EXCEPT !.pc = "answered", !.reply = reply]
           a == IF reply \in Final THEN answered[t] \cup {reply} ELSE answered[t]
<1>1. poll[p] \in Poll /\ poll \in [Polls -> Poll] /\ answered \in [Tokens -> SUBSET Final]
  BY DEF IInv, Typed
<1>2. r \in Poll /\ r.token = t /\ r.pc = "answered" /\ r.reply = reply /\ reply # "none"
  BY <1>1 DEF Poll, Final
<1>3. poll' = [poll EXCEPT ![p] = r]
  BY <1>1 DEF Answers
<1>4. a \in SUBSET Final /\ answered' = [answered EXCEPT ![t] = a]
  BY <1>1 DEF Answers
<1>5. answered' \in [Tokens -> SUBSET Final] /\ answered'[t] = a
      /\ \A u \in Tokens : u # t => answered'[u] = answered[u]
  BY <1>1, <1>4
<1> QED
  BY <1>2, <1>3, <1>5

(* It goes on at work, *)
LEMMA GoesOn ==
  ASSUME IInv, NEW p \in Polls, AtWork(p),
         NEW pc \in {"asking", "exchanging", "storing", "enriching", "relinking"}, Goes(p, pc),
         UNCHANGED <<hosted, answered, broken, phase, effect>>,
         link' \in [Tokens -> Link], link'[poll[p].token].state = link[poll[p].token].state,
         \A u \in Tokens : u # poll[p].token => link'[u] = link[u],
         link'[poll[p].token].exchanged /\ poll[p].token \notin broken
           => pc \in {"storing", "enriching"}
  PROVE  IInv'
<1> DEFINE t == poll[p].token
           r == [poll[p] EXCEPT !.pc = pc]
<1>1. /\ poll[p] \in Poll /\ poll \in [Polls -> Poll] /\ broken \subseteq Tokens
      /\ hosted \in [Tokens -> Session \cup {NULL}] /\ answered \in [Tokens -> SUBSET Final]
  BY DEF IInv, Typed
<1>2. r \in Poll /\ r.token = t /\ r.pc = pc /\ poll' = [poll EXCEPT ![p] = r]
  BY <1>1 DEF Poll, Goes
<1>3. /\ t \in Tokens /\ hosted[t] # NULL /\ hosted[t].mu = p /\ hosted[t].done = NULL
      /\ answered[t] = {} /\ \A q \in Polls : q # p /\ AtWork(q) => poll[q].token # t
  BY WhereItIs
<1> HIDE DEF r
<1>4. Moves(p, t, r)
  BY <1>1, <1>2, <1>3 DEF Moves
<1> QED
  BY <1>2, <1>3, <1>4, ServerMoves

(* or leaves with a status that is not final, *)
LEMMA LeavesOpen ==
  ASSUME IInv, NEW p \in Polls, AtWork(p), NEW reply \in {"pending", "started", "error"},
         hosted' = Unlocked(poll[p].token), Answers(p, reply), UNCHANGED <<phase, effect>>,
         link' \in [Tokens -> Link], link'[poll[p].token].state = link[poll[p].token].state,
         \A u \in Tokens : u # poll[p].token => link'[u] = link[u],
         broken \subseteq broken', broken' \subseteq Tokens,
         ~(link'[poll[p].token].exchanged /\ poll[p].token \notin broken')
  PROVE  IInv'
<1> DEFINE t == poll[p].token
           r == [poll[p] EXCEPT !.pc = "answered", !.reply = reply]
<1>1. hosted \in [Tokens -> Session \cup {NULL}] /\ answered \in [Tokens -> SUBSET Final]
  BY DEF IInv, Typed
<1>2. /\ t \in Tokens /\ hosted[t] \in Session /\ hosted[t] # NULL /\ hosted[t].done = NULL
      /\ answered[t] = {} /\ \A q \in Polls : q # p /\ AtWork(q) => poll[q].token # t
  BY WhereItIs
<1>3. /\ r \in Poll /\ poll' = [poll EXCEPT ![p] = r] /\ r.token = t /\ r.pc = "answered"
      /\ r.reply # "none" /\ answered' \in [Tokens -> SUBSET Final] /\ answered'[t] = {}
      /\ \A u \in Tokens : u # t => answered'[u] = answered[u]
  <2>1. reply \notin Final /\ reply \in Final \cup {"pending", "started", "error", "unknown"}
    BY DEF Final
  <2> QED
    BY <1>2, <2>1, AnswerTyped
<1>4. /\ hosted' \in [Tokens -> Session \cup {NULL}] /\ hosted'[t] # NULL /\ hosted'[t].done = NULL
      /\ \A u \in Tokens : u # t => hosted'[u] = hosted[u]
  BY <1>1, <1>2, SessionsTyped
<1> HIDE DEF r
<1>5. Moves(p, t, r)
  BY <1>2, <1>3, <1>4 DEF Moves
<1> QED
  BY <1>2, <1>3, <1>5, ServerMoves

(* or ends the session. *)
LEMMA EndsIt ==
  ASSUME IInv, NEW p \in Polls, AtWork(p), NEW status \in Final, Ends(p, status),
         UNCHANGED <<link, broken, phase, effect>>
  PROVE  IInv'
<1> DEFINE t == poll[p].token
           r == [poll[p] EXCEPT !.pc = "answered", !.reply = status]
<1>1. /\ hosted \in [Tokens -> Session \cup {NULL}] /\ answered \in [Tokens -> SUBSET Final]
      /\ link \in [Tokens -> Link] /\ broken \subseteq Tokens
  BY DEF IInv, Typed
<1>2. /\ t \in Tokens /\ hosted[t] \in Session /\ hosted[t] # NULL
      /\ answered[t] = {} /\ \A q \in Polls : q # p /\ AtWork(q) => poll[q].token # t
  BY WhereItIs
<1>3. /\ r \in Poll /\ poll' = [poll EXCEPT ![p] = r] /\ r.token = t /\ r.pc = "answered"
      /\ r.reply # "none" /\ answered' \in [Tokens -> SUBSET Final] /\ answered'[t] = {status}
      /\ \A u \in Tokens : u # t => answered'[u] = answered[u]
  BY <1>2, AnswerTyped DEF Ends
<1>4. /\ hosted' \in [Tokens -> Session \cup {NULL}] /\ hosted'[t] # NULL /\ hosted'[t].done = status
      /\ \A u \in Tokens : u # t => hosted'[u] = hosted[u]
  BY <1>1, <1>2, SessionsTyped DEF Ends
<1> HIDE DEF r
<1>5. status # NULL
  BY NullIsNone
<1>6. Moves(p, t, r)
  BY <1>1, <1>2, <1>3, <1>4, <1>5 DEF Moves
<1> QED
  BY <1>2, <1>3, <1>6, ServerMoves

LEMMA Locks ==
  ASSUME IInv, NEW p \in Polls, Lock(p)
  PROVE  IInv'
<1> DEFINE t == poll[p].token
<1>1. /\ poll[p] \in Poll /\ poll \in [Polls -> Poll] /\ poll[p].pc = "sent" /\ t \in Tokens
      /\ hosted \in [Tokens -> Session \cup {NULL}] /\ hosted[t] \in Session /\ hosted[t] # NULL
      /\ answered \in [Tokens -> SUBSET Final] /\ link \in [Tokens -> Link]
      /\ broken \subseteq Tokens /\ hosted[t].mu = NULL
      /\ UNCHANGED <<link, broken, phase, effect>>
  BY DEF IInv, Typed, Named, Lock, Free
<1>2. \A q \in Polls : q # p /\ AtWork(q) => poll[q].token # t
  BY <1>1, NullIsNone DEF IInv, Locked
<1>3. link[t].exchanged /\ t \notin broken => hosted[t].done # NULL
  <2>1. \A q \in Polls : Has(q) => q # p /\ AtWork(q)
    BY <1>1 DEF Has, AtWork
  <2> QED
    BY <1>1, <1>2, <2>1 DEF IInv, Spent
<1>4. hosted[t].done \in Final \cup {NULL}
  BY <1>1 DEF Session
<1>5. CASE hosted[t].done # NULL /\ Answers(p, hosted[t].done) /\ UNCHANGED hosted
  <2> DEFINE r == [poll[p] EXCEPT !.pc = "answered", !.reply = hosted[t].done]
  <2>1. /\ r \in Poll /\ poll' = [poll EXCEPT ![p] = r] /\ r.token = t /\ r.pc = "answered"
        /\ r.reply # "none" /\ answered' \in [Tokens -> SUBSET Final]
        /\ answered'[t] = answered[t] \cup {hosted[t].done}
        /\ \A u \in Tokens : u # t => answered'[u] = answered[u]
    BY <1>1, <1>4, <1>5, AnswerTyped
  <2>2. answered'[t] \subseteq {hosted[t].done}
    BY <1>1, <1>5, <2>1 DEF IInv, Once
  <2> HIDE DEF r
  <2>3. Moves(p, t, r)
    BY <1>1, <1>2, <1>3, <1>4, <1>5, <2>1, <2>2 DEF Moves
  <2> QED
    BY <1>1, <2>1, <2>3, ServerMoves
<1>6. CASE /\ hosted[t].done = NULL /\ Answers(p, "expired")
           /\ hosted' = [hosted EXCEPT ![t].done = "expired"]
  <2> DEFINE r == [poll[p] EXCEPT !.pc = "answered", !.reply = "expired"]
             s == [hosted[t] EXCEPT !.done = "expired"]
  <2>1. /\ r \in Poll /\ poll' = [poll EXCEPT ![p] = r] /\ r.token = t /\ r.pc = "answered"
        /\ r.reply # "none" /\ answered' \in [Tokens -> SUBSET Final]
        /\ answered'[t] = answered[t] \cup {"expired"}
        /\ \A u \in Tokens : u # t => answered'[u] = answered[u]
    BY <1>1, <1>6, AnswerTyped DEF Final
  <2>2. answered[t] = {}
    BY <1>1, <1>6 DEF IInv, Once
  <2>3. s \in Session /\ s.done = "expired" /\ "expired" \in Final
    BY <1>1 DEF Session, Final
  <2>4. hosted' = [hosted EXCEPT ![t] = s]
    BY <1>6
  <2> HIDE DEF r, s
  <2>5. /\ hosted' \in [Tokens -> Session \cup {NULL}] /\ hosted'[t] = s /\ s # NULL
        /\ \A u \in Tokens : u # t => hosted'[u] = hosted[u]
    BY <1>1, <2>3, <2>4, NullIsNone
  <2>6. hosted'[t].done \in Final /\ answered'[t] \subseteq {hosted'[t].done} /\ hosted'[t].done # NULL
    BY <2>1, <2>2, <2>3, <2>5, NullIsNone
  <2>7. Moves(p, t, r)
    BY <1>1, <1>2, <2>1, <2>5, <2>6 DEF Moves
  <2> QED
    BY <1>1, <2>1, <2>7, ServerMoves
<1>7. CASE /\ hosted[t].done = NULL /\ Goes(p, "asking") /\ UNCHANGED answered
           /\ hosted' = [hosted EXCEPT ![t].mu = p]
  <2> DEFINE r == [poll[p] EXCEPT !.pc = "asking"]
             s == [hosted[t] EXCEPT !.mu = p]
  <2>1. r \in Poll /\ poll' = [poll EXCEPT ![p] = r] /\ r.token = t /\ r.pc = "asking"
    BY <1>1, <1>7 DEF Poll, Goes
  <2>2. s \in Session /\ s.done = NULL /\ s.mu = p
    BY <1>1, <1>7 DEF Session
  <2>3. hosted' = [hosted EXCEPT ![t] = s] /\ answered[t] = {}
    BY <1>1, <1>7 DEF IInv, Once
  <2> HIDE DEF r, s
  <2>4. /\ hosted' \in [Tokens -> Session \cup {NULL}] /\ hosted'[t] = s /\ s # NULL
        /\ \A u \in Tokens : u # t => hosted'[u] = hosted[u]
    BY <1>1, <2>2, <2>3, NullIsNone
  <2>5. ~(link[t].exchanged /\ t \notin broken)
    BY <1>3, <1>7
  <2>6. Moves(p, t, r)
    BY <1>1, <1>2, <1>7, <2>1, <2>2, <2>3, <2>4, <2>5 DEF Moves
  <2> QED
    BY <1>1, <2>1, <2>6, ServerMoves
<1> QED
  BY <1>5, <1>6, <1>7 DEF Lock

LEMMA Handles ==
  ASSUME IInv, NEW p \in Polls, AtWork(p), Handle(p)
  PROVE  IInv'
<1> DEFINE t == poll[p].token
<1>1. /\ link \in [Tokens -> Link] /\ broken \subseteq Tokens
      /\ {"expired", "exited", "completed"} \subseteq Final
  BY DEF IInv, Typed, Final
<1>2. t \in Tokens /\ link[t] \in Link /\ (link[t].exchanged /\ t \notin broken => Has(p))
  BY WhereItIs
<1>3. ASSUME NEW flag \in BOOLEAN, link' = [link EXCEPT ![t].exchanged = flag]
      PROVE  /\ link' \in [Tokens -> Link] /\ link'[t].state = link[t].state
             /\ \A u \in Tokens : u # t => link'[u] = link[u]
  <2> DEFINE l == [link[t] EXCEPT !.exchanged = flag]
  <2>1. l \in Link /\ l.state = link[t].state
    BY <1>2 DEF Link
  <2>2. link' = [link EXCEPT ![t] = l]
    BY <1>3
  <2> HIDE DEF l
  <2> QED
    BY <1>1, <1>2, <2>1, <2>2
<1>4. CASE UnknownSession(p)
  BY <1>4 DEF UnknownSession, AtWork
<1>5. CASE Pending(p)
  <2>1. PICK reply \in {"pending", "started"} : Answers(p, reply)
    BY <1>5 DEF Pending
  <2>2. /\ poll[p].pc = "asking" /\ hosted' = Unlocked(t)
        /\ UNCHANGED <<link, broken, phase, effect>>
    BY <1>5 DEF Pending
  <2> QED
    BY <1>1, <1>2, <2>1, <2>2, LeavesOpen DEF Has
<1>6. CASE InvalidLinkToken(p)
  BY <1>1, <1>6, EndsIt DEF InvalidLinkToken
<1>7. CASE AskFails(p)
  <2>1. /\ poll[p].pc = "asking" /\ hosted' = Unlocked(t) /\ Answers(p, "error")
        /\ UNCHANGED <<link, broken, phase, effect>>
    BY <1>7 DEF AskFails, FailsWith
  <2> QED
    BY <1>1, <1>2, <2>1, LeavesOpen DEF Has
<1>8. CASE Exited(p)
  BY <1>1, <1>8, EndsIt DEF Exited
<1>9. CASE Complete(p)
  <2>1. PICK pc \in {"exchanging", "relinking"} : Goes(p, pc)
    BY <1>9 DEF Complete
  <2>2. poll[p].pc = "asking" /\ UNCHANGED <<link, hosted, answered, broken, phase, effect>>
    BY <1>9 DEF Complete
  <2> QED
    BY <1>1, <1>2, <2>1, <2>2, GoesOn DEF Has
<1>10. CASE Exchange(p)
  <2>1. /\ link' = [link EXCEPT ![t].exchanged = TRUE] /\ Goes(p, "storing")
        /\ UNCHANGED <<hosted, answered, broken, phase, effect>>
    BY <1>10 DEF Exchange
  <2> QED
    BY <1>3, <2>1, GoesOn
<1>11. CASE ExchangeFails(p)
  <2>1. /\ hosted' = Unlocked(t) /\ Answers(p, "error") /\ broken' = broken \cup {t}
        /\ UNCHANGED <<phase, effect>>
    BY <1>11 DEF ExchangeFails, FailsWith
  <2>2. UNCHANGED link \/ \E flag \in BOOLEAN : link' = [link EXCEPT ![t].exchanged = flag]
    BY <1>11 DEF ExchangeFails
  <2>3. /\ link' \in [Tokens -> Link] /\ link'[t].state = link[t].state
        /\ \A u \in Tokens : u # t => link'[u] = link[u]
    BY <1>1, <1>3, <2>2
  <2> QED
    BY <1>1, <1>2, <2>1, <2>3, LeavesOpen
<1>12. CASE StoreItem(p)
  <2>1. Goes(p, "enriching") /\ UNCHANGED <<link, hosted, answered, broken, phase, effect>>
    BY <1>12 DEF StoreItem
  <2> QED
    BY <1>1, <2>1, GoesOn
<1>13. CASE Completed(p)
  BY <1>1, <1>13, EndsIt DEF Completed
<1>14. CASE CompletionFails(p)
  <2>1. /\ hosted' = Unlocked(t) /\ Answers(p, "error") /\ broken' = broken \cup {t}
        /\ UNCHANGED <<link, phase, effect>>
    BY <1>14 DEF CompletionFails, FailsWith
  <2> QED
    BY <1>1, <1>2, <2>1, LeavesOpen
<1> QED
  BY <1>4, <1>5, <1>6, <1>7, <1>8, <1>9, <1>10, <1>11, <1>12, <1>13, <1>14 DEF Handle

LEMMA NotKnown ==
  ASSUME IInv, NEW p \in Polls, UnknownSession(p)
  PROVE  IInv'
<1> DEFINE t == poll[p].token
           r == [poll[p] EXCEPT !.pc = "answered", !.reply = "unknown"]
<1>1. /\ poll \in [Polls -> Poll] /\ poll[p].pc = "sent" /\ t \in Tokens
      /\ answered \in [Tokens -> SUBSET Final]
      /\ UNCHANGED <<link, hosted, broken, phase, effect>>
  BY DEF IInv, Typed, Named, UnknownSession
<1>2. /\ r \in Poll /\ poll' = [poll EXCEPT ![p] = r] /\ r.token = t /\ r.pc = "answered"
      /\ r.reply # "none" /\ answered' \in [Tokens -> SUBSET Final] /\ answered'[t] = answered[t]
      /\ \A u \in Tokens : u # t => answered'[u] = answered[u]
  <2>1. poll[p] \in Poll /\ "unknown" \notin Final
    BY <1>1 DEF Final
  <2>2. r \in Poll /\ r.token = t /\ r.pc = "answered" /\ r.reply = "unknown"
    BY <2>1 DEF Poll
  <2>3. poll' = [poll EXCEPT ![p] = r] /\ answered' = [answered EXCEPT ![t] = answered[t]]
    BY <1>1, <2>1 DEF UnknownSession, Answers
  <2> HIDE DEF r
  <2> QED
    BY <1>1, <2>2, <2>3
<1> HIDE DEF r
<1>3. UNCHANGED answered
  BY <1>1, <1>2
<1>4. /\ poll' \in [Polls -> Poll] /\ poll'[p] = r
      /\ \A q \in Polls : q # p => poll'[q] = poll[q]
  BY <1>1, <1>2
<1>5. Typed' /\ Named'
  BY <1>1, <1>2, <1>3, <1>4 DEF IInv, Typed, Named, OfToken
<1>6. ~AtWork(p) /\ ~AtWork(p)'
  BY <1>1, <1>2, <1>4 DEF AtWork
<1> QED
  BY <1>1, <1>3, <1>4, <1>5, <1>6, Elsewhere DEF AtWork

LEMMA Restarts ==
  ASSUME IInv, Restart
  PROVE  IInv'
<1>1. /\ poll \in [Polls -> Poll] /\ hosted' = [t \in Tokens |-> NULL]
      /\ UNCHANGED <<link, answered, broken, phase, effect>>
  BY DEF IInv, Typed, Restart
<1>2. ASSUME NEW p \in Polls
      PROVE  /\ poll'[p] \in Poll /\ ~AtWork(p)'
             /\ poll'[p].pc # "none" => poll'[p].token \in Tokens
             /\ poll'[p].pc = "answered" => poll'[p].reply # "none"
  <2>1. poll[p] \in Poll
    BY <1>1
  <2>2. CASE AtServer(p)
    <3>1. poll'[p] = [poll[p] EXCEPT !.pc = "answered", !.reply = "error"]
      BY <2>2 DEF Restart
    <3>2. /\ poll'[p] \in Poll /\ poll'[p].pc = "answered" /\ poll'[p].reply = "error"
          /\ poll'[p].token = poll[p].token
      BY <2>1, <3>1 DEF Poll
    <3>3. poll[p].token \in Tokens
      BY <2>2 DEF AtServer, IInv, Named
    <3> QED
      BY <3>2, <3>3 DEF AtWork
  <2>3. CASE ~AtServer(p)
    <3>1. poll'[p] = poll[p]
      BY <2>3 DEF Restart
    <3> QED
      BY <2>1, <2>3, <3>1 DEF AtServer, AtWork, IInv, Named
  <2> QED
    BY <2>2, <2>3
<1>3. poll' \in [Polls -> Poll]
  BY <1>2 DEF Restart
<1>4. Typed' /\ Named'
  BY <1>1, <1>2, <1>3 DEF IInv, Typed, Named, OfToken
<1>5. Fresh' /\ Locked' /\ Once' /\ Spent'
  BY <1>1, <1>2 DEF IInv, Fresh, Locked, Once, Spent
<1> QED
  BY <1>4, <1>5 DEF IInv

-----------------------------------------------------------------------------
(* The theorems *)

LEMMA StepKeeps == IInv /\ [Next]_vars => IInv'
<1> SUFFICES ASSUME IInv, [Next]_vars
             PROVE  IInv'
  OBVIOUS
<1>1. ASSUME NEW p \in Polls, Tick(p) \/ Lock(p) \/ Handle(p) \/ Receive(p)
      PROVE  IInv'
  <2>1. CASE Handle(p) /\ ~AtWork(p)
    <3>1. UnknownSession(p)
      BY <2>1 DEF Handle, AtWork, Pending, InvalidLinkToken, AskFails, Exited, Complete, Exchange,
                  ExchangeFails, StoreItem, Completed, CompletionFails
    <3> QED
      BY <3>1, NotKnown
  <2> QED
    BY <1>1, <2>1, Ticks, Locks, Handles, Receives
<1>2. ASSUME NEW t \in Tokens, OpenPage(t) \/ EndPage(t) \/ PlaidExpires(t) \/ Expire(t)
      PROVE  IInv'
  BY <1>2, UserSteps
<1>3. ASSUME NEW t \in Tokens, NEW update \in BOOLEAN, Create(t, update)
      PROVE  IInv'
  BY <1>3, Created
<1>4. CASE Start \/ CancelDialog \/ Retry \/ CreateFails \/ Render
  BY <1>4, DialogSteps
<1>5. CASE Restart
  BY <1>5, Restarts
<1>6. CASE UNCHANGED vars
  BY <1>6 DEF vars, IInv, Typed, Named, OfToken, Fresh, Locked, AtWork, Once, Spent, Has
<1> QED
  BY <1>1, <1>2, <1>3, <1>4, <1>5, <1>6 DEF Next

(* Whatever the user does in the tabs of a session, however its polls        *)
(* overlap and whenever plaidsync restarts, one final status at most is      *)
(* answered for a token (hostedSession.done in hosted.go).                   *)
THEOREM StatusIsFinal == Spec => []OneFinalStatus
<1>1. IInv => OneFinalStatus
  <2> SUFFICES ASSUME IInv, NEW t \in Tokens
               PROVE  Cardinality(answered[t]) <= 1
    BY DEF OneFinalStatus
  <2>1. PICK s \in Final : answered[t] \subseteq {s}
    BY DEF IInv, Once
  <2>2. answered[t] = {} \/ answered[t] = {s}
    BY <2>1
  <2>3. Cardinality({}) = 0 /\ Cardinality({s}) = 1
    BY FS_EmptySet, FS_Singleton
  <2> QED
    BY <2>2, <2>3
<1> QED
  BY <1>1, InitKeeps, StepKeeps, PTL DEF Spec

(* A public token that Plaid has exchanged is not sent to it again, unless   *)
(* the completion that exchanged it, or an earlier one, has failed           *)
(* (handleHostedStatus holds the mutex of the session throughout).           *)
THEOREM TokensSentOnce == Spec => SentAgainOnlyAfterFailure
<1> DEFINE A == \A p \in Polls : Exchange(p) \/ ExchangeFails(p) =>
                  (link[poll[p].token].exchanged => poll[p].token \in broken)
<1>1. IInv => A
  <2> SUFFICES ASSUME IInv, NEW p \in Polls, poll[p].pc = "exchanging",
                      link[poll[p].token].exchanged, poll[p].token \notin broken
               PROVE  FALSE
    BY DEF Exchange, ExchangeFails
  <2>1. Has(p)
    <3>1. AtWork(p)
      BY DEF AtWork
    <3> QED
      BY <3>1, WhereItIs
  <2> QED
    BY <2>1 DEF Has
<1>2. IInv /\ [Next]_vars => [A]_vars
  BY <1>1
<1> QED
  BY <1>2, InitKeeps, StepKeeps, PTL DEF Spec, SentAgainOnlyAfterFailure
=============================================================================
