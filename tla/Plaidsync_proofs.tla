--------------------------- MODULE Plaidsync_proofs ---------------------------
(***************************************************************************)
(* Proofs about Plaidsync, for any items, workers, lists and answers of    *)
(* Plaid, and any number of starts: the pool is closed when nobody uses it *)
(* (PoolIsClosedLast), an item's live streams are one answer of Plaid      *)
(* (StreamsAreExact), and the transactions those of the pages up to its    *)
(* cursor (RowsAreExact).                                                  *)
(*                                                                         *)
(* run() waits for the runner, and Run for its goroutines (Joined).  That  *)
(* these leave no locked row behind rests on where a refresher holds one:  *)
(* between the statements of a transaction and its end (Locked).           *)
(*                                                                         *)
(* A refresh asks Plaid, and later computes from the tables what it will   *)
(* commit.  That this is still right when it commits (Written) rests on    *)
(* the row lock, and on what only ever grows: the accounts listed, and the *)
(* lists given (Grows).  A stream id is one item's (Apart), so the         *)
(* transactions of two items take nothing from each other.                 *)
(*                                                                         *)
(* A sync upserts what its page tells and marks what it drops; that the    *)
(* rows are then those of one page more (AppliedServes) rests on what a    *)
(* decoded page gives (PageGives), and on a transaction being one item's   *)
(* (OwnTransaction).                                                       *)
(***************************************************************************)
EXTENDS Plaidsync, FiniteSetTheorems, SequenceTheorems, TLAPS

USE DEF process, tables

Typed ==
  /\ DOMAIN job = Refreshers /\ \A r \in Refreshers : "pc" \in DOMAIN job[r]
  /\ DOMAIN holder = Items

(* A process that is not up to it has no runner, and a runner that has not  *)
(* begun, or has returned, no goroutine at work.                            *)
Joined ==
  /\ main \in {"down", "starting"} => runner = "none"
  /\ runner # "running" => job = Resting

(* A refresher has locked a row when its transaction is about to commit.    *)
Locked ==
  \A i \in Items : holder[i] # NULL => /\ holder[i] \in Refreshers
                                       /\ job[holder[i]].pc = "commit"

IInv == Typed /\ Joined /\ Locked

LEMMA RestingIs ==
  /\ DOMAIN Resting = Refreshers
  /\ \A r \in Refreshers : /\ "pc" \in DOMAIN Resting[r]
                           /\ Resting[r].pc \in {"idle", "done"}
BY DEF Resting, At

(* When all rest, no row is locked. *)
LEMMA RestLocksNothing ==
  ASSUME IInv, job = Resting
  PROVE  \A i \in Items : holder[i] = NULL
BY RestingIs DEF IInv, Locked

LEMMA InitKeeps == Init => IInv
<1> SUFFICES ASSUME Init
             PROVE  IInv
  OBVIOUS
<1>1. main = "down" /\ runner = "none" /\ holder = [i \in Items |-> NULL] /\ job = Resting
  BY DEF Init
<1> QED
  BY <1>1, RestingIs DEF IInv, Typed, Joined, Locked

-----------------------------------------------------------------------------
(* The steps of run(), and of the goroutine of the runner *)

LEMMA RunKeeps ==
  ASSUME IInv, Start \/ StartupFails \/ RunnerStarts \/ ServerFails \/ Signal \/ Drain
  PROVE  IInv'
<1>1. UNCHANGED <<job, holder>>
  BY DEF Start, StartupFails, RunnerStarts, ServerFails, Signal, Drain
<1>2. Joined'
  BY <1>1 DEF IInv, Joined, Resting, Refreshers, Start, StartupFails, RunnerStarts, ServerFails,
              Signal, Drain
<1> QED
  BY <1>1, <1>2 DEF IInv, Typed, Locked

LEMMA ExitKeeps ==
  ASSUME IInv, Exit
  PROVE  IInv'
BY DEF IInv, Typed, Joined, Locked, Exit, RunnerDone

LEMMA KillKeeps ==
  ASSUME IInv, Kill
  PROVE  IInv'
<1>1. runner' = "none" /\ main' = "down" /\ holder' = [i \in Items |-> NULL] /\ job' = Resting
  BY DEF Kill
<1> QED
  BY <1>1, RestingIs DEF IInv, Typed, Joined, Locked, Resting

LEMMA RunnerKeeps ==
  ASSUME IInv, Requeue \/ RunnerStops
  PROVE  IInv'
<1>1. CASE Requeue
  <2>1. /\ runner = "requeueing" /\ runner' \in {"running", "failed"}
        /\ job' \in {job, [job EXCEPT ![Sweep] = At("list")]}
        /\ runner' = "failed" => job' = job
        /\ UNCHANGED <<main, holder>>
    BY <1>1 DEF Requeue
  <2>2. job = Resting /\ \A i \in Items : holder[i] = NULL
    BY <2>1, RestLocksNothing DEF IInv, Joined
  <2>3. Typed'
    BY <2>1 DEF IInv, Typed, At
  <2>4. Joined'
    BY <2>1, <2>2 DEF IInv, Joined, Resting
  <2>5. Locked'
    BY <2>1, <2>2 DEF Locked
  <2> QED
    BY <2>3, <2>4, <2>5 DEF IInv
<1>2. CASE RunnerStops
  BY <1>2 DEF RunnerStops, IInv, Typed, Joined, Locked, Resting
<1> QED
  BY <1>1, <1>2

-----------------------------------------------------------------------------
(* The goroutines of the runner *)

AtWork(r) == job[r].pc \notin {"idle", "done"}

(* r goes on, with its row locked or not, and nothing else moves. *)
GoesOn(r) ==
  /\ UNCHANGED <<main, runner>>
  /\ DOMAIN job' = Refreshers /\ "pc" \in DOMAIN job'[r]
  /\ \A q \in Refreshers \ {r} : job'[q] = job[q]
  /\ DOMAIN holder' = Items
  /\ \/ job[r].pc # "commit" /\ UNCHANGED holder
     \/ Unlock(r)
     \/ job'[r].pc = "commit" /\ \A i \in Items : holder'[i] \in {holder[i], r}

LEMMA GoingOnKeeps ==
  ASSUME IInv, NEW r \in Refreshers, AtWork(r) \/ runner = "running", GoesOn(r)
  PROVE  IInv'
<1>1. runner = "running"
  BY RestingIs DEF IInv, Joined, AtWork
<1>2. Typed' /\ Joined'
  BY <1>1 DEF IInv, Typed, Joined, GoesOn
<1>3. Locked'
  <2>1. CASE job[r].pc # "commit" /\ UNCHANGED holder
    BY <2>1 DEF IInv, Locked, GoesOn
  <2>2. CASE Unlock(r)
    BY <2>2 DEF IInv, Locked, GoesOn, Unlock
  <2>3. CASE job'[r].pc = "commit" /\ \A i \in Items : holder'[i] \in {holder[i], r}
    BY <2>3 DEF IInv, Locked, GoesOn
  <2> QED
    BY <2>1, <2>2, <2>3 DEF GoesOn
<1> QED
  BY <1>2, <1>3 DEF IInv

LEMMA States ==
  ASSUME IInv, NEW r \in Refreshers
  PROVE  /\ \A pc : Becomes(r, pc) => /\ DOMAIN job' = Refreshers /\ "pc" \in DOMAIN job'[r]
                                      /\ job'[r].pc = pc
                                      /\ \A q \in Refreshers \ {r} : job'[q] = job[q]
         /\ Return(r) => /\ DOMAIN job' = Refreshers /\ "pc" \in DOMAIN job'[r]
                         /\ \A q \in Refreshers \ {r} : job'[q] = job[q]
BY DEF IInv, Typed, Becomes, Return, At

LEMMA RefreshKeeps ==
  ASSUME IInv, NEW r \in Refreshers, Refresh(r)
  PROVE  IInv'
<1>1. AtWork(r) /\ UNCHANGED <<main, runner>>
  BY DEF Refresh, ReadCredential, AskPlaid, Replace, Commit, StoreFails, Interrupted, RecordFailure,
         InTransaction, AtWork
<1> SUFFICES GoesOn(r)
  BY <1>1, GoingOnKeeps
<1>2. DOMAIN holder = Items /\ DOMAIN job = Refreshers /\ "pc" \in DOMAIN job[r]
  BY DEF IInv, Typed
<1>3. CASE ReadCredential(r)
  BY <1>1, <1>2, <1>3, States DEF ReadCredential, ReturnError, GoesOn
<1>4. CASE AskPlaid(r)
  <2>1. job[r].pc = "ask" /\ UNCHANGED holder
    BY <1>4 DEF AskPlaid
  <2>2. CASE Becomes(r, "fail")
    BY <1>1, <1>2, <2>1, <2>2, States DEF GoesOn
  <2>3. ASSUME NEW rows, job' = [job EXCEPT ![r].pc = "replace", ![r].rows = rows]
        PROVE  GoesOn(r)
    BY <1>1, <1>2, <2>1, <2>3 DEF GoesOn
  <2> QED
    BY <1>4, <2>2, <2>3 DEF AskPlaid
<1>5. CASE Replace(r)
  <2>1. holder' = [holder EXCEPT ![job[r].item] = r]
    BY <1>5 DEF Replace
  <2>2. PICK tx : job' = [job EXCEPT ![r].pc = "commit", ![r].tx = tx]
    BY <1>5 DEF Replace
  <2>3. job'[r].pc = "commit" /\ DOMAIN job' = Refreshers /\ "pc" \in DOMAIN job'[r]
    BY <1>2, <2>2
  <2>4. \A q \in Refreshers \ {r} : job'[q] = job[q]
    BY <1>2, <2>2
  <2> QED
    BY <1>1, <1>2, <2>1, <2>3, <2>4 DEF GoesOn
<1>6. CASE Commit(r) \/ StoreFails(r) \/ Interrupted(r)
  <2>1. Unlock(r) /\ (Return(r) \/ \E pc : Becomes(r, pc))
    BY <1>6 DEF Commit, StoreFails, Interrupted, ReturnError
  <2>2. DOMAIN holder' = Items
    BY <2>1 DEF Unlock
  <2> QED
    BY <1>1, <2>1, <2>2, States DEF GoesOn
<1>7. CASE RecordFailure(r)
  BY <1>1, <1>2, <1>7, States DEF RecordFailure, ReturnError, GoesOn
<1> QED
  BY <1>3, <1>4, <1>5, <1>6, <1>7 DEF Refresh

LEMMA SweepKeeps ==
  ASSUME IInv, ListDue \/ SweepNext
  PROVE  IInv'
<1>1. Sweep \in Refreshers
  BY DEF Refreshers
<1>2. AtWork(Sweep) /\ job[Sweep].pc # "commit" /\ UNCHANGED <<main, runner, holder>>
  BY DEF ListDue, SweepNext, AtWork
<1>3. \/ \E pc : job' = [job EXCEPT ![Sweep] = At(pc)]
      \/ job' = [job EXCEPT ![Sweep] = [At("read") EXCEPT !.item = Head(todo)]]
  BY DEF ListDue, SweepNext
<1>4. GoesOn(Sweep)
  BY <1>1, <1>2, <1>3 DEF IInv, Typed, GoesOn, At
<1> QED
  BY <1>1, <1>2, <1>4, GoingOnKeeps

LEMMA SyncKeeps ==
  ASSUME IInv, NEW w \in Workers, NEW i \in Triggered, Sync(w, i)
  PROVE  IInv'
<1>1. w \in Refreshers
  BY DEF Refreshers
<1>2. /\ runner = "running" /\ job[w].pc = "idle" /\ UNCHANGED <<main, runner, holder>>
      /\ job' = [job EXCEPT ![w] = [At("read") EXCEPT !.item = i]]
  BY DEF Sync
<1>3. GoesOn(w)
  BY <1>1, <1>2 DEF IInv, Typed, GoesOn, At
<1> QED
  BY <1>1, <1>2, <1>3, GoingOnKeeps

-----------------------------------------------------------------------------
(* The theorem *)

LEMMA StepKeeps == IInv /\ [Next]_vars => IInv'
<1> SUFFICES ASSUME IInv, [Next]_vars
             PROVE  IInv'
  OBVIOUS
<1>1. CASE Process
  BY <1>1, RunKeeps, ExitKeeps, RunnerKeeps DEF Process
<1>2. ASSUME NEW i \in Triggered, PlaidChanges(i) \/ RemoveItem(i)
      PROVE  IInv'
  <2>1. UNCHANGED <<main, runner, job, holder>>
    BY <1>2 DEF PlaidChanges, RemoveItem
  <2> QED
    BY <2>1 DEF IInv, Typed, Joined, Locked, Resting
<1>3. CASE UNCHANGED vars
  BY <1>3 DEF vars, IInv, Typed, Joined, Locked, Resting
<1> QED
  BY <1>1, <1>2, <1>3, RunKeeps, KillKeeps, SweepKeeps, RefreshKeeps, SyncKeeps DEF Next

(* When run() has returned, and with it closed the pool, no refresher is at  *)
(* work or can claim a job, and none has left a row locked: run() waits for  *)
(* the runner, and Run for its goroutines (runnerDone, Runner.Run).          *)
THEOREM PoolIsClosedLast == Spec => []PoolClosedLast
<1>1. IInv => PoolClosedLast
  BY RestLocksNothing DEF IInv, Joined, PoolClosedLast
<1> QED
  BY <1>1, InitKeeps, StepKeeps, PTL DEF Spec

-----------------------------------------------------------------------------
(* The decoders *)

LEMMA CentsAreNearest ==
  ASSUME NEW n \in Int \cup {NULL}
  PROVE  IsCent(Cents(n), n)
<1>1. CASE n = NULL
  BY <1>1 DEF Cents, IsCent
<1>2. CASE n # NULL
  <2> DEFINE Rounded(m) == ((2 * m + 10000) \div 20000) * 10000
  <2>1. \A m \in Nat : LET q == (2 * m + 10000) \div 20000
                       IN  /\ q \in Nat
                           /\ 20000 * q <= 2 * m + 10000 /\ 2 * m + 10000 < 20000 * q + 20000
    OBVIOUS
  <2>2. \A m \in Nat : /\ Rounded(m) \in Nat /\ Rounded(m) % 10000 = 0 /\ (-Rounded(m)) % 10000 = 0
                       /\ 2 * Rounded(m) - 2 * m <= 10000 /\ 2 * m - 2 * Rounded(m) < 10000
    BY <2>1
  <2>3. n \in Int /\ Cents(n) = IF n < 0 THEN -Rounded(-n) ELSE Rounded(n)
    BY <1>2 DEF Cents, Cent
  <2> HIDE DEF Rounded
  <2>4. CASE n < 0
    <3> DEFINE m == -n
               R == Rounded(m)
    <3>1. m \in Nat /\ n = -m /\ Cents(n) = -R
      BY <2>3, <2>4
    <3>2. /\ R \in Nat /\ (-R) % 10000 = 0
          /\ 2 * R - 2 * m <= 10000 /\ 2 * m - 2 * R < 10000
      BY <2>2, <3>1
    <3> HIDE DEF m, R
    <3>3. 2 * Abs((-R) - (-m)) <= 10000 /\ (2 * Abs((-R) - (-m)) = 10000 => Abs(-R) > Abs(-m))
      BY <3>1, <3>2 DEF Abs
    <3> QED
      BY <1>2, <3>1, <3>2, <3>3 DEF IsCent, Cent
  <2>5. CASE n >= 0
    <3> DEFINE R == Rounded(n)
    <3>1. n \in Nat /\ Cents(n) = R
      BY <2>3, <2>5
    <3>2. /\ R \in Nat /\ R % 10000 = 0
          /\ 2 * R - 2 * n <= 10000 /\ 2 * n - 2 * R < 10000
      BY <2>2, <3>1
    <3> HIDE DEF R
    <3>3. 2 * Abs(R - n) <= 10000 /\ (2 * Abs(R - n) = 10000 => Abs(R) > Abs(n))
      BY <3>1, <3>2 DEF Abs
    <3> QED
      BY <1>2, <3>1, <3>2, <3>3 DEF IsCent, Cent
  <2> QED
    BY <2>3, <2>4, <2>5
<1> QED
  BY <1>1, <1>2

Amounts(o) == \A f \in {"average_amount.amount", "last_amount.amount"} :
                Field(o, f) \in Int \cup {NULL, BAD}

(* A stream that is decoded shows its object, *)
LEMMA StreamShows ==
  ASSUME NEW o, NEW direction, NEW s \in DecodeRecurringStream(o, direction), Amounts(o)
  PROVE  Shows(s, o, direction) /\ {"stream_id", "account_id"} \subseteq DOMAIN o
<1>1. /\ Readable(o, FieldsOf(StreamFields)) /\ {"stream_id", "account_id"} \subseteq DOMAIN o
      /\ s = [raw |-> o, direction |-> direction,
              row |-> [Row(o, StreamFields) EXCEPT
                         !.frequency = Unknown(@), !.status = Unknown(@),
                         !.is_active = IF @ = NULL THEN FALSE ELSE @,
                         !.transaction_ids = IF @ = NULL THEN <<>> ELSE @,
                         !.average_amount = Cents(@), !.last_amount = Cents(@)]]
  BY DEF DecodeRecurringStream, Given
<1>2. /\ {"stream_id", "account_id", "average_amount", "last_amount"} \subseteq DOMAIN StreamFields
      /\ StreamFields["stream_id"] = "stream_id" /\ StreamFields["account_id"] = "account_id"
      /\ StreamFields["average_amount"] = "average_amount.amount"
      /\ StreamFields["last_amount"] = "last_amount.amount"
  BY DEF StreamFields
<1>3. /\ Field(o, "average_amount.amount") # BAD /\ Field(o, "last_amount.amount") # BAD
  BY <1>1, <1>2 DEF Readable, FieldsOf
<1>4. Field(o, "stream_id") = o["stream_id"] /\ Field(o, "account_id") = o["account_id"]
  BY <1>1 DEF Field
<1>5. /\ s.row.stream_id = o["stream_id"] /\ s.row.account_id = o["account_id"]
      /\ s.row.average_amount = Cents(Field(o, "average_amount.amount"))
      /\ s.row.last_amount = Cents(Field(o, "last_amount.amount"))
  BY <1>1, <1>2, <1>4 DEF Row
<1>6. /\ Field(o, "average_amount.amount") \in Int \cup {NULL}
      /\ Field(o, "last_amount.amount") \in Int \cup {NULL}
  BY <1>3 DEF Amounts
<1> QED
  BY <1>1, <1>5, <1>6, CentsAreNearest DEF Shows

(* and a list that is decoded all of its objects. *)
LEMMA AllDecoded ==
  ASSUME NEW direction, NEW raws, IsSequence(raws), NEW rows \in DecodeStreams(raws, direction)
  PROVE  /\ rows \in Seq(Range(rows)) /\ Len(rows) = Len(raws)
         /\ \A n \in 1..Len(raws) : rows[n] \in DecodeRecurringStream(raws[n], direction)
<1>1. Len(raws) \in Nat /\ DOMAIN raws = 1..Len(raws)
  BY DEF IsSequence
<1>2. /\ \A n \in DOMAIN raws : DecodeRecurringStream(raws[n], direction) # {}
      /\ rows = [n \in DOMAIN raws |-> CHOOSE row \in DecodeRecurringStream(raws[n], direction) : TRUE]
  BY DEF DecodeStreams, DecodeAll
<1>3. \A n \in 1..Len(raws) : rows[n] \in DecodeRecurringStream(raws[n], direction)
  BY <1>1, <1>2
<1>4. DOMAIN rows = 1..Len(raws) /\ rows \in [1..Len(raws) -> Range(rows)]
  BY <1>1, <1>2 DEF Range
<1>5. rows \in Seq(Range(rows)) /\ Len(rows) = Len(raws)
  BY <1>1, <1>4
<1> QED
  BY <1>3, <1>5

LEMMA RowsShow ==
  ASSUME NEW i \in Items, NEW v \in DOMAIN Lists[i], NEW rows \in Answers[i][v]
  PROVE  /\ Len(rows) \in Nat /\ DOMAIN rows = 1..Len(rows)
         /\ \A n \in DOMAIN rows : \E x \in Elements(Lists[i][v]) : Shows(rows[n], x[1], x[2])
         /\ \A x \in Elements(Lists[i][v]) : /\ {"stream_id", "account_id"} \subseteq DOMAIN x[1]
                                             /\ \E n \in DOMAIN rows : Shows(rows[n], x[1], x[2])
<1> DEFINE body == Lists[i][v]
           ins == Member(body, "inflow_streams")
           outs == Member(body, "outflow_streams")
<1>1. IsSequence(ins) /\ IsSequence(outs)
  BY PlaidsyncAssumption
<1>2. \A o \in Range(ins) \cup Range(outs) : Amounts(o)
  <2>1. \A x \in Listed(i) : Amounts(x[1])
    BY PlaidsyncAssumption DEF Amounts
  <2>2. Elements(body) \subseteq Listed(i)
    BY DEF Listed
  <2>3. \A o \in Range(ins) : <<o, "inflow">> \in Elements(body)
    BY DEF Elements
  <2>4. \A o \in Range(outs) : <<o, "outflow">> \in Elements(body)
    BY DEF Elements
  <2> QED
    BY <2>1, <2>2, <2>3, <2>4
<1>3. rows \in DecodeRecurringGet(body)
  BY DEF Answers, GetRecurringTransactions, Result, Body
<1>4. PICK ups \in DecodeStreams(ins, "inflow"), downs \in DecodeStreams(outs, "outflow") :
         rows = ups \o downs
  BY <1>3 DEF DecodeRecurringGet
<1> HIDE DEF body, ins, outs
<1>5. /\ ups \in Seq(Range(ups)) /\ Len(ups) = Len(ins)
      /\ \A n \in 1..Len(ins) : ups[n] \in DecodeRecurringStream(ins[n], "inflow")
  BY <1>1, <1>4, AllDecoded
<1>6. /\ downs \in Seq(Range(downs)) /\ Len(downs) = Len(outs)
      /\ \A n \in 1..Len(outs) : downs[n] \in DecodeRecurringStream(outs[n], "outflow")
  BY <1>1, <1>4, AllDecoded
<1>7. /\ Len(ins) \in Nat /\ DOMAIN ins = 1..Len(ins)
      /\ Len(outs) \in Nat /\ DOMAIN outs = 1..Len(outs)
  BY <1>1 DEF IsSequence
<1>8. /\ Len(rows) = Len(ins) + Len(outs) /\ DOMAIN rows = 1..Len(rows)
      /\ \A n \in 1..Len(ins) : rows[n] = ups[n]
      /\ \A n \in 1..Len(outs) : rows[Len(ins) + n] = downs[n]
  <2> DEFINE S == Range(ups) \cup Range(downs)
  <2>1. ups \in Seq(S) /\ downs \in Seq(S)
    BY <1>5, <1>6
  <2> HIDE DEF S
  <2> QED
    <3>1. /\ rows \in Seq(S) /\ Len(rows) = Len(ups) + Len(downs)
          /\ \A k \in 1..(Len(ups) + Len(downs)) :
               rows[k] = IF k <= Len(ups) THEN ups[k] ELSE downs[k - Len(ups)]
      BY <1>4, <2>1, ConcatProperties
    <3>2. DOMAIN rows = 1..Len(rows)
      BY <3>1
    <3>3. \A n \in 1..Len(ins) : rows[n] = ups[n]
      BY <1>5, <1>6, <1>7, <3>1
    <3>4. \A n \in 1..Len(outs) : rows[Len(ins) + n] = downs[n]
      BY <1>5, <1>6, <1>7, <3>1
    <3> QED
      BY <1>5, <1>6, <3>1, <3>2, <3>3, <3>4
<1>9. \A n \in 1..Len(ins) : /\ ins[n] \in Range(ins) /\ Shows(rows[n], ins[n], "inflow")
                             /\ {"stream_id", "account_id"} \subseteq DOMAIN ins[n]
  BY <1>2, <1>5, <1>7, <1>8, StreamShows DEF Range
<1>10. \A n \in 1..Len(outs) : /\ outs[n] \in Range(outs)
                               /\ Shows(rows[Len(ins) + n], outs[n], "outflow")
                               /\ {"stream_id", "account_id"} \subseteq DOMAIN outs[n]
  BY <1>2, <1>6, <1>7, <1>8, StreamShows DEF Range
<1>11. Elements(body) = Range(ins) \X {"inflow"} \cup Range(outs) \X {"outflow"}
  BY DEF Elements, body, ins, outs
<1>12. ASSUME NEW n \in DOMAIN rows
       PROVE  \E x \in Elements(body) : Shows(rows[n], x[1], x[2])
  <2>1. CASE n \in 1..Len(ins)
    <3>1. <<ins[n], "inflow">> \in Elements(body)
      BY <1>9, <1>11, <2>1
    <3> QED
      BY <1>9, <2>1, <3>1
  <2>2. CASE n \notin 1..Len(ins)
    <3>1. n - Len(ins) \in 1..Len(outs) /\ Len(ins) + (n - Len(ins)) = n
      BY <1>7, <1>8, <2>2
    <3>2. <<outs[n - Len(ins)], "outflow">> \in Elements(body)
      BY <1>10, <1>11, <3>1
    <3> QED
      BY <1>10, <3>1, <3>2
  <2> QED
    BY <2>1, <2>2
<1>13. ASSUME NEW x \in Elements(body)
       PROVE  /\ {"stream_id", "account_id"} \subseteq DOMAIN x[1]
              /\ \E n \in DOMAIN rows : Shows(rows[n], x[1], x[2])
  <2>1. CASE x \in Range(ins) \X {"inflow"}
    <3>1. PICK n \in 1..Len(ins) : x[1] = ins[n] /\ x[2] = "inflow"
      BY <1>7, <2>1 DEF Range
    <3> QED
      BY <1>7, <1>8, <1>9, <3>1
  <2>2. CASE x \in Range(outs) \X {"outflow"}
    <3>1. PICK n \in 1..Len(outs) : x[1] = outs[n] /\ x[2] = "outflow"
      BY <1>7, <2>2 DEF Range
    <3>2. Len(ins) + n \in DOMAIN rows
      BY <1>7, <1>8
    <3> QED
      BY <1>10, <3>1, <3>2
  <2> QED
    BY <1>11, <2>1, <2>2
<1> QED
  BY <1>7, <1>8, <1>12, <1>13 DEF body

LEMMA NatMax ==
  ASSUME NEW b \in Nat, NEW S \in SUBSET (1..b), S # {}
  PROVE  \E n \in S : \A m \in S : m <= n
<1> DEFINE R == {ss \in Nat \X Nat : ss[1] < ss[2]}
           T == {b - n : n \in S}
<1>1. IsWellFoundedOn(R, Nat)
  BY NatLessThanWellFounded DEF OpToRel
<1>2. \A n \in S : n \in Nat /\ b - n \in Nat /\ b - n \in T
  OBVIOUS
<1>3. T \subseteq Nat /\ T # {}
  BY <1>2
<1>4. PICK x \in T : \A y \in T : <<y, x>> \notin R
  <2> HIDE DEF R, T
  <2> QED
    BY <1>1, <1>3, WFMin
<1>5. PICK n \in S : x = b - n
  OBVIOUS
<1>6. ASSUME NEW m \in S
      PROVE  m <= n
  <2>1. b - m \in Nat /\ b - n \in Nat /\ <<b - m, b - n>> \notin R
    BY <1>2, <1>4, <1>5
  <2>2. ~(b - m < b - n)
    BY <2>1
  <2> QED
    BY <1>2, <2>2
<1> QED
  BY <1>6

(* No answer that is refused, torn or malformed decodes. *)
LEMMA FaultsDecodeToNothing == NoListing = {} /\ NoStreams = {} /\ NoPage = {}
<1>1. ASSUME NEW answer \in Faults
      PROVE  GetAccounts(answer) = {}
  <2>1. CASE answer.kind = "body"
    <3> DEFINE raws == Member(answer.body, "accounts")
    <3>1. PICK o \in Range(raws) : Garbled(o, AccountFields, {"account_id", "name", "type"})
      BY <2>1, PlaidsyncAssumption
    <3>2. DecodeAccount(o) = {}
      BY <3>1 DEF DecodeAccount, Garbled, Readable
    <3>3. \E n \in DOMAIN raws : DecodeAccount(raws[n]) = {}
      BY <3>2 DEF Range
    <3> QED
      BY <2>1, <3>3 DEF GetAccounts, Result, DecodeAccountsGet, DecodeAll
  <2>2. CASE answer.kind # "body"
    BY <2>2 DEF GetAccounts, Result
  <2> QED
    BY <2>1, <2>2
<1>2. ASSUME NEW answer \in Faults
      PROVE  GetRecurringTransactions(answer) = {}
  <2>1. CASE answer.kind = "body"
    <3> DEFINE body == answer.body
    <3>1. PICK x \in Elements(body) : Garbled(x[1], StreamFields, {"stream_id", "account_id"})
      BY <2>1, PlaidsyncAssumption
    <3>2. \A direction : DecodeRecurringStream(x[1], direction) = {}
      BY <3>1 DEF DecodeRecurringStream, Garbled, Readable
    <3>3. x[1] \in Range(Member(body, "inflow_streams")) \cup Range(Member(body, "outflow_streams"))
      BY DEF Elements
    <3>4. ASSUME NEW raws, x[1] \in Range(raws), NEW direction
          PROVE  DecodeStreams(raws, direction) = {}
      <4>1. \E n \in DOMAIN raws : DecodeRecurringStream(raws[n], direction) = {}
        BY <3>2, <3>4 DEF Range
      <4> QED
        BY <4>1 DEF DecodeStreams, DecodeAll
    <3>5. DecodeRecurringGet(body) = {}
      BY <3>3, <3>4 DEF DecodeRecurringGet
    <3> QED
      BY <2>1, <3>5 DEF GetRecurringTransactions, Result
  <2>2. CASE answer.kind # "body"
    BY <2>2 DEF GetRecurringTransactions, Result
  <2> QED
    BY <2>1, <2>2
<1>3. ASSUME NEW answer \in Faults
      PROVE  SyncTransactions(answer) = {}
  <2>1. CASE answer.kind = "body"
    <3> DEFINE raws == Member(answer.body, "added")
    <3>1. PICK o \in Range(raws) :
            Garbled(o, TransactionFields, {"transaction_id", "account_id", "name"})
      BY <2>1, PlaidsyncAssumption
    <3>2. DecodeTransaction(o) = {}
      BY <3>1 DEF DecodeTransaction, Garbled, Readable
    <3>3. \E n \in DOMAIN raws : DecodeTransaction(raws[n]) = {}
      BY <3>2 DEF Range
    <3>4. DecodeAll(DecodeTransaction, raws) = {}
      BY <3>3 DEF DecodeAll
    <3>5. DecodeSyncPage(answer.body) = {}
      BY <3>4 DEF DecodeSyncPage
    <3> QED
      BY <2>1, <3>5 DEF SyncTransactions, Result
  <2>2. CASE answer.kind # "body"
    BY <2>2 DEF SyncTransactions, Result
  <2> QED
    BY <2>1, <2>2
<1> QED
  BY <1>1, <1>2, <1>3 DEF NoListing, NoStreams, NoPage

(* Upserts keyed by a column: the last row of a key is stored. *)
IsKeyed(table, rows, at, key) ==
  /\ DOMAIN table = {rows[n].row[key] : n \in at}
  /\ \A id \in DOMAIN table :
       \E n \in at : /\ table[id] = rows[n] /\ rows[n].row[key] = id
                     /\ \A m \in at : rows[m].row[key] = id => m <= n

LEMMA KeyedIs ==
  ASSUME NEW rows, NEW b \in Nat, NEW at \in SUBSET (1..b), NEW key
  PROVE  IsKeyed(KeyedOver(rows, at, key), rows, at, key)
<1> DEFINE table == KeyedOver(rows, at, key)
<1>1. DOMAIN table = {rows[n].row[key] : n \in at}
  BY DEF KeyedOver
<1>2. ASSUME NEW id \in DOMAIN table
      PROVE  \E n \in at : /\ table[id] = rows[n] /\ rows[n].row[key] = id
                           /\ \A m \in at : rows[m].row[key] = id => m <= n
  <2> DEFINE with == {n \in at : rows[n].row[key] = id}
             Lasts(n) == /\ n \in at /\ rows[n].row[key] = id
                         /\ \A m \in at : rows[m].row[key] = id => m <= n
  <2>1. with # {}
    BY <1>1, <1>2
  <2>2. PICK n \in with : \A m \in with : m <= n
    BY <2>1, NatMax
  <2>3. Lasts(n)
    BY <2>2
  <2>4. table[id] = rows[CHOOSE k \in at : /\ rows[k].row[key] = id
                                          /\ \A m \in at : rows[m].row[key] = id => m <= k]
    BY <1>1, <1>2 DEF KeyedOver
  <2> QED
    BY <2>3, <2>4
<1> QED
  BY <1>1, <1>2 DEF IsKeyed

(* The accounts of a listing that is decoded are those in it. *)
LEMMA ListingIs ==
  ASSUME NEW i \in Items, NEW n \in DOMAIN Feed[i], NEW accts \in Listings[i][n]
  PROVE  DOMAIN Keyed(accts, "account_id")
           = {Field(o, "account_id") : o \in Range(Member(Feed[i][n].accounts, "accounts"))}
<1> DEFINE raws == Member(Feed[i][n].accounts, "accounts")
<1>1. IsSequence(raws)
  BY PlaidsyncAssumption
<1>2. accts \in DecodeAll(DecodeAccount, raws)
  BY DEF Listings, GetAccounts, Result, Body, DecodeAccountsGet
<1>3. /\ \A k \in DOMAIN raws : DecodeAccount(raws[k]) # {}
      /\ accts = [k \in DOMAIN raws |-> CHOOSE row \in DecodeAccount(raws[k]) : TRUE]
  BY <1>2 DEF DecodeAll
<1>4. \A k \in DOMAIN raws : accts[k] \in DecodeAccount(raws[k])
  BY <1>3
<1>5. "account_id" \in DOMAIN AccountFields /\ AccountFields["account_id"] = "account_id"
  BY DEF AccountFields
<1>6. \A k \in DOMAIN raws : accts[k].row["account_id"] = Field(raws[k], "account_id")
  <2> SUFFICES ASSUME NEW k \in DOMAIN raws
               PROVE  accts[k].row["account_id"] = Field(raws[k], "account_id")
    OBVIOUS
  <2>1. accts[k] = [raw |-> raws[k], row |-> Row(raws[k], AccountFields)]
    BY <1>4 DEF DecodeAccount
  <2>2. Row(raws[k], AccountFields)["account_id"] = Field(raws[k], "account_id")
    BY <1>5 DEF Row
  <2> QED
    BY <2>1, <2>2
<1>7. DOMAIN accts = DOMAIN raws
  BY <1>3
<1>8. DOMAIN Keyed(accts, "account_id") = {accts[k].row["account_id"] : k \in DOMAIN raws}
  BY <1>7 DEF Keyed, KeyedOver
<1> QED
  BY <1>6, <1>8 DEF Range

-----------------------------------------------------------------------------
(* What a refresh writes *)

(* An item has reported the stream id, of one of the accounts known. *)
Reported(i, id, known) ==
  \E x \in Listed(i) : /\ {"stream_id", "account_id"} \subseteq DOMAIN x[1]
                       /\ x[1]["stream_id"] = id /\ x[1]["account_id"] \in known

(* The rows Replace upserts, and the other live ones of the item. *)
NewRows(rows, accts) ==
  KeyedOver(rows, {n \in DOMAIN rows : rows[n].row.account_id \in accts}, "stream_id")
StaleRows(i, rows, table) ==
  {id \in DOMAIN table : table[id].item = i /\ table[id].live}
    \ {rows[n].row.stream_id : n \in DOMAIN rows}
Transaction(i, rows, accts, table) ==
  Upserted([id \in StaleRows(i, rows, table) |-> [table[id] EXCEPT !.live = FALSE]],
           [id \in DOMAIN NewRows(rows, accts) |->
              [item |-> i, live |-> Revived(NewRows(rows, accts)[id]),
               content |-> NewRows(rows, accts)[id]]])

(* Of the item's accounts, those known are the ones it has listed; and the  *)
(* streams of the item that are stored are of such.                         *)
KnowsOwn(i, accts, known) ==
  \A x \in Listed(i) : "account_id" \in DOMAIN x[1] =>
    (x[1]["account_id"] \in accts <=> x[1]["account_id"] \in known)
Files(i, table, known) ==
  \A id \in DOMAIN table : /\ DOMAIN table[id] = {"item", "live", "content"}
                           /\ table[id].item = i => Reported(i, id, known)

LEMMA NewRowsAre ==
  ASSUME NEW rows, NEW accts, Len(rows) \in Nat, DOMAIN rows = 1..Len(rows)
  PROVE  IsKeyed(NewRows(rows, accts), rows,
                 {n \in DOMAIN rows : rows[n].row.account_id \in accts}, "stream_id")
<1> DEFINE at == {n \in DOMAIN rows : rows[n].row.account_id \in accts}
<1>1. at \in SUBSET (1..Len(rows))
  OBVIOUS
<1>2. NewRows(rows, accts) = KeyedOver(rows, at, "stream_id")
  BY DEF NewRows
<1> HIDE DEF at
<1>3. IsKeyed(KeyedOver(rows, at, "stream_id"), rows, at, "stream_id")
  BY <1>1, KeyedIs
<1> QED
  BY <1>2, <1>3 DEF at

(* The transaction of Replace makes the item's live streams those of the list, *)
(* and writes no other item's: a live row whose id is in the list, but not its *)
(* account among those known, cannot be, since a stream keeps its account.     *)
LEMMA ReplacedIsList ==
  ASSUME NEW i \in Items, NEW v \in DOMAIN Lists[i], NEW rows \in Answers[i][v],
         NEW known, NEW accts,
         KnowsOwn(i, accts, known), NEW table, Files(i, table, known),
         NEW tx, tx = Transaction(i, rows, accts, table)
  PROVE  /\ AreList(LiveIn(Upserted(table, tx), i), Lists[i][v], known)
         /\ \A id \in DOMAIN tx : /\ DOMAIN tx[id] = {"item", "live", "content"}
                                  /\ tx[id].item = i /\ tx[id].live \in BOOLEAN
                                  /\ Reported(i, id, known)
<1> DEFINE body == Lists[i][v]
           new == NewRows(rows, accts)
           stale == StaleRows(i, rows, table)
           at == {n \in DOMAIN rows : rows[n].row.account_id \in accts}
           after == Upserted(table, tx)
           shown == {x \in Elements(body) : x[1]["account_id"] \in known}
<1>1. /\ Len(rows) \in Nat /\ DOMAIN rows = 1..Len(rows)
      /\ \A n \in DOMAIN rows : \E x \in Elements(body) : Shows(rows[n], x[1], x[2])
      /\ \A x \in Elements(body) : /\ {"stream_id", "account_id"} \subseteq DOMAIN x[1]
                                   /\ \E n \in DOMAIN rows : Shows(rows[n], x[1], x[2])
  BY RowsShow
<1>2. /\ DOMAIN new = {rows[n].row["stream_id"] : n \in at}
      /\ \A id \in DOMAIN new : \E n \in at : new[id] = rows[n] /\ rows[n].row["stream_id"] = id
  <2>1. IsKeyed(NewRows(rows, accts), rows, at, "stream_id")
    BY <1>1, NewRowsAre
  <2> HIDE DEF at
  <2> QED
    BY <2>1 DEF IsKeyed
<1>3. Elements(body) \subseteq Listed(i)
  BY DEF Listed
<1>4. \A x \in Elements(body) : x[1]["account_id"] \in accts <=> x[1]["account_id"] \in known
  BY <1>1, <1>3 DEF KnowsOwn
<1>5. \A x, y \in Elements(body) : x[1]["stream_id"] = y[1]["stream_id"] => x = y
  <2>1. \A x, y \in Elements(body) : Same(x[1], y[1], "stream_id") => x = y
    BY PlaidsyncAssumption
  <2> QED
    BY <1>1, <2>1 DEF Same
<1>6a. tx = Upserted([id \in stale |-> [table[id] EXCEPT !.live = FALSE]],
                     [id \in DOMAIN new |->
                        [item |-> i, live |-> TRUE, content |-> new[id]]])
  BY DEF Transaction, Revived
<1> HIDE DEF body, new, stale
<1>6. /\ DOMAIN tx = stale \cup DOMAIN new
      /\ \A id \in DOMAIN new : tx[id] = [item |-> i, live |-> TRUE, content |-> new[id]]
      /\ \A id \in stale \ DOMAIN new : tx[id] = [table[id] EXCEPT !.live = FALSE]
  BY <1>6a DEF Upserted
<1>7. /\ DOMAIN after = DOMAIN table \cup DOMAIN tx
      /\ \A id \in DOMAIN tx : after[id] = tx[id]
      /\ \A id \in DOMAIN table \ DOMAIN tx : after[id] = table[id]
  BY DEF Upserted
<1> HIDE DEF after
(* A row that is stored shows an object of the list. *)
<1>8. ASSUME NEW id \in DOMAIN new
      PROVE  \E x \in shown : Shows(new[id], x[1], x[2]) /\ x[1]["stream_id"] = id
  <2>1. PICK n \in at : new[id] = rows[n] /\ rows[n].row["stream_id"] = id
    BY <1>2
  <2>2. PICK x \in Elements(body) : Shows(rows[n], x[1], x[2])
    BY <1>1
  <2>3. x[1]["account_id"] \in accts /\ x[1]["stream_id"] = id
    BY <2>1, <2>2 DEF Shows
  <2> QED
    BY <1>4, <2>1, <2>2, <2>3
(* Each object of a known account is stored. *)
<1>9. ASSUME NEW x \in shown
      PROVE  x[1]["stream_id"] \in DOMAIN new /\ Shows(new[x[1]["stream_id"]], x[1], x[2])
  <2>1. PICK n \in DOMAIN rows : Shows(rows[n], x[1], x[2])
    BY <1>1
  <2>2. n \in at /\ rows[n].row["stream_id"] = x[1]["stream_id"]
    BY <1>4, <2>1 DEF Shows
  <2>3. x[1]["stream_id"] \in DOMAIN new
    BY <1>2, <2>2
  <2>4. PICK y \in shown : Shows(new[x[1]["stream_id"]], y[1], y[2])
                           /\ y[1]["stream_id"] = x[1]["stream_id"]
    BY <1>8, <2>3
  <2> QED
    BY <1>5, <2>3, <2>4
(* No row is left live that the list has not. *)
<1>10. ASSUME NEW id \in DOMAIN table \ DOMAIN tx, table[id].item = i
       PROVE  ~table[id].live
  <2>1. SUFFICES ASSUME table[id].live PROVE FALSE
    OBVIOUS
  <2>2. PICK n \in DOMAIN rows : rows[n].row.stream_id = id
    <3>1. id \notin stale
      BY <1>6, <1>10
    <3> QED
      BY <1>10, <2>1, <3>1 DEF stale, StaleRows
  <2>3. PICK y \in Elements(body) : Shows(rows[n], y[1], y[2])
    BY <1>1
  <2>4. y[1]["stream_id"] = id /\ y \in Listed(i)
    BY <1>3, <2>2, <2>3 DEF Shows
  <2>5. PICK x \in Listed(i) : /\ {"stream_id", "account_id"} \subseteq DOMAIN x[1]
                               /\ x[1]["stream_id"] = id /\ x[1]["account_id"] \in known
    BY <1>10 DEF Files, Reported
  <2>6. {"stream_id", "account_id"} \subseteq DOMAIN y[1]
    BY <1>1
  <2>7. x[1]["account_id"] = y[1]["account_id"]
    <3>1. Same(x[1], y[1], "stream_id")
      BY <2>4, <2>5, <2>6 DEF Same
    <3>2. Field(x[1], "account_id") = Field(y[1], "account_id")
      BY <2>4, <3>1, PlaidsyncAssumption
    <3> QED
      BY <2>5, <2>6, <3>2 DEF Field
  <2>8. y \in shown
    BY <2>5, <2>7
  <2> QED
    BY <1>6, <1>9, <2>4, <2>8
<1>11. LiveIn(after, i) = {after[id] : id \in DOMAIN new}
  <2>1. \A id \in DOMAIN new : id \in DOMAIN after /\ after[id].item = i /\ after[id].live
    BY <1>6, <1>7
  <2>2. \A id \in DOMAIN after : after[id].item = i /\ after[id].live => id \in DOMAIN new
    <3> SUFFICES ASSUME NEW id \in DOMAIN after, after[id].item = i, after[id].live,
                        id \notin DOMAIN new
                 PROVE  FALSE
      OBVIOUS
    <3>1. CASE id \in stale
      <4>1. after[id] = [table[id] EXCEPT !.live = FALSE] /\ id \in DOMAIN table
        BY <1>6, <1>7, <3>1 DEF stale, StaleRows
      <4> QED
        BY <4>1
    <3>2. CASE id \notin stale
      BY <1>6, <1>7, <1>10, <3>2
    <3> QED
      BY <3>1, <3>2
  <2> QED
    BY <2>1, <2>2 DEF LiveIn
<1>12. AreList(LiveIn(after, i), body, known)
  <2>1. \A id \in DOMAIN new : after[id].content = new[id]
    BY <1>6, <1>7
  <2>2. \A x \in shown : \E s \in LiveIn(after, i) : Shows(s.content, x[1], x[2])
    BY <1>9, <1>11, <2>1
  <2>3. \A s \in LiveIn(after, i) : \E x \in shown : Shows(s.content, x[1], x[2])
    BY <1>8, <1>11, <2>1
  <2> QED
    BY <2>2, <2>3 DEF AreList
<1>13. ASSUME NEW id \in DOMAIN tx
       PROVE  /\ DOMAIN tx[id] = {"item", "live", "content"}
              /\ tx[id].item = i /\ tx[id].live \in BOOLEAN
              /\ Reported(i, id, known)
  <2>1. CASE id \in DOMAIN new
    <3>1. PICK x \in shown : x[1]["stream_id"] = id
      BY <1>8, <2>1
    <3>2. Reported(i, id, known)
      BY <1>1, <1>3, <3>1 DEF Reported
    <3>3. tx[id] = [item |-> i, live |-> TRUE, content |-> new[id]]
      BY <1>6, <2>1
    <3>4. DOMAIN tx[id] = {"item", "live", "content"} /\ tx[id].item = i /\ tx[id].live = TRUE
      BY <3>3
    <3> QED
      BY <3>2, <3>4
  <2>2. CASE id \notin DOMAIN new
    <3>1. id \in DOMAIN table /\ table[id].item = i /\ tx[id] = [table[id] EXCEPT !.live = FALSE]
      BY <1>6, <2>2 DEF stale, StaleRows
    <3>2. DOMAIN table[id] = {"item", "live", "content"} /\ Reported(i, id, known)
      BY <3>1 DEF Files
    <3>3. DOMAIN tx[id] = {"item", "live", "content"} /\ tx[id].item = i /\ tx[id].live = FALSE
      BY <3>1, <3>2
    <3> QED
      BY <3>2, <3>3
  <2> QED
    BY <2>1, <2>2
<1> QED
  BY <1>12, <1>13 DEF body, after

-----------------------------------------------------------------------------
(* The streams: the inductive invariant *)

(* What a listing that was synced has told, it still tells. *)
Shaped ==
  /\ item \in [Items -> [cred : BOOLEAN, pages : Nat, checked : BOOLEAN, refreshed : BOOLEAN]]
  /\ DOMAIN listed = Items
  /\ \A i \in Items : /\ item[i].pages <= Len(Feed[i]) /\ listed[i] \in 1..Len(Lists[i])
                      /\ \A k \in 1..item[i].pages : Listings[i][k] # {}

AccountsListed == DOMAIN accounts = UNION {KnownAfter(i, item[i].pages) : i \in Items}

(* The row of a stream belongs to the item that reported it. *)
IsStream(id, s, rows) ==
  /\ DOMAIN s = {"item", "live", "content"} /\ s.item \in Items /\ s.live \in BOOLEAN
  /\ Reported(s.item, id, KnownAfter(s.item, rows[s.item].pages))

(* Streams that are one of the first v lists, for the accounts of some page. *)
OneOf(live, i, v, n) ==
  \E a \in 1..v, b \in 1..n : AreList(live, Lists[i][a], KnownAfter(i, b))

(* What a refresher brings, and what its transaction would leave. *)
Answered(r) ==
  LET i == job[r].item
  IN  \E v \in 1..listed[i] : job[r].rows \in Answers[i][v]
Written(r) ==
  LET i == job[r].item
      tx == job[r].tx
  IN  /\ holder[i] = r
      /\ \A id \in DOMAIN tx : IsStream(id, tx[id], item) /\ tx[id].item = i
      /\ OneOf(LiveIn(Upserted(streams, tx), i), i, listed[i], item[i].pages)

Refreshing(pc) == pc \in {"read", "ask", "replace", "commit", "fail"}
Well(r) ==
  /\ DOMAIN job[r] = {"pc", "item", "rows", "tx"}
  /\ Refreshing(job[r].pc) => job[r].item \in Items /\ item[job[r].item].pages >= 1
  /\ job[r].pc = "replace" => Answered(r)
  /\ job[r].pc = "commit" => Written(r)

AllWell == \A r \in Refreshers : Well(r)
Tasked == todo \in Seq(Items) /\ \A n \in 1..Len(todo) : item[todo[n]].pages >= 1
Stored == \A id \in DOMAIN streams : IsStream(id, streams[id], item)

StreamsInv ==
  /\ IInv /\ Shaped /\ AccountsListed /\ AllWell /\ Tasked /\ Stored /\ StreamsAreOneAnswer

-----------------------------------------------------------------------------
(* More pages and lists make nothing of it false *)

LEMMA Answerable ==
  ASSUME NEW i \in Items
  PROVE  /\ DOMAIN Lists[i] = 1..Len(Lists[i]) /\ Len(Lists[i]) \in Nat /\ Len(Lists[i]) >= 1
         /\ DOMAIN Feed[i] = 1..Len(Feed[i]) /\ Len(Feed[i]) \in Nat /\ Len(Feed[i]) >= 1
<1>1. IsSequence(Feed[i]) /\ Feed[i] # <<>> /\ IsSequence(Lists[i]) /\ Lists[i] # <<>>
  BY PlaidsyncAssumption
<1> QED
  BY <1>1 DEF IsSequence

LEMMA KnownGrows ==
  ASSUME NEW i, NEW m \in Nat, NEW n \in Nat, m <= n
  PROVE  KnownAfter(i, m) \subseteq KnownAfter(i, n)
<1>1. 1..m \subseteq 1..n
  OBVIOUS
<1> QED
  BY <1>1 DEF KnownAfter

LEMMA ReportedGrows ==
  ASSUME NEW i, NEW id, NEW known, NEW more, known \subseteq more, Reported(i, id, known)
  PROVE  Reported(i, id, more)
BY DEF Reported

LEMMA OneGrows ==
  ASSUME NEW live, NEW i, NEW v \in Nat, NEW w \in Nat, NEW m \in Nat, NEW n \in Nat,
         v <= w, m <= n, OneOf(live, i, v, m)
  PROVE  OneOf(live, i, w, n)
<1>1. 1..v \subseteq 1..w /\ 1..m \subseteq 1..n
  OBVIOUS
<1> QED
  BY <1>1 DEF OneOf

Grows ==
  \A i \in Items : /\ item'[i].pages \in Nat /\ item[i].pages <= item'[i].pages
                   /\ listed'[i] \in Nat /\ listed[i] <= listed'[i]

LEMMA StreamGrows ==
  ASSUME Shaped, Grows, NEW id, NEW s, IsStream(id, s, item)
  PROVE  IsStream(id, s, item')
<1>1. s.item \in Items /\ item[s.item].pages \in Nat /\ item'[s.item].pages \in Nat
      /\ item[s.item].pages <= item'[s.item].pages
  BY DEF Shaped, Grows, IsStream
<1>2. KnownAfter(s.item, item[s.item].pages) \subseteq KnownAfter(s.item, item'[s.item].pages)
  BY <1>1, KnownGrows
<1>3. Reported(s.item, id, KnownAfter(s.item, item'[s.item].pages))
  BY <1>2, ReportedGrows DEF IsStream
<1> QED
  BY <1>3 DEF IsStream

LEMMA AnswerGrows ==
  ASSUME Shaped, Grows, NEW i \in Items, NEW live, OneOf(live, i, listed[i], item[i].pages)
  PROVE  OneOf(live, i, listed'[i], item'[i].pages)
<1>1. /\ listed[i] \in Nat /\ listed'[i] \in Nat /\ listed[i] <= listed'[i]
      /\ item[i].pages \in Nat /\ item'[i].pages \in Nat /\ item[i].pages <= item'[i].pages
  BY Answerable DEF Shaped, Grows
<1> QED
  BY <1>1, OneGrows

(* The rows of the streams stay as they are, *)
LEMMA StoredStay ==
  ASSUME Shaped, Stored, StreamsAreOneAnswer, Grows, UNCHANGED streams,
         \A i \in Items : item'[i].refreshed = item[i].refreshed
  PROVE  Stored' /\ StreamsAreOneAnswer'
<1>1. Stored'
  BY StreamGrows DEF Stored
<1>2. ASSUME NEW i \in Items
      PROVE  IF item'[i].refreshed THEN OneOf(Live(i)', i, listed'[i], item'[i].pages)
             ELSE Live(i)' = {}
  <2>1. Live(i)' = Live(i)
    BY DEF Live, LiveIn
  <2>2. IF item[i].refreshed THEN OneOf(Live(i), i, listed[i], item[i].pages) ELSE Live(i) = {}
    BY DEF StreamsAreOneAnswer, OneOf
  <2> QED
    BY <2>1, <2>2, AnswerGrows
<1> QED
  BY <1>1, <1>2 DEF StreamsAreOneAnswer, OneOf

(* and so does a refresher that does not move. *)
LEMMA WellStays ==
  ASSUME Shaped, Grows, UNCHANGED streams, NEW r \in Refreshers, Well(r), job'[r] = job[r],
         job[r].pc = "commit" => holder'[job[r].item] = holder[job[r].item]
  PROVE  Well(r)'
<1> DEFINE i == job[r].item
           tx == job[r].tx
<1>1. CASE ~Refreshing(job[r].pc)
  BY <1>1 DEF Well, Refreshing
<1>2. CASE Refreshing(job[r].pc)
  <2>1. /\ i \in Items /\ item[i].pages >= 1 /\ item[i].pages \in Nat /\ item'[i].pages \in Nat
        /\ item[i].pages <= item'[i].pages
        /\ listed[i] \in Nat /\ listed'[i] \in Nat /\ listed[i] <= listed'[i]
    BY <1>2, Answerable DEF Well, Shaped, Grows
  <2>2. item'[i].pages >= 1
    BY <2>1
  <2>3. ASSUME job[r].pc = "replace"
        PROVE  Answered(r)'
    <3>1. PICK v \in 1..listed[i] : job[r].rows \in Answers[i][v]
      BY <2>3 DEF Well, Answered
    <3>2. v \in 1..listed'[i]
      BY <2>1
    <3> QED
      BY <3>1, <3>2 DEF Answered
  <2>4. ASSUME job[r].pc = "commit"
        PROVE  Written(r)'
    <3>1. /\ holder[i] = r
          /\ \A id \in DOMAIN tx : IsStream(id, tx[id], item) /\ tx[id].item = i
          /\ OneOf(LiveIn(Upserted(streams, tx), i), i, listed[i], item[i].pages)
      BY <2>4 DEF Well, Written
    <3>2. \A id \in DOMAIN tx : IsStream(id, tx[id], item')
      BY <3>1, StreamGrows
    <3>3. OneOf(LiveIn(Upserted(streams, tx), i), i, listed'[i], item'[i].pages)
      BY <2>1, <3>1, AnswerGrows
    <3>4. holder'[i] = r
      BY <2>4, <3>1
    <3> QED
      BY <3>1, <3>2, <3>3, <3>4 DEF Written
  <2> QED
    BY <2>1, <2>2, <2>3, <2>4 DEF Well
<1> QED
  BY <1>1, <1>2

(* The refreshers other than r go on as they were. *)
Others(r) ==
  /\ \A q \in Refreshers \ {r} : job'[q] = job[q]
  /\ \A i \in Items : holder'[i] = holder[i] \/ holder[i] \in {r, NULL}

LEMMA OthersStay ==
  ASSUME StreamsInv, Grows, UNCHANGED streams, NEW r, Others(r)
  PROVE  \A q \in Refreshers \ {r} : Well(q)'
<1> SUFFICES ASSUME NEW q \in Refreshers \ {r}
             PROVE  Well(q)'
  OBVIOUS
<1>1. Well(q) /\ job'[q] = job[q] /\ q # NULL
  BY PlaidsyncAssumption DEF StreamsInv, AllWell, Others
<1>2. ASSUME job[q].pc = "commit"
      PROVE  holder'[job[q].item] = holder[job[q].item]
  BY <1>1, <1>2 DEF Well, Written, Refreshing, Others
<1> QED
  BY <1>1, <1>2, WellStays DEF StreamsInv

(* A refresher that brings no list and has no transaction open. *)
LEMMA WellOff ==
  ASSUME Shaped, Grows, NEW r, DOMAIN job'[r] = {"pc", "item", "rows", "tx"},
         job'[r].pc \notin {"replace", "commit"},
         Refreshing(job'[r].pc) => job'[r].item \in Items /\ item[job'[r].item].pages >= 1
  PROVE  Well(r)'
<1>1. \A i \in Items : item[i].pages >= 1 => item'[i].pages >= 1
  BY DEF Shaped, Grows
<1> QED
  BY <1>1 DEF Well

LEMMA Placed ==
  ASSUME NEW pc
  PROVE  At(pc).pc = pc /\ DOMAIN At(pc) = {"pc", "item", "rows", "tx"}
BY DEF At

(* The tables stay, but for the marks of when an item was asked about. *)
Stays ==
  /\ UNCHANGED <<listed, accounts, streams>>
  /\ item' \in [Items -> [cred : BOOLEAN, pages : Nat, checked : BOOLEAN, refreshed : BOOLEAN]]
  /\ \A i \in Items : item'[i].pages = item[i].pages /\ item'[i].refreshed = item[i].refreshed

LEMMA StaysGrows ==
  ASSUME Shaped, Stays
  PROVE  Grows
BY Answerable DEF Shaped, Stays, Grows

LEMMA TablesStay ==
  ASSUME StreamsInv, Stays
  PROVE  Shaped' /\ AccountsListed' /\ Stored' /\ StreamsAreOneAnswer'
<1>1. Shaped'
  BY DEF StreamsInv, Shaped, Stays
<1>2. AccountsListed'
  <2>1. UNION {KnownAfter(i, item[i].pages) : i \in Items}
          = UNION {KnownAfter(i, item'[i].pages) : i \in Items}
    BY DEF Stays
  <2> QED
    BY <2>1 DEF StreamsInv, AccountsListed, Stays
<1>3. Stored' /\ StreamsAreOneAnswer'
  BY StaysGrows, StoredStay DEF StreamsInv, Stays
<1> QED
  BY <1>1, <1>2, <1>3

LEMMA TasksStay ==
  ASSUME Shaped, Tasked, Grows, UNCHANGED todo
  PROVE  Tasked'
<1>1. \A n \in 1..Len(todo) : todo[n] \in Items
  BY DEF Tasked
<1> QED
  BY <1>1 DEF Shaped, Tasked, Grows

(* What one refresher does to itself and to the row it has locked. *)
LEMMA RefresherKeeps ==
  ASSUME StreamsInv, IInv', Stays, Tasked', NEW r \in Refreshers, Others(r), Well(r)'
  PROVE  StreamsInv'
<1>1. Grows /\ UNCHANGED streams
  BY StaysGrows DEF StreamsInv, Stays
<1>2. AllWell'
  BY <1>1, OthersStay DEF AllWell
<1> QED
  BY <1>2, TablesStay DEF StreamsInv

(* All refreshers keep what they have, or let it go. *)
LEMMA CalmKeeps ==
  ASSUME StreamsInv, IInv', Stays, Tasked',
         \A r \in Refreshers : job'[r] = job[r] \/ job'[r] \in {At(pc) : pc \in {"idle", "done", "list"}},
         UNCHANGED holder \/ \A r \in Refreshers : job'[r].pc # "commit"
  PROVE  StreamsInv'
<1>1. Grows /\ UNCHANGED streams
  BY StaysGrows DEF StreamsInv, Stays
<1>2. ASSUME NEW r \in Refreshers
      PROVE  Well(r)'
  <2>1. CASE job'[r] = job[r]
    <3>1. Well(r)
      BY DEF StreamsInv, AllWell
    <3>2. job[r].pc = "commit" => UNCHANGED holder
      BY <2>1
    <3> QED
      BY <1>1, <2>1, <3>1, <3>2, WellStays DEF StreamsInv
  <2>2. CASE job'[r] \in {At(pc) : pc \in {"idle", "done", "list"}}
    <3>1. job'[r].pc \in {"idle", "done", "list"} /\ DOMAIN job'[r] = {"pc", "item", "rows", "tx"}
      BY <2>2, Placed
    <3> QED
      BY <1>1, <3>1, WellOff DEF StreamsInv, Refreshing
  <2> QED
    BY <2>1, <2>2
<1> QED
  BY <1>2, TablesStay DEF StreamsInv, AllWell

-----------------------------------------------------------------------------
(* The steps of run() and of the runner *)

LEMMA StaysUnchanged ==
  ASSUME Shaped, UNCHANGED <<listed, tables>>
  PROVE  Stays
BY DEF Shaped, Stays

LEMMA ProcessKeepsStreams ==
  ASSUME StreamsInv, IInv', Start \/ Process \/ ServerFails \/ Signal \/ Kill \/ UNCHANGED vars
  PROVE  StreamsInv'
<1>1. Stays
  <2>1. UNCHANGED <<listed, tables>>
    BY DEF Start, Process, StartupFails, RunnerStarts, ServerFails, Signal, Drain, Exit, Requeue,
           RunnerStops, Kill, vars
  <2> QED
    BY <2>1, StaysUnchanged DEF StreamsInv
<1>2. CASE Kill
  <2>1. job' = Resting /\ todo' = <<>>
    BY <1>2 DEF Kill
  <2>2. \A r \in Refreshers : job'[r] \in {At(pc) : pc \in {"idle", "done", "list"}}
    BY <2>1 DEF Resting
  <2>3. \A r \in Refreshers : job'[r].pc # "commit"
    BY <2>2, Placed
  <2>4. Tasked'
    BY <2>1 DEF Tasked
  <2> QED
    BY <1>1, <2>2, <2>3, <2>4, CalmKeeps
<1>3. CASE ~Kill
  <2>1. UNCHANGED <<holder, todo>>
    BY <1>3 DEF Start, Process, StartupFails, RunnerStarts, ServerFails, Signal, Drain, Exit, Requeue,
           RunnerStops, vars
  <2>2. UNCHANGED job \/ job' = [job EXCEPT ![Sweep] = At("list")]
    BY <1>3 DEF Start, Process, StartupFails, RunnerStarts, ServerFails, Signal, Drain, Exit, Requeue,
           RunnerStops, vars
  <2>3. DOMAIN job = Refreshers
    BY DEF StreamsInv, IInv, Typed
  <2>4. \A r \in Refreshers : job'[r] = job[r] \/ job'[r] \in {At(pc) : pc \in {"idle", "done", "list"}}
    BY <2>2, <2>3
  <2>5. Tasked'
    BY <1>1, <2>1, StaysGrows, TasksStay DEF StreamsInv
  <2> QED
    BY <1>1, <2>1, <2>4, <2>5, CalmKeeps
<1> QED
  BY <1>2, <1>3

-----------------------------------------------------------------------------
(* The sweep *)

LEMMA ListDueKeeps ==
  ASSUME StreamsInv, IInv', ListDue
  PROVE  StreamsInv'
<1>1. Sweep \in Refreshers /\ DOMAIN job = Refreshers
  BY DEF Refreshers, StreamsInv, IInv, Typed
<1>2. UNCHANGED <<listed, tables, holder>>
  BY DEF ListDue
<1>3. Stays /\ Grows
  BY <1>2, StaysUnchanged, StaysGrows DEF StreamsInv
<1>4. PICK pc \in {"next", "done"} : job' = [job EXCEPT ![Sweep] = At(pc)]
  BY DEF ListDue
<1>5. Tasked'
  <2>1. CASE todo' = todo
    BY <1>3, <2>1, TasksStay DEF StreamsInv
  <2>2. CASE todo' # todo
    <3>1. PICK old \in SUBSET Items :
            todo' \in SetToSeqs({i \in Items : item[i].cred /\ item[i].pages > 0
                                               /\ (item[i].checked => i \in old)})
      BY <2>2 DEF ListDue
    <3> DEFINE due == {i \in Items : item[i].cred /\ item[i].pages > 0
                                     /\ (item[i].checked => i \in old)}
    <3>2. IsFiniteSet(due) /\ due \subseteq Items
      BY PlaidsyncAssumption, FS_Subset
    <3>3. Cardinality(due) \in Nat
      BY <3>2, FS_CardinalityType
    <3>4. \A i \in due : i \in Items /\ item[i].pages > 0 /\ item[i].pages \in Nat
      BY DEF StreamsInv, Shaped
    <3>5. todo' \in SetToSeqs(due)
      BY <3>1
    <3> HIDE DEF due
    <3>6. todo' \in [1..Cardinality(due) -> due]
      BY <3>5 DEF SetToSeqs
    <3>7. todo' \in Seq(Items) /\ \A n \in 1..Len(todo') : item[todo'[n]].pages >= 1
      BY <3>3, <3>4, <3>6
    <3> QED
      BY <1>2, <3>7 DEF Tasked
  <2> QED
    BY <2>1, <2>2
<1>6. Others(Sweep)
  BY <1>1, <1>2, <1>4 DEF Others
<1>7. Well(Sweep)'
  <2>1. job'[Sweep] = At(pc)
    BY <1>1, <1>4
  <2>2. job'[Sweep].pc = pc /\ DOMAIN job'[Sweep] = {"pc", "item", "rows", "tx"}
    BY <2>1, Placed
  <2> QED
    BY <1>3, <2>2, WellOff DEF StreamsInv, Refreshing
<1> QED
  BY <1>1, <1>3, <1>5, <1>6, <1>7, RefresherKeeps

LEMMA SweepNextKeeps ==
  ASSUME StreamsInv, IInv', SweepNext
  PROVE  StreamsInv'
<1>1. Sweep \in Refreshers /\ DOMAIN job = Refreshers
  BY DEF Refreshers, StreamsInv, IInv, Typed
<1>2. UNCHANGED <<listed, tables, holder>>
  BY DEF SweepNext
<1>3. Stays /\ Grows
  BY <1>2, StaysUnchanged, StaysGrows DEF StreamsInv
<1>4. CASE todo = <<>> \/ stopping
  <2>1. job' = [job EXCEPT ![Sweep] = At("done")] /\ todo' = <<>>
    BY <1>4 DEF SweepNext
  <2>2. job'[Sweep] = At("done") /\ Others(Sweep)
    BY <1>1, <1>2, <2>1 DEF Others
  <2>3. job'[Sweep].pc = "done" /\ DOMAIN job'[Sweep] = {"pc", "item", "rows", "tx"}
    BY <2>2, Placed
  <2>4. Well(Sweep)'
    BY <1>3, <2>3, WellOff DEF StreamsInv, Refreshing
  <2>5. Tasked'
    BY <2>1 DEF Tasked
  <2> QED
    BY <1>1, <1>3, <2>2, <2>4, <2>5, RefresherKeeps
<1>5. CASE todo # <<>> /\ ~stopping
  <2>1. /\ job' = [job EXCEPT ![Sweep] = [At("read") EXCEPT !.item = Head(todo)]]
        /\ todo' = Tail(todo)
    BY <1>5 DEF SweepNext
  <2>2. todo \in Seq(Items) /\ \A n \in 1..Len(todo) : item[todo[n]].pages >= 1
    BY DEF StreamsInv, Tasked
  <2>3. Head(todo) \in Items /\ item[Head(todo)].pages >= 1
    BY <1>5, <2>2
  <2>4. /\ Tail(todo) \in Seq(Items) /\ Len(Tail(todo)) = Len(todo) - 1
        /\ \A n \in 1..Len(Tail(todo)) : n + 1 \in 1..Len(todo) /\ Tail(todo)[n] = todo[n + 1]
    BY <1>5, <2>2
  <2>5. Tasked'
    BY <1>2, <2>1, <2>2, <2>4 DEF Tasked
  <2>6. job'[Sweep] = [At("read") EXCEPT !.item = Head(todo)] /\ Others(Sweep)
    BY <1>1, <1>2, <2>1 DEF Others
  <2>7. /\ job'[Sweep].pc = "read" /\ DOMAIN job'[Sweep] = {"pc", "item", "rows", "tx"}
        /\ job'[Sweep].item = Head(todo)
    BY <2>6 DEF At
  <2>8. Well(Sweep)'
    BY <1>3, <2>3, <2>7, WellOff DEF StreamsInv
  <2> QED
    BY <1>1, <1>3, <2>5, <2>6, <2>8, RefresherKeeps
<1> QED
  BY <1>4, <1>5

-----------------------------------------------------------------------------
(* The steps of a refresh *)

LEMMA FreedOthers ==
  ASSUME StreamsInv, NEW r \in Refreshers, Unlock(r) \/ UNCHANGED holder,
         \A q \in Refreshers \ {r} : job'[q] = job[q]
  PROVE  Others(r)
BY DEF Others, Unlock

(* A step that leaves no list and no transaction at hand. *)
LEMMA ReturnKeeps ==
  ASSUME StreamsInv, IInv', NEW r \in Refreshers, Refreshing(job[r].pc), Stays, UNCHANGED todo,
         Unlock(r) \/ UNCHANGED holder,
         Return(r) \/ Becomes(r, "fail") \/ Becomes(r, "ask")
  PROVE  StreamsInv'
<1>1. DOMAIN job = Refreshers /\ Well(r) /\ Grows
  BY StaysGrows DEF StreamsInv, IInv, Typed, AllWell
<1>2. Tasked'
  BY <1>1, TasksStay DEF StreamsInv
<1>3. \A q \in Refreshers \ {r} : job'[q] = job[q]
  BY <1>1 DEF Return, Becomes
<1>4. Others(r)
  BY <1>3, FreedOthers
<1>5. Well(r)'
  <2>1. CASE Return(r)
    <3>1. PICK pc \in {"next", "idle"} : job'[r] = At(pc)
      BY <1>1, <2>1 DEF Return
    <3>2. job'[r].pc = pc /\ DOMAIN job'[r] = {"pc", "item", "rows", "tx"}
      BY <3>1, Placed
    <3> QED
      BY <1>1, <3>2, WellOff DEF StreamsInv, Refreshing
  <2>2. ASSUME NEW pc \in {"fail", "ask"}, Becomes(r, pc)
        PROVE  Well(r)'
    <3>1. job'[r] = [job[r] EXCEPT !.pc = pc]
      BY <1>1, <2>2 DEF Becomes
    <3>2. DOMAIN job[r] = {"pc", "item", "rows", "tx"} /\ job[r].item \in Items
          /\ item[job[r].item].pages >= 1
      BY <1>1 DEF Well
    <3>3. job'[r].pc = pc /\ DOMAIN job'[r] = {"pc", "item", "rows", "tx"} /\ job'[r].item = job[r].item
      BY <3>1, <3>2
    <3> QED
      BY <1>1, <3>2, <3>3, WellOff DEF StreamsInv
  <2> QED
    BY <2>1, <2>2
<1> QED
  BY <1>2, <1>4, <1>5, RefresherKeeps

LEMMA OtherStepsKeep ==
  ASSUME StreamsInv, IInv', NEW r \in Refreshers,
         ReadCredential(r) \/ StoreFails(r) \/ Interrupted(r) \/ RecordFailure(r)
  PROVE  StreamsInv'
<1>1. CASE ReadCredential(r) \/ StoreFails(r) \/ Interrupted(r)
  <2>1. /\ Refreshing(job[r].pc) /\ UNCHANGED <<listed, tables, todo>>
        /\ Unlock(r) \/ UNCHANGED holder
    BY <1>1 DEF ReadCredential, StoreFails, Interrupted, InTransaction, Refreshing
  <2>2. Return(r) \/ Becomes(r, "fail") \/ Becomes(r, "ask")
    BY <1>1 DEF ReadCredential, StoreFails, Interrupted, ReturnError
  <2> QED
    BY <2>1, <2>2, StaysUnchanged, ReturnKeeps DEF StreamsInv
<1>2. CASE RecordFailure(r)
  <2>1. /\ job[r].pc = "fail" /\ Return(r) /\ UNCHANGED <<listed, accounts, streams, holder, todo>>
        /\ item' = [item EXCEPT ![job[r].item].checked = TRUE] \/ item' = item
    BY <1>2 DEF RecordFailure, ReturnError
  <2>2. job[r].item \in Items
    BY <2>1 DEF StreamsInv, AllWell, Well, Refreshing
  <2>3. item \in [Items -> [cred : BOOLEAN, pages : Nat, checked : BOOLEAN, refreshed : BOOLEAN]]
    BY DEF StreamsInv, Shaped
  <2>4. Stays
    <3>1. CASE item' = item
      BY <2>1, <2>3, <3>1 DEF Stays
    <3>2. CASE item' = [item EXCEPT ![job[r].item].checked = TRUE]
      <4>1. item' \in [Items -> [cred : BOOLEAN, pages : Nat, checked : BOOLEAN, refreshed : BOOLEAN]]
        BY <2>2, <2>3, <3>2
      <4>2. ASSUME NEW i \in Items
            PROVE  item'[i].pages = item[i].pages /\ item'[i].refreshed = item[i].refreshed
        BY <2>2, <2>3, <3>2
      <4> QED
        BY <2>1, <4>1, <4>2 DEF Stays
    <3> QED
      BY <2>1, <3>1, <3>2
  <2> QED
    BY <2>1, <2>4, ReturnKeeps DEF Refreshing
<1> QED
  BY <1>1, <1>2

LEMMA AskPlaidKeeps ==
  ASSUME StreamsInv, IInv', NEW r \in Refreshers, AskPlaid(r)
  PROVE  StreamsInv'
<1> DEFINE i == job[r].item
<1>1. DOMAIN job = Refreshers /\ Well(r) /\ job[r].pc = "ask"
      /\ UNCHANGED <<listed, tables, holder, todo>>
  BY DEF StreamsInv, IInv, Typed, AllWell, AskPlaid
<1>2. Stays
  BY <1>1, StaysUnchanged DEF StreamsInv
<1>3. Grows
  BY <1>2, StaysGrows DEF StreamsInv
<1>4. CASE Becomes(r, "fail")
  BY <1>1, <1>2, <1>4, ReturnKeeps DEF Refreshing
<1>5. CASE ~Becomes(r, "fail")
  <2>1. PICK rows \in Answers[i][listed[i]] :
          job' = [job EXCEPT ![r].pc = "replace", ![r].rows = rows]
    BY <1>5, FaultsDecodeToNothing DEF AskPlaid
  <2>2. i \in Items /\ item[i].pages >= 1 /\ DOMAIN job[r] = {"pc", "item", "rows", "tx"}
        /\ listed[i] \in 1..listed[i]
    BY <1>1, Answerable DEF StreamsInv, Shaped, Well, Refreshing
  <2>3. job'[r] = [[job[r] EXCEPT !.pc = "replace"] EXCEPT !.rows = rows]
    BY <1>1, <2>1
  <2>4. /\ job'[r].pc = "replace" /\ job'[r].rows = rows /\ job'[r].item = i
        /\ DOMAIN job'[r] = {"pc", "item", "rows", "tx"}
    BY <2>2, <2>3
  <2>5. Others(r)
    BY <1>1, <2>1 DEF Others
  <2>6. Well(r)'
    BY <1>1, <2>1, <2>2, <2>4 DEF Well, Answered
  <2>7. Tasked'
    BY <1>1, <1>3, TasksStay DEF StreamsInv
  <2> QED
    BY <1>2, <2>5, <2>6, <2>7, RefresherKeeps
<1> QED
  BY <1>4, <1>5

-----------------------------------------------------------------------------
(* The transaction of a refresh *)

(* A stream id is one item's, *)
LEMMA OwnItem ==
  ASSUME NEW id, NEW s, NEW t, IsStream(id, s, item), IsStream(id, t, item)
  PROVE  s.item = t.item
<1>1. PICK x \in Listed(s.item) : /\ {"stream_id", "account_id"} \subseteq DOMAIN x[1]
                                  /\ x[1]["stream_id"] = id
  BY DEF IsStream, Reported
<1>2. PICK y \in Listed(t.item) : /\ {"stream_id", "account_id"} \subseteq DOMAIN y[1]
                                  /\ y[1]["stream_id"] = id
  BY DEF IsStream, Reported
<1>3. Same(x[1], y[1], "stream_id")
  BY <1>1, <1>2 DEF Same
<1>4. s.item \in Items /\ t.item \in Items
  BY DEF IsStream
<1> QED
  BY <1>3, <1>4, PlaidsyncAssumption

(* so that what is written for one item takes nothing from another. *)
SameFor(j, t, u) ==
  \A id : /\ (id \in DOMAIN t /\ t[id].item = j) <=> (id \in DOMAIN u /\ u[id].item = j)
          /\ (id \in DOMAIN t /\ t[id].item = j) => t[id] = u[id]

LEMMA SameLive ==
  ASSUME NEW j, NEW t, NEW u, SameFor(j, t, u)
  PROVE  /\ LiveIn(t, j) = LiveIn(u, j)
         /\ \A tx : SameFor(j, Upserted(t, tx), Upserted(u, tx))
<1>1. \A id : /\ (id \in DOMAIN t /\ t[id].item = j) <=> (id \in DOMAIN u /\ u[id].item = j)
              /\ (id \in DOMAIN t /\ t[id].item = j) => t[id] = u[id]
  BY DEF SameFor
<1>2. LiveIn(t, j) = LiveIn(u, j)
  <2>1. {x \in DOMAIN t : t[x].item = j /\ t[x].live} = {x \in DOMAIN u : u[x].item = j /\ u[x].live}
    BY <1>1
  <2>2. \A x \in {x \in DOMAIN u : u[x].item = j /\ u[x].live} : t[x] = u[x]
    BY <1>1
  <2> QED
    BY <2>1, <2>2 DEF LiveIn
<1>3. ASSUME NEW tx
      PROVE  SameFor(j, Upserted(t, tx), Upserted(u, tx))
  <2> DEFINE T == Upserted(t, tx)
             U == Upserted(u, tx)
  <2>1. /\ DOMAIN T = DOMAIN t \cup DOMAIN tx /\ DOMAIN U = DOMAIN u \cup DOMAIN tx
        /\ \A id \in DOMAIN tx : T[id] = tx[id] /\ U[id] = tx[id]
        /\ \A id \in DOMAIN t \ DOMAIN tx : T[id] = t[id]
        /\ \A id \in DOMAIN u \ DOMAIN tx : U[id] = u[id]
    BY DEF Upserted
  <2> HIDE DEF T, U
  <2>2. SameFor(j, T, U)
    BY <1>1, <2>1 DEF SameFor
  <2> QED
    BY <2>2 DEF T, U
<1> QED
  BY <1>2, <1>3

LEMMA Apart ==
  ASSUME Stored, NEW i \in Items, NEW j \in Items \ {i}, NEW tx,
         \A id \in DOMAIN tx : IsStream(id, tx[id], item) /\ tx[id].item = i
  PROVE  SameFor(j, Upserted(streams, tx), streams)
<1> DEFINE T == Upserted(streams, tx)
<1>1. /\ DOMAIN T = DOMAIN streams \cup DOMAIN tx
      /\ \A id \in DOMAIN tx : T[id] = tx[id]
      /\ \A id \in DOMAIN streams \ DOMAIN tx : T[id] = streams[id]
  BY DEF Upserted
<1>2. \A id \in DOMAIN tx \cap DOMAIN streams : streams[id].item = i
  BY OwnItem DEF Stored
<1> HIDE DEF T
<1>3. SameFor(j, T, streams)
  BY <1>1, <1>2 DEF SameFor
<1> QED
  BY <1>3 DEF T

(* The accounts known of those an item's streams are of: its own. *)
LEMMA ListingGives ==
  ASSUME NEW i \in Items, NEW n \in DOMAIN Feed[i], Listings[i][n] # {}
  PROVE  \A o \in Range(Member(Feed[i][n].accounts, "accounts")) : "account_id" \in DOMAIN o
<1> DEFINE raws == Member(Feed[i][n].accounts, "accounts")
<1>1. \A k \in DOMAIN raws : DecodeAccount(raws[k]) # {}
  <2>1. DecodeAll(DecodeAccount, raws) # {}
    BY DEF Listings, GetAccounts, Result, Body, DecodeAccountsGet
  <2> QED
    BY <2>1 DEF DecodeAll
<1>2. \A o : DecodeAccount(o) # {} => "account_id" \in DOMAIN o
  BY DEF DecodeAccount, Given
<1> QED
  BY <1>1, <1>2 DEF Range

LEMMA OwnAccounts ==
  ASSUME Shaped, AccountsListed, NEW i \in Items
  PROVE  \A x \in Listed(i) : "account_id" \in DOMAIN x[1] =>
           (x[1]["account_id"] \in DOMAIN accounts
              <=> x[1]["account_id"] \in KnownAfter(i, item[i].pages))
<1> SUFFICES ASSUME NEW x \in Listed(i), "account_id" \in DOMAIN x[1],
                    x[1]["account_id"] \in DOMAIN accounts
             PROVE  x[1]["account_id"] \in KnownAfter(i, item[i].pages)
  BY DEF AccountsListed
<1>1. PICK j \in Items : x[1]["account_id"] \in KnownAfter(j, item[j].pages)
  BY DEF AccountsListed
<1>2. PICK k \in 1..item[j].pages :
        \E o \in Range(Member(Feed[j][k].accounts, "accounts")) :
          x[1]["account_id"] = Field(o, "account_id")
  BY <1>1 DEF KnownAfter
<1>3. k \in DOMAIN Feed[j] /\ Listings[j][k] # {}
  <2>1. item[j].pages \in Nat /\ item[j].pages <= Len(Feed[j])
    BY DEF Shaped
  <2> QED
    BY <1>2, <2>1, Answerable DEF Shaped
<1>4. PICK o \in Range(Member(Feed[j][k].accounts, "accounts")) :
        x[1]["account_id"] = Field(o, "account_id")
  BY <1>2
<1>5. Same(x[1], o, "account_id")
  BY <1>3, <1>4, ListingGives DEF Same, Field
<1>6. i = j
  BY <1>3, <1>4, <1>5, PlaidsyncAssumption
<1> QED
  BY <1>1, <1>6

LEMMA ReplaceKeeps ==
  ASSUME StreamsInv, IInv', NEW r \in Refreshers, Replace(r)
  PROVE  StreamsInv'
<1> DEFINE i == job[r].item
           rows == job[r].rows
           known == KnownAfter(i, item[i].pages)
<1>1. /\ DOMAIN job = Refreshers /\ DOMAIN holder = Items
      /\ Well(r) /\ job[r].pc = "replace" /\ RowFree(i)
      /\ holder' = [holder EXCEPT ![i] = r]
      /\ UNCHANGED <<listed, tables, todo>>
  BY DEF StreamsInv, IInv, Typed, AllWell, Replace
<1>2. Stays
  BY <1>1, StaysUnchanged DEF StreamsInv
<1>3. Grows
  BY <1>2, StaysGrows DEF StreamsInv
<1>4. i \in Items /\ item[i].pages >= 1 /\ DOMAIN job[r] = {"pc", "item", "rows", "tx"}
  BY <1>1 DEF Well, Refreshing
<1>5. PICK v \in 1..listed[i] : rows \in Answers[i][v]
  BY <1>1 DEF Well, Answered
<1>6. v \in DOMAIN Lists[i]
  BY <1>4, <1>5, Answerable DEF StreamsInv, Shaped
<1>7. PICK tx : /\ tx = Transaction(i, rows, DOMAIN accounts, streams)
                /\ job' = [job EXCEPT ![r].pc = "commit", ![r].tx = tx]
  BY DEF Replace, Transaction, NewRows, StaleRows
<1>8. Files(i, streams, known) /\ KnowsOwn(i, DOMAIN accounts, known)
  BY <1>4, OwnAccounts DEF StreamsInv, Stored, IsStream, Files, KnowsOwn
<1>9. /\ AreList(LiveIn(Upserted(streams, tx), i), Lists[i][v], known)
      /\ \A id \in DOMAIN tx : /\ DOMAIN tx[id] = {"item", "live", "content"}
                               /\ tx[id].item = i /\ tx[id].live \in BOOLEAN
                               /\ Reported(i, id, known)
  <2> HIDE DEF i, rows, known
  <2> QED
    BY <1>4, <1>5, <1>6, <1>7, <1>8, ReplacedIsList
<1>10. job'[r] = [[job[r] EXCEPT !.pc = "commit"] EXCEPT !.tx = tx]
  BY <1>1, <1>7
<1>11. /\ job'[r].pc = "commit" /\ job'[r].tx = tx /\ job'[r].item = i
       /\ DOMAIN job'[r] = {"pc", "item", "rows", "tx"}
  BY <1>4, <1>10
<1>12. Well(r)'
  <2>1. OneOf(LiveIn(Upserted(streams, tx), i), i, listed[i], item[i].pages)
    <3>1. item[i].pages \in 1..item[i].pages
      BY <1>4 DEF StreamsInv, Shaped
    <3> QED
      BY <1>5, <1>9, <3>1 DEF OneOf
  <2>2. \A id \in DOMAIN tx : IsStream(id, tx[id], item) /\ tx[id].item = i
    BY <1>4, <1>9 DEF IsStream
  <2>3. holder'[i] = r
    BY <1>1, <1>4
  <2>4. Written(r)'
    BY <1>1, <1>11, <2>1, <2>2, <2>3 DEF Written
  <2> QED
    BY <1>1, <1>4, <1>11, <2>4 DEF Well
<1>13. Others(r)
  <2>1. \A q \in Refreshers \ {r} : job'[q] = job[q]
    BY <1>1, <1>7
  <2>2. \A j \in Items : holder'[j] = holder[j] \/ holder[j] \in {r, NULL}
    BY <1>1 DEF RowFree
  <2> QED
    BY <2>1, <2>2 DEF Others
<1>14. Tasked'
  BY <1>1, <1>3, TasksStay DEF StreamsInv
<1> QED
  BY <1>2, <1>12, <1>13, <1>14, RefresherKeeps

LEMMA CommitKeeps ==
  ASSUME StreamsInv, IInv', NEW r \in Refreshers, Commit(r)
  PROVE  StreamsInv'
<1>0. PICK i, tx : i \in Items /\ i = job[r].item /\ tx = job[r].tx
  BY DEF StreamsInv, AllWell, Commit, Well, Refreshing
<1>1. /\ DOMAIN job = Refreshers /\ DOMAIN holder = Items /\ Well(r) /\ job[r].pc = "commit"
      /\ streams' = Upserted(streams, tx)
      /\ item' = [item EXCEPT ![i].checked = TRUE, ![i].refreshed = TRUE]
      /\ Unlock(r) /\ (Return(r) \/ Becomes(r, "fail"))
      /\ UNCHANGED <<listed, accounts, todo>>
  BY <1>0 DEF StreamsInv, IInv, Typed, AllWell, Commit
<1>2. i \in Items /\ item[i].pages >= 1 /\ DOMAIN job[r] = {"pc", "item", "rows", "tx"}
  BY <1>0, <1>1 DEF Well, Refreshing
<1>3. /\ holder[i] = r
      /\ \A id \in DOMAIN tx : IsStream(id, tx[id], item) /\ tx[id].item = i
      /\ OneOf(LiveIn(Upserted(streams, tx), i), i, listed[i], item[i].pages)
  BY <1>0, <1>1 DEF Well, Written
<1>4. /\ item' \in [Items -> [cred : BOOLEAN, pages : Nat, checked : BOOLEAN, refreshed : BOOLEAN]]
      /\ \A j \in Items : item'[j].pages = item[j].pages
      /\ item'[i].refreshed = TRUE /\ \A j \in Items \ {i} : item'[j].refreshed = item[j].refreshed
  <2>1. item \in [Items -> [cred : BOOLEAN, pages : Nat, checked : BOOLEAN, refreshed : BOOLEAN]]
    BY DEF StreamsInv, Shaped
  <2>2. item' = [item EXCEPT ![i] = [item[i] EXCEPT !.checked = TRUE, !.refreshed = TRUE]]
    BY <1>1, <1>2, <2>1
  <2>3. item[i] \in [cred : BOOLEAN, pages : Nat, checked : BOOLEAN, refreshed : BOOLEAN]
    BY <1>0, <2>1
  <2>4. PICK row : row = [item[i] EXCEPT !.checked = TRUE, !.refreshed = TRUE]
    OBVIOUS
  <2>5. row \in [cred : BOOLEAN, pages : Nat, checked : BOOLEAN, refreshed : BOOLEAN]
        /\ row.pages = item[i].pages /\ row.refreshed = TRUE
    BY <2>3, <2>4
  <2> QED
    BY <1>2, <2>1, <2>2, <2>5
<1>5. Shaped'
  <2>1. \A j \in Items : /\ item[j].pages <= Len(Feed[j]) /\ listed[j] \in 1..Len(Lists[j])
                         /\ \A k \in 1..item[j].pages : Listings[j][k] # {}
    BY DEF StreamsInv, Shaped
  <2>2. DOMAIN listed' = Items
    BY <1>1 DEF StreamsInv, Shaped
  <2> QED
    BY <1>1, <1>4, <2>1, <2>2 DEF Shaped
<1>6. Grows
  BY <1>1, <1>4, Answerable DEF StreamsInv, Shaped, Grows
<1>7. AccountsListed'
  <2>1. UNION {KnownAfter(j, item[j].pages) : j \in Items}
          = UNION {KnownAfter(j, item'[j].pages) : j \in Items}
    BY <1>4
  <2> QED
    BY <1>1, <2>1 DEF StreamsInv, AccountsListed
<1>8. Stored'
  <2>1. \A id \in DOMAIN streams : IsStream(id, streams[id], item')
    BY <1>6, StreamGrows DEF StreamsInv, Stored
  <2>2. \A id \in DOMAIN tx : IsStream(id, tx[id], item')
    BY <1>3, <1>6, StreamGrows DEF StreamsInv
  <2>3. DOMAIN streams' = DOMAIN streams \cup DOMAIN tx
        /\ \A id \in DOMAIN streams' : streams'[id] = IF id \in DOMAIN tx THEN tx[id] ELSE streams[id]
    BY <1>1 DEF Upserted
  <2> QED
    BY <2>1, <2>2, <2>3 DEF Stored
<1>9. \A j \in Items \ {i} : SameFor(j, streams', streams)
  BY <1>1, <1>2, <1>3, Apart DEF StreamsInv
<1>10. StreamsAreOneAnswer'
  <2>1. \A j \in Items : IF item[j].refreshed THEN OneOf(Live(j), j, listed[j], item[j].pages)
                         ELSE Live(j) = {}
    BY DEF StreamsInv, StreamsAreOneAnswer, OneOf
  <2>2. \A j \in Items \ {i} : Live(j)' = Live(j)
    BY <1>9, SameLive DEF Live
  <2>3. OneOf(Live(i)', i, listed[i], item[i].pages)
    BY <1>1, <1>3 DEF Live
  <2>4. \A j \in Items : IF item'[j].refreshed THEN OneOf(Live(j)', j, listed'[j], item'[j].pages)
                         ELSE Live(j)' = {}
    BY <1>1, <1>4, <2>1, <2>2, <2>3
  <2> QED
    BY <2>4 DEF StreamsAreOneAnswer, OneOf
<1>11. ASSUME NEW q \in Refreshers \ {r}
       PROVE  Well(q)'
  <2>1. job'[q] = job[q] /\ Well(q) /\ q # NULL
    BY <1>1, PlaidsyncAssumption DEF Return, Becomes, StreamsInv, AllWell
  <2>2. \A j \in Items : item[j].pages >= 1 => item'[j].pages >= 1
    BY <1>4
  <2>3. ASSUME job[q].pc = "replace"
        PROVE  Answered(q)'
    BY <1>1, <2>1, <2>3 DEF Well, Answered
  <2>4. ASSUME job[q].pc = "commit"
        PROVE  Written(q)'
    <3> DEFINE j == job[q].item
               txq == job[q].tx
    <3>1. /\ j \in Items /\ holder[j] = q
          /\ \A id \in DOMAIN txq : IsStream(id, txq[id], item) /\ txq[id].item = j
          /\ OneOf(LiveIn(Upserted(streams, txq), j), j, listed[j], item[j].pages)
      BY <2>1, <2>4 DEF Well, Written, Refreshing
    <3>2. j # i
      BY <1>3, <3>1
    <3>3. holder'[j] = q
      BY <1>1, <3>1 DEF Unlock
    <3>4. \A id \in DOMAIN txq : IsStream(id, txq[id], item')
      BY <1>6, <3>1, StreamGrows DEF StreamsInv
    <3>5. LiveIn(Upserted(streams', txq), j) = LiveIn(Upserted(streams, txq), j)
      BY <1>9, <3>1, <3>2, SameLive
    <3>6. OneOf(LiveIn(Upserted(streams', txq), j), j, listed'[j], item'[j].pages)
      BY <1>1, <1>4, <3>1, <3>5
    <3> QED
      BY <2>1, <3>1, <3>3, <3>4, <3>6 DEF Written
  <2> QED
    BY <2>1, <2>2, <2>3, <2>4 DEF Well
<1>12. Well(r)'
  <2>1. CASE Return(r)
    <3>1. PICK pc \in {"next", "idle"} : job'[r] = At(pc)
      BY <1>1, <2>1 DEF Return
    <3>2. job'[r].pc = pc /\ DOMAIN job'[r] = {"pc", "item", "rows", "tx"}
      BY <3>1, Placed
    <3> QED
      BY <1>6, <3>2, WellOff DEF StreamsInv, Refreshing
  <2>2. CASE Becomes(r, "fail")
    <3>1. job'[r] = [job[r] EXCEPT !.pc = "fail"]
      BY <1>1, <2>2 DEF Becomes
    <3>2. job'[r].pc = "fail" /\ DOMAIN job'[r] = {"pc", "item", "rows", "tx"} /\ job'[r].item = i
      BY <1>0, <1>2, <3>1
    <3> QED
      BY <1>2, <1>6, <3>2, WellOff DEF StreamsInv
  <2> QED
    BY <1>1, <2>1, <2>2
<1>13. Tasked'
  BY <1>1, <1>6, TasksStay DEF StreamsInv
<1> QED
  BY <1>5, <1>7, <1>8, <1>10, <1>11, <1>12, <1>13 DEF StreamsInv, AllWell

-----------------------------------------------------------------------------
(* Plaid, the clients, and a sync *)

LEMMA ItemKeeps ==
  ASSUME StreamsInv, IInv', NEW i \in Triggered, PlaidChanges(i) \/ RemoveItem(i)
  PROVE  StreamsInv'
<1>1. i \in Items /\ UNCHANGED <<holder, job, todo, accounts, streams>>
  BY PlaidsyncAssumption DEF PlaidChanges, RemoveItem
<1>2. /\ item' \in [Items -> [cred : BOOLEAN, pages : Nat, checked : BOOLEAN, refreshed : BOOLEAN]]
      /\ \A j \in Items : item'[j].pages = item[j].pages /\ item'[j].refreshed = item[j].refreshed
  <2>1. item \in [Items -> [cred : BOOLEAN, pages : Nat, checked : BOOLEAN, refreshed : BOOLEAN]]
    BY DEF StreamsInv, Shaped
  <2>2. CASE PlaidChanges(i)
    BY <2>1, <2>2 DEF PlaidChanges
  <2>3. CASE RemoveItem(i)
    <3>1. item' = [item EXCEPT ![i].cred = FALSE]
      BY <2>3 DEF RemoveItem
    <3> QED
      BY <1>1, <2>1, <3>1
  <2> QED
    BY <2>2, <2>3
<1>3. /\ DOMAIN listed' = Items
      /\ \A j \in Items : listed'[j] \in 1..Len(Lists[j]) /\ listed[j] <= listed'[j]
  <2>1. DOMAIN listed = Items /\ \A j \in Items : listed[j] \in 1..Len(Lists[j])
    BY DEF StreamsInv, Shaped
  <2>2. CASE PlaidChanges(i)
    <3>1. listed[i] < Len(Lists[i]) /\ listed' = [listed EXCEPT ![i] = listed[i] + 1]
      BY <2>2 DEF PlaidChanges
    <3>2. ASSUME NEW j \in Items
          PROVE  listed'[j] \in 1..Len(Lists[j]) /\ listed[j] <= listed'[j]
      BY <2>1, <3>1, Answerable
    <3> QED
      BY <2>1, <3>1, <3>2
  <2>3. CASE RemoveItem(i)
    BY <2>1, <2>3, Answerable DEF RemoveItem
  <2> QED
    BY <2>2, <2>3
<1>4. Grows
  BY <1>2, <1>3, Answerable DEF StreamsInv, Shaped, Grows
<1>5. Shaped'
  <2>1. \A j \in Items : /\ item[j].pages <= Len(Feed[j])
                         /\ \A k \in 1..item[j].pages : Listings[j][k] # {}
    BY DEF StreamsInv, Shaped
  <2> QED
    BY <1>2, <1>3, <2>1 DEF Shaped
<1>6. AccountsListed'
  <2>1. UNION {KnownAfter(j, item[j].pages) : j \in Items}
          = UNION {KnownAfter(j, item'[j].pages) : j \in Items}
    BY <1>2
  <2> QED
    BY <1>1, <2>1 DEF StreamsInv, AccountsListed
<1>7. Stored' /\ StreamsAreOneAnswer'
  BY <1>1, <1>2, <1>4, StoredStay DEF StreamsInv
<1>8. AllWell'
  BY <1>1, <1>4, WellStays DEF StreamsInv, AllWell
<1>9. Tasked'
  BY <1>1, <1>4, TasksStay DEF StreamsInv
<1> QED
  BY <1>5, <1>6, <1>7, <1>8, <1>9 DEF StreamsInv

(* A sync stores the accounts of the page that it moves the cursor to. *)
LEMMA SyncKeepsStreams ==
  ASSUME StreamsInv, IInv', NEW w \in Workers, NEW i \in Triggered, Sync(w, i)
  PROVE  StreamsInv'
<1>1. PICK f : f = Following(i)
  OBVIOUS
<1>2. /\ i \in Items /\ w \in Refreshers /\ DOMAIN job = Refreshers
      /\ item \in [Items -> [cred : BOOLEAN, pages : Nat, checked : BOOLEAN, refreshed : BOOLEAN]]
  BY PlaidsyncAssumption DEF Refreshers, StreamsInv, IInv, Typed, Shaped
<1>3. PICK accts \in Listings[i][f] : accounts' = Upserted(accounts, Keyed(accts, "account_id"))
  BY <1>1, FaultsDecodeToNothing DEF Sync, Success
<1>4. /\ item' = [item EXCEPT ![i].pages = f] /\ UNCHANGED <<listed, streams, holder, todo>>
      /\ job' = [job EXCEPT ![w] = [At("read") EXCEPT !.item = i]]
  BY <1>1 DEF Sync, Success
<1>5. /\ f \in 1..Len(Feed[i]) /\ item[i].pages <= f
      /\ f \in {item[i].pages, item[i].pages + 1}
  <2>1. item[i].pages \in Nat /\ item[i].pages <= Len(Feed[i]) /\ Len(Feed[i]) \in Nat /\ Len(Feed[i]) >= 1
    BY <1>2, Answerable DEF StreamsInv, Shaped
  <2> QED
    BY <1>1, <2>1 DEF Following
<1>6. /\ item' \in [Items -> [cred : BOOLEAN, pages : Nat, checked : BOOLEAN, refreshed : BOOLEAN]]
      /\ item'[i].pages = f /\ \A j \in Items \ {i} : item'[j].pages = item[j].pages
      /\ \A j \in Items : item'[j].refreshed = item[j].refreshed
  <2>1. item[i] \in [cred : BOOLEAN, pages : Nat, checked : BOOLEAN, refreshed : BOOLEAN] /\ f \in Nat
    BY <1>2, <1>5, Answerable
  <2>2. PICK row : row = [item[i] EXCEPT !.pages = f]
    OBVIOUS
  <2>3. /\ row \in [cred : BOOLEAN, pages : Nat, checked : BOOLEAN, refreshed : BOOLEAN]
        /\ row.pages = f /\ row.refreshed = item[i].refreshed
    BY <2>1, <2>2
  <2>4. item' = [item EXCEPT ![i] = row]
    BY <1>4, <2>2
  <2> QED
    BY <1>2, <2>3, <2>4
<1>7. Grows
  BY <1>2, <1>4, <1>5, <1>6, Answerable DEF StreamsInv, Shaped, Grows
<1>8. Shaped'
  <2>1. \A j \in Items : /\ item[j].pages <= Len(Feed[j]) /\ listed[j] \in 1..Len(Lists[j])
                         /\ \A k \in 1..item[j].pages : Listings[j][k] # {}
    BY DEF StreamsInv, Shaped
  <2>2. \A k \in 1..f : Listings[i][k] # {}
    <3>1. item[i].pages \in Nat /\ f \in Nat
      BY <1>2, <1>5, Answerable
    <3>2. \A k \in 1..f : k \in 1..item[i].pages \/ k = f
      BY <1>5, <3>1
    <3> QED
      BY <1>2, <1>3, <2>1, <3>2
  <2>3. DOMAIN listed' = Items
    BY <1>4 DEF StreamsInv, Shaped
  <2>4. ASSUME NEW j \in Items
        PROVE  /\ item'[j].pages <= Len(Feed[j])
               /\ \A k \in 1..item'[j].pages : Listings[j][k] # {}
    <3>1. CASE j = i
      <4>1. item'[j].pages = f /\ f <= Len(Feed[j])
        BY <1>2, <1>5, <1>6, <3>1, Answerable
      <4> QED
        BY <2>2, <3>1, <4>1
    <3>2. CASE j # i
      BY <1>6, <2>1, <3>2
    <3> QED
      BY <3>1, <3>2
  <2> QED
    BY <1>4, <1>6, <2>1, <2>3, <2>4 DEF Shaped
<1>9. AccountsListed'
  <2> DEFINE names == {Field(o, "account_id") : o \in Range(Member(Feed[i][f].accounts, "accounts"))}
  <2>1. DOMAIN Keyed(accts, "account_id") = names
    BY <1>2, <1>3, <1>5, Answerable, ListingIs
  <2>2. DOMAIN accounts' = DOMAIN accounts \cup names
    BY <1>3, <2>1 DEF Upserted
  <2>3. KnownAfter(i, f) = KnownAfter(i, item[i].pages) \cup names
    <3>1. 1..f = (1..item[i].pages) \cup {f}
      BY <1>2, <1>5
    <3> QED
      BY <3>1 DEF KnownAfter
  <2> HIDE DEF names
  <2>4. UNION {KnownAfter(j, item'[j].pages) : j \in Items}
          = (UNION {KnownAfter(j, item[j].pages) : j \in Items}) \cup names
    BY <1>2, <1>6, <2>3
  <2> QED
    BY <2>2, <2>4 DEF StreamsInv, AccountsListed
<1>10. Stored' /\ StreamsAreOneAnswer'
  BY <1>4, <1>6, <1>7, StoredStay DEF StreamsInv
<1>11. Tasked'
  BY <1>4, <1>7, TasksStay DEF StreamsInv
<1>12. Others(w)
  BY <1>2, <1>4 DEF Others
<1>13. Well(w)'
  <2>1. /\ job'[w].pc = "read" /\ job'[w].item = i
        /\ DOMAIN job'[w] = {"pc", "item", "rows", "tx"}
    BY <1>2, <1>4 DEF At
  <2> QED
    BY <1>2, <1>5, <1>6, <2>1 DEF Well
<1>14. AllWell'
  BY <1>4, <1>7, <1>12, <1>13, OthersStay DEF AllWell
<1> QED
  BY <1>8, <1>9, <1>10, <1>11, <1>14 DEF StreamsInv

-----------------------------------------------------------------------------
(* The theorem *)

LEMMA InitHasStreams == Init => StreamsInv
<1> SUFFICES ASSUME Init
             PROVE  StreamsInv
  OBVIOUS
<1>1. IInv
  BY InitKeeps
<1>2. PICK synced \in {{}, Storable} :
        /\ item = [i \in Items |-> IF i \in synced THEN [NewItem EXCEPT !.pages = 1] ELSE NewItem]
        /\ accounts = Joint([i \in synced |-> FirstAccounts(i)])
  BY DEF Init
<1>3. synced \subseteq Items /\ \A i \in synced : Listings[i][1] # {}
  BY DEF Storable
<1>4. /\ item \in [Items -> [cred : BOOLEAN, pages : Nat, checked : BOOLEAN, refreshed : BOOLEAN]]
      /\ \A i \in synced : item[i].pages = 1
      /\ \A i \in Items \ synced : item[i].pages = 0
      /\ \A i \in Items : ~item[i].refreshed
  BY <1>2, <1>3 DEF NewItem
<1>5. listed = [i \in Items |-> 1] /\ job = Resting /\ todo = <<>> /\ streams = Empty
  BY DEF Init
<1>6. Shaped
  <2>1. DOMAIN listed = Items /\ \A i \in Items : listed[i] = 1
    BY <1>5
  <2>2. \A i \in Items : item[i].pages \in {0, 1} /\ \A k \in 1..item[i].pages : k = 1 /\ i \in synced
    BY <1>4
  <2>3. ASSUME NEW i \in Items
        PROVE  /\ item[i].pages <= Len(Feed[i]) /\ listed[i] \in 1..Len(Lists[i])
               /\ \A k \in 1..item[i].pages : Listings[i][k] # {}
    BY <1>3, <2>1, <2>2, Answerable
  <2> QED
    BY <1>4, <2>1, <2>3 DEF Shaped
<1>7. AccountsListed
  <2>1. ASSUME NEW i \in synced
        PROVE  DOMAIN FirstAccounts(i) = KnownAfter(i, 1)
    <3>1. PICK accts \in Listings[i][1] : FirstAccounts(i) = Keyed(accts, "account_id")
      BY <1>3 DEF FirstAccounts
    <3>2. i \in Items /\ 1 \in DOMAIN Feed[i]
      BY <1>3, Answerable
    <3>3. DOMAIN FirstAccounts(i)
            = {Field(o, "account_id") : o \in Range(Member(Feed[i][1].accounts, "accounts"))}
      BY <3>1, <3>2, ListingIs
    <3>4. KnownAfter(i, 1)
            = {Field(o, "account_id") : o \in Range(Member(Feed[i][1].accounts, "accounts"))}
      <4>1. 1..1 = {1}
        OBVIOUS
      <4> QED
        BY <4>1 DEF KnownAfter
    <3> QED
      BY <3>3, <3>4
  <2>2. DOMAIN accounts = UNION {DOMAIN FirstAccounts(i) : i \in synced}
    BY <1>2 DEF Joint
  <2>3. DOMAIN accounts = UNION {KnownAfter(i, 1) : i \in synced}
    BY <2>1, <2>2
  <2>4. \A i \in Items \ synced : KnownAfter(i, item[i].pages) = {}
    <3>1. 1..0 = {}
      OBVIOUS
    <3> QED
      BY <1>4, <3>1 DEF KnownAfter
  <2>5. UNION {KnownAfter(i, item[i].pages) : i \in Items} = UNION {KnownAfter(i, 1) : i \in synced}
    BY <1>3, <1>4, <2>4
  <2> QED
    BY <2>3, <2>5 DEF AccountsListed
<1>8. AllWell
  BY <1>5, Placed DEF Resting, AllWell, Well, Refreshing
<1>9. Tasked /\ Stored
  BY <1>5 DEF Tasked, Stored, Empty
<1>10. StreamsAreOneAnswer
  BY <1>4, <1>5 DEF StreamsAreOneAnswer, Live, LiveIn, Empty
<1> QED
  BY <1>1, <1>6, <1>7, <1>8, <1>9, <1>10 DEF StreamsInv

LEMMA StepKeepsStreams == StreamsInv /\ [Next]_vars => StreamsInv'
<1> SUFFICES ASSUME StreamsInv, [Next]_vars
             PROVE  StreamsInv'
  OBVIOUS
<1>1. IInv'
  BY StepKeeps DEF StreamsInv
<1>2. ASSUME NEW r \in Refreshers, Refresh(r)
      PROVE  StreamsInv'
  BY <1>1, <1>2, AskPlaidKeeps, ReplaceKeeps, CommitKeeps, OtherStepsKeep DEF Refresh
<1> QED
  BY <1>1, <1>2, ProcessKeepsStreams, ListDueKeeps, SweepNextKeeps, SyncKeepsStreams, ItemKeeps DEF Next

(* Whatever the other refresher, a sync, a crash or a COMMIT whose answer is  *)
(* lost does, the live streams of an item are those of one answer of Plaid,   *)
(* for the accounts of one page: ReplaceRecurringStreams locks the item's row *)
(* before it reads which of its streams are stale.                            *)
THEOREM StreamsAreExact == Spec => []StreamsAreOneAnswer
<1>1. StreamsInv => StreamsAreOneAnswer
  BY DEF StreamsInv
<1> QED
  BY <1>1, InitHasStreams, StepKeepsStreams, PTL DEF Spec

-----------------------------------------------------------------------------
(* The transactions: what a page gives *)

(* A transaction that is decoded is its object's, *)
LEMMA TransactionFits ==
  ASSUME NEW o, NEW t \in DecodeTransaction(o), Field(o, "pending") \in BOOLEAN \cup {NULL, BAD}
  PROVE  t.raw = o /\ Fits(t, o["transaction_id"]) /\ "transaction_id" \in DOMAIN o
<1>1. /\ Readable(o, FieldsOf(TransactionFields))
      /\ {"transaction_id", "account_id", "amount", "date"} \subseteq DOMAIN o
      /\ t = [raw |-> o, row |-> [Row(o, TransactionFields) EXCEPT
                                    !.pending = IF @ = NULL THEN FALSE ELSE @]]
  BY DEF DecodeTransaction, Given
<1>2. /\ {"transaction_id", "account_id", "amount", "date", "pending"} \subseteq DOMAIN TransactionFields
      /\ \A c \in {"transaction_id", "account_id", "amount", "date", "pending"} : TransactionFields[c] = c
  BY DEF TransactionFields
<1>3. /\ t.raw = o
      /\ \A c \in {"transaction_id", "account_id", "amount", "date"} : t.row[c] = o[c]
      /\ t.row["pending"] = IF Field(o, "pending") = NULL THEN FALSE ELSE Field(o, "pending")
  <2> DEFINE row == Row(o, TransactionFields)
  <2>1. DOMAIN row = DOMAIN TransactionFields
        /\ \A c \in {"transaction_id", "account_id", "amount", "date", "pending"} : row[c] = Field(o, c)
    BY <1>2 DEF Row
  <2>2. \A c \in {"transaction_id", "account_id", "amount", "date"} : Field(o, c) = o[c]
    BY <1>1 DEF Field
  <2> HIDE DEF row
  <2>3. t.row = [row EXCEPT !.pending = IF @ = NULL THEN FALSE ELSE @] /\ t.raw = o
    BY <1>1 DEF row
  <2>4. /\ \A c \in {"transaction_id", "account_id", "amount", "date"} : t.row[c] = row[c]
        /\ t.row["pending"] = IF row["pending"] = NULL THEN FALSE ELSE row["pending"]
    BY <1>2, <2>1, <2>3
  <2> QED
    BY <2>1, <2>2, <2>3, <2>4
<1>4. t.row["pending"] = (Field(o, "pending") = TRUE)
  <2>1. Field(o, "pending") # BAD
    BY <1>1, <1>2 DEF Readable, FieldsOf
  <2>2. Field(o, "pending") \in {TRUE, FALSE, NULL} /\ NULL # TRUE
    BY <2>1, PlaidsyncAssumption
  <2> QED
    BY <1>3, <2>2
<1> QED
  BY <1>1, <1>3, <1>4 DEF Fits

(* and a list that is decoded all of its objects. *)
LEMMA TransactionsDecoded ==
  ASSUME NEW raws, IsSequence(raws), NEW rows \in DecodeAll(DecodeTransaction, raws)
  PROVE  /\ rows \in Seq(Range(rows)) /\ Len(rows) = Len(raws)
         /\ \A n \in 1..Len(raws) : rows[n] \in DecodeTransaction(raws[n])
<1>1. Len(raws) \in Nat /\ DOMAIN raws = 1..Len(raws)
  BY DEF IsSequence
<1>2. /\ \A n \in DOMAIN raws : DecodeTransaction(raws[n]) # {}
      /\ rows = [n \in DOMAIN raws |-> CHOOSE row \in DecodeTransaction(raws[n]) : TRUE]
  BY DEF DecodeAll
<1>3. \A n \in 1..Len(raws) : rows[n] \in DecodeTransaction(raws[n])
  BY <1>1, <1>2
<1>4. DOMAIN rows = 1..Len(raws) /\ rows \in [1..Len(raws) -> Range(rows)]
  BY <1>1, <1>2 DEF Range
<1>5. rows \in Seq(Range(rows)) /\ Len(rows) = Len(raws)
  BY <1>1, <1>4
<1> QED
  BY <1>3, <1>5

LEMMA Concatenated ==
  ASSUME NEW a, NEW b, a \in Seq(Range(a)), b \in Seq(Range(b))
  PROVE  /\ Len(a \o b) = Len(a) + Len(b) /\ DOMAIN (a \o b) = 1..(Len(a) + Len(b))
         /\ Len(a) \in Nat /\ Len(b) \in Nat
         /\ \A k \in 1..(Len(a) + Len(b)) :
              \/ k \in 1..Len(a) /\ (a \o b)[k] = a[k]
              \/ k > Len(a) /\ k - Len(a) \in 1..Len(b) /\ (a \o b)[k] = b[k - Len(a)]
<1> DEFINE S == Range(a) \cup Range(b)
<1>1. a \in Seq(S) /\ b \in Seq(S)
  OBVIOUS
<1> HIDE DEF S
<1>2. Len(a) \in Nat /\ Len(b) \in Nat
  BY <1>1
<1>3. Len(a \o b) = Len(a) + Len(b) /\ DOMAIN (a \o b) = 1..(Len(a) + Len(b))
  BY <1>1
<1>4. ASSUME NEW k \in 1..(Len(a) + Len(b))
      PROVE  \/ k \in 1..Len(a) /\ (a \o b)[k] = a[k]
             \/ k > Len(a) /\ k - Len(a) \in 1..Len(b) /\ (a \o b)[k] = b[k - Len(a)]
  BY <1>1, <1>2
<1> QED
  BY <1>2, <1>3, <1>4

Rows(page) == page.added \o page.modified

(* A page that is decoded gives the rows of the objects it tells, in order. *)
LEMMA PageGives ==
  ASSUME NEW i \in Items, NEW n \in DOMAIN Feed[i], NEW page \in Pages[i][n]
  PROVE  LET rows == Rows(page)
             told == Told[i][n]
         IN  /\ Len(rows) \in Nat /\ DOMAIN rows = 1..Len(rows) /\ DOMAIN told = DOMAIN rows
             /\ \A k \in DOMAIN rows : /\ rows[k].raw = told[k] /\ Fits(rows[k], told[k]["transaction_id"])
                                       /\ "transaction_id" \in DOMAIN told[k]
             /\ Range(page.removed) = Dropped[i][n]
             /\ \A o \in Dropped[i][n] : "transaction_id" \in DOMAIN o
<1> DEFINE body == Feed[i][n].page
           A == Member(body, "added")
           M == Member(body, "modified")
           told == Told[i][n]
<1>1. page \in DecodeSyncPage(body)
  BY DEF Pages, SyncTransactions, Result, Body
<1>2. /\ page.added \in DecodeAll(DecodeTransaction, A)
      /\ page.modified \in DecodeAll(DecodeTransaction, M)
      /\ page.removed = Member(body, "removed")
      /\ \A k \in DOMAIN Member(body, "removed") : Given(body.removed[k], "transaction_id")
  BY <1>1 DEF DecodeSyncPage
<1>3. IsSequence(A) /\ IsSequence(M) /\ IsSequence(Member(body, "removed"))
  BY PlaidsyncAssumption
<1>4. told = A \o M /\ Dropped[i][n] = Range(Member(body, "removed"))
  BY DEF Told, Dropped
<1>5. \A o \in Range(told) : Field(o, "pending") \in BOOLEAN \cup {NULL, BAD}
  BY PlaidsyncAssumption
<1>6. Range(page.removed) = Dropped[i][n] /\ \A o \in Dropped[i][n] : "transaction_id" \in DOMAIN o
  <2>1. ASSUME NEW k \in DOMAIN Member(body, "removed")
        PROVE  "transaction_id" \in DOMAIN Member(body, "removed")[k]
    <3>1. "removed" \in DOMAIN body => Member(body, "removed") = body.removed
      BY DEF Member
    <3>2. "removed" \notin DOMAIN body => Member(body, "removed") = <<>>
      BY DEF Member
    <3>3. DOMAIN <<>> = {}
      OBVIOUS
    <3>4. Member(body, "removed") = body.removed
      BY <2>1, <3>1, <3>2, <3>3
    <3> QED
      BY <1>2, <2>1, <3>4 DEF Given
  <2> QED
    BY <1>2, <1>4, <2>1 DEF Range
<1> HIDE DEF body, A, M, told
<1>7. /\ page.added \in Seq(Range(page.added)) /\ Len(page.added) = Len(A)
      /\ \A k \in 1..Len(A) : page.added[k] \in DecodeTransaction(A[k])
  BY <1>2, <1>3, TransactionsDecoded
<1>8. /\ page.modified \in Seq(Range(page.modified)) /\ Len(page.modified) = Len(M)
      /\ \A k \in 1..Len(M) : page.modified[k] \in DecodeTransaction(M[k])
  BY <1>2, <1>3, TransactionsDecoded
<1>9. Len(A) \in Nat /\ Len(M) \in Nat /\ A \in Seq(Range(A)) /\ M \in Seq(Range(M))
  BY <1>3 DEF IsSequence
<1> DEFINE rows == page.added \o page.modified
           l == Len(A) + Len(M)
<1>13. /\ Len(rows) = l /\ DOMAIN rows = 1..l
       /\ \A k \in 1..l :
            \/ k \in 1..Len(A) /\ rows[k] = page.added[k]
            \/ k > Len(A) /\ k - Len(A) \in 1..Len(M) /\ rows[k] = page.modified[k - Len(A)]
  <2>1. PICK a : a = page.added
    OBVIOUS
  <2>2. PICK m : m = page.modified
    OBVIOUS
  <2>3. a \in Seq(Range(a)) /\ m \in Seq(Range(m)) /\ Len(a) = Len(A) /\ Len(m) = Len(M)
    BY <1>7, <1>8, <2>1, <2>2
  <2>4. /\ Len(a \o m) = l /\ DOMAIN (a \o m) = 1..l
        /\ \A k \in 1..l :
             \/ k \in 1..Len(A) /\ (a \o m)[k] = a[k]
             \/ k > Len(A) /\ k - Len(A) \in 1..Len(M) /\ (a \o m)[k] = m[k - Len(A)]
    <3>1. /\ Len(a \o m) = Len(a) + Len(m) /\ DOMAIN (a \o m) = 1..(Len(a) + Len(m))
          /\ \A k \in 1..(Len(a) + Len(m)) :
               \/ k \in 1..Len(a) /\ (a \o m)[k] = a[k]
               \/ k > Len(a) /\ k - Len(a) \in 1..Len(m) /\ (a \o m)[k] = m[k - Len(a)]
      BY <2>3, Concatenated
    <3> QED
      BY <2>3, <3>1
  <2> QED
    BY <2>1, <2>2, <2>4
<1>10. DOMAIN told = 1..l /\ l \in Nat
  BY <1>4, <1>9, Concatenated
<1> HIDE DEF rows
<1>11. ASSUME NEW k \in 1..l
       PROVE  rows[k] \in DecodeTransaction(told[k]) /\ told[k] \in Range(told)
  <2>1. told[k] \in Range(told)
    BY <1>10 DEF Range
  <2>2. \/ k \in 1..Len(A) /\ told[k] = A[k]
        \/ k > Len(A) /\ k - Len(A) \in 1..Len(M) /\ told[k] = M[k - Len(A)]
    BY <1>4, <1>9, Concatenated
  <2>3. \/ k \in 1..Len(A) /\ rows[k] = page.added[k]
        \/ k > Len(A) /\ k - Len(A) \in 1..Len(M) /\ rows[k] = page.modified[k - Len(A)]
    BY <1>13
  <2>4. ~ (k \in 1..Len(A) /\ k > Len(A))
    BY <1>9
  <2> QED
    BY <1>7, <1>8, <2>1, <2>2, <2>3, <2>4
<1>12. \A k \in 1..l : /\ rows[k].raw = told[k] /\ Fits(rows[k], told[k]["transaction_id"])
                       /\ "transaction_id" \in DOMAIN told[k]
  BY <1>5, <1>11, TransactionFits
<1> QED
  BY <1>6, <1>10, <1>12, <1>13 DEF told, rows, Rows

-----------------------------------------------------------------------------
(* The transactions: what a batch leaves *)

Decodable(pages) ==
  \A i \in Items : /\ pages[i] \in Nat /\ pages[i] <= Len(Feed[i])
                   /\ \A n \in 1..pages[i] : Pages[i][n] # {}
Complete(table, pages) ==
  \A i \in Items : \A n \in 1..pages[i] : \A id : Tells(i, n, id) => id \in DOMAIN table
Right(table, pages) ==
  \A id \in DOMAIN table : /\ Fits(table[id], id)
                           /\ \E i \in Items : Serves(table[id], id, i, pages[i])

LEMMA OwnTransaction ==
  ASSUME NEW i \in Items, NEW n \in DOMAIN Feed[i], Pages[i][n] # {},
         NEW j \in Items, NEW m \in DOMAIN Feed[j], Pages[j][m] # {}, NEW id,
         Tells(i, n, id) \/ Drops(i, n, id), Tells(j, m, id) \/ Drops(j, m, id)
  PROVE  i = j
<1>1. ASSUME NEW k \in Items, NEW p \in DOMAIN Feed[k], Pages[k][p] # {},
             Tells(k, p, id) \/ Drops(k, p, id)
      PROVE  \E o \in Mentioned(k) : "transaction_id" \in DOMAIN o /\ o["transaction_id"] = id
  <2>1. PICK page \in Pages[k][p] : TRUE
    BY <1>1
  <2>2. /\ \A l \in DOMAIN Told[k][p] : "transaction_id" \in DOMAIN Told[k][p][l]
        /\ \A o \in Dropped[k][p] : "transaction_id" \in DOMAIN o
    BY PageGives
  <2>3. \A o \in Range(Told[k][p]) : "transaction_id" \in DOMAIN o
    BY <2>2 DEF Range
  <2>4. PICK o \in Range(Told[k][p]) \cup Dropped[k][p] : o["transaction_id"] = id
    BY <1>1 DEF Tells, Drops
  <2>5. o \in Mentioned(k)
    BY <2>4 DEF Mentioned
  <2> QED
    BY <2>2, <2>3, <2>4, <2>5
<1>2. PICK x \in Mentioned(i) : "transaction_id" \in DOMAIN x /\ x["transaction_id"] = id
  BY <1>1
<1>3. PICK y \in Mentioned(j) : "transaction_id" \in DOMAIN y /\ y["transaction_id"] = id
  BY <1>1
<1>4. Same(x, y, "transaction_id")
  BY <1>2, <1>3 DEF Same
<1> QED
  BY <1>4, PlaidsyncAssumption

(* What an item serves, one of its pages has told of. *)
LEMMA ServesTells ==
  ASSUME NEW t, NEW id, NEW i, NEW p, Fits(t, id), Serves(t, id, i, p)
  PROVE  \E n \in 1..p : Tells(i, n, id)
<1>1. PICK n \in 1..p : LastOf(i, n, t.raw)
  BY DEF Serves
<1>2. t.raw \in Range(Told[i][n]) /\ t.raw["transaction_id"] = id
  BY <1>1 DEF LastOf, Range, Fits
<1> QED
  BY <1>2 DEF Tells

LEMMA AppliedIs ==
  ASSUME NEW i \in Items, NEW f \in DOMAIN Feed[i], NEW page \in Pages[i][f], NEW table
  PROVE  LET after == Applied(table, page)
         IN  /\ \A id : id \in DOMAIN after <=> id \in DOMAIN table \/ Tells(i, f, id)
             /\ \A id \in DOMAIN after :
                  /\ Tells(i, f, id) => Fits(after[id], id) /\ LastOf(i, f, after[id].raw)
                  /\ ~Tells(i, f, id) => /\ after[id].raw = table[id].raw
                                         /\ after[id].row = table[id].row
                  /\ after[id].removed <=> \/ Drops(i, f, id)
                                           \/ id \in DOMAIN table /\ table[id].removed
<1> DEFINE up == Rows(page)
           told == Told[i][f]
           new == Keyed(up, "transaction_id")
           rows == Upserted(table, new)
           removed == {o["transaction_id"] : o \in Range(page.removed)}
           after == Applied(table, page)
<1>1. /\ Len(up) \in Nat /\ DOMAIN up = 1..Len(up) /\ DOMAIN told = DOMAIN up
      /\ \A k \in DOMAIN up : up[k].raw = told[k] /\ Fits(up[k], told[k]["transaction_id"])
      /\ Range(page.removed) = Dropped[i][f]
  BY PageGives
<1> HIDE DEF up
<1>2. IsKeyed(new, up, DOMAIN up, "transaction_id")
  BY <1>1, KeyedIs DEF Keyed
<1> HIDE DEF new
<1>3. \A k \in DOMAIN up : up[k].row["transaction_id"] = told[k]["transaction_id"]
  BY <1>1 DEF Fits
<1>4. \A id : id \in DOMAIN new <=> Tells(i, f, id)
  <2>1. DOMAIN new = {up[k].row["transaction_id"] : k \in DOMAIN up}
    BY <1>2 DEF IsKeyed
  <2> QED
    BY <1>1, <1>3, <2>1 DEF Tells, Range
<1>5. ASSUME NEW id \in DOMAIN new
      PROVE  Fits(new[id], id) /\ LastOf(i, f, new[id].raw)
  <2>1. PICK k \in DOMAIN up : /\ new[id] = up[k] /\ up[k].row["transaction_id"] = id
                               /\ \A m \in DOMAIN up : up[m].row["transaction_id"] = id => m <= k
    BY <1>2 DEF IsKeyed
  <2>2. new[id].raw = told[k] /\ told[k]["transaction_id"] = id
    BY <1>1, <1>3, <2>1
  <2>3. \A m \in DOMAIN told : told[m]["transaction_id"] = id => m <= k
    BY <1>1, <1>3, <2>1
  <2>4. LastOf(i, f, new[id].raw)
    BY <1>1, <2>2, <2>3 DEF LastOf
  <2> QED
    BY <1>1, <2>1, <2>2, <2>4
<1>6. /\ DOMAIN rows = DOMAIN table \cup DOMAIN new
      /\ \A id \in DOMAIN rows : rows[id] = IF id \in DOMAIN new THEN new[id] ELSE table[id]
  BY DEF Upserted
<1> HIDE DEF rows
<1>7. /\ DOMAIN after = DOMAIN rows
      /\ \A id \in DOMAIN after :
           after[id] = [raw |-> rows[id].raw, row |-> rows[id].row,
                        removed |-> id \in removed \/ (id \in DOMAIN table /\ table[id].removed)]
  BY DEF Applied, rows, new, up, Rows
<1> HIDE DEF after
<1>8. \A id : id \in removed <=> Drops(i, f, id)
  BY <1>1 DEF Drops
<1> HIDE DEF removed
<1>9. ASSUME NEW id \in DOMAIN after
      PROVE  /\ after[id].raw = rows[id].raw /\ after[id].row = rows[id].row
             /\ after[id].removed <=> id \in removed \/ (id \in DOMAIN table /\ table[id].removed)
  <2> DEFINE gone == id \in removed \/ (id \in DOMAIN table /\ table[id].removed)
  <2>1. after[id] = [raw |-> rows[id].raw, row |-> rows[id].row, removed |-> gone]
    BY <1>7
  <2> HIDE DEF gone
  <2>2. after[id].raw = rows[id].raw /\ after[id].row = rows[id].row /\ after[id].removed = gone
    BY <2>1
  <2>3. after[id].removed <=> gone
    BY <2>2
  <2> QED
    BY <2>2, <2>3 DEF gone
<1>10. ASSUME NEW id \in DOMAIN after, Tells(i, f, id)
       PROVE  Fits(after[id], id) /\ LastOf(i, f, after[id].raw)
  <2>1. id \in DOMAIN new /\ rows[id] = new[id]
    BY <1>4, <1>6, <1>7, <1>10
  <2>2. after[id].raw = new[id].raw /\ after[id].row = new[id].row
    BY <1>9, <2>1
  <2>3. Fits(new[id], id) /\ LastOf(i, f, new[id].raw)
    BY <1>5, <2>1
  <2>4. Fits(after[id], id)
    BY <2>2, <2>3 DEF Fits
  <2> QED
    BY <2>2, <2>3, <2>4
<1>11. ASSUME NEW id \in DOMAIN after, ~Tells(i, f, id)
       PROVE  after[id].raw = table[id].raw /\ after[id].row = table[id].row
  BY <1>4, <1>6, <1>7, <1>9, <1>11
<1>12. \A id : id \in DOMAIN after <=> id \in DOMAIN table \/ Tells(i, f, id)
  BY <1>4, <1>6, <1>7
<1> QED
  BY <1>8, <1>9, <1>10, <1>11, <1>12 DEF after

(* A batch of the page that follows, or of the last one again, carries both  *)
(* facts over.                                                               *)
LEMMA AppliedServes ==
  ASSUME NEW i \in Items, NEW f \in DOMAIN Feed[i], NEW page \in Pages[i][f], NEW table,
         NEW pages, NEW pages2, Decodable(pages), Decodable(pages2),
         Complete(table, pages), Right(table, pages),
         f \in {pages[i], pages[i] + 1}, pages2[i] = f,
         \A j \in Items \ {i} : pages2[j] = pages[j]
  PROVE  Complete(Applied(table, page), pages2) /\ Right(Applied(table, page), pages2)
<1> DEFINE after == Applied(table, page)
           q == pages[i]
<1>1. /\ \A id : id \in DOMAIN after <=> id \in DOMAIN table \/ Tells(i, f, id)
      /\ \A id \in DOMAIN after :
           /\ Tells(i, f, id) => Fits(after[id], id) /\ LastOf(i, f, after[id].raw)
           /\ ~Tells(i, f, id) => /\ after[id].raw = table[id].raw
                                  /\ after[id].row = table[id].row
           /\ after[id].removed <=> \/ Drops(i, f, id)
                                    \/ id \in DOMAIN table /\ table[id].removed
  BY AppliedIs
<1> HIDE DEF after
<1>2. q \in Nat /\ f \in Nat /\ q <= f /\ f >= 1 /\ \A n \in 1..f : n = f \/ n \in 1..q
  <2>1. q \in Nat
    BY DEF Decodable
  <2>2. f >= 1
    BY Answerable
  <2> QED
    BY <2>1, <2>2
<1>3. Complete(after, pages2)
  <2> SUFFICES ASSUME NEW j \in Items, NEW n \in 1..pages2[j], NEW id, Tells(j, n, id)
               PROVE  id \in DOMAIN after
    BY DEF Complete
  <2>1. CASE j = i
    <3>1. n = f \/ n \in 1..q
      BY <1>2, <2>1
    <3> QED
      BY <1>1, <2>1, <3>1 DEF Complete
  <2>2. CASE j # i
    BY <1>1, <2>2 DEF Complete
  <2> QED
    BY <2>1, <2>2
(* Who has told of a transaction that the page names is the item. *)
<1>4. ASSUME NEW id, Tells(i, f, id) \/ Drops(i, f, id), NEW j \in Items, NEW n \in 1..pages[j],
             Tells(j, n, id)
      PROVE  j = i
  <2>1. n \in DOMAIN Feed[j] /\ Pages[j][n] # {}
    BY Answerable DEF Decodable
  <2> QED
    BY <1>4, <2>1, OwnTransaction
<1>5. ASSUME NEW id \in DOMAIN table
      PROVE  \E j \in Items : /\ Serves(table[id], id, j, pages[j])
                              /\ \E n \in 1..pages[j] : Tells(j, n, id)
                              /\ Tells(i, f, id) \/ Drops(i, f, id) => j = i
  <2>1. PICK j \in Items : Serves(table[id], id, j, pages[j])
    BY DEF Right
  <2>2. Fits(table[id], id)
    BY DEF Right
  <2> QED
    BY <1>4, <2>1, <2>2, ServesTells
<1>6. ASSUME NEW id \in DOMAIN after, Tells(i, f, id)
      PROVE  Serves(after[id], id, i, f)
  <2>1. \A m \in (f + 1)..f : ~Tells(i, m, id)
    BY <1>2
  <2>2. f \in 1..f /\ LastOf(i, f, after[id].raw)
    BY <1>1, <1>2, <1>6
  <2>3. ASSUME after[id].removed
        PROVE  \E n \in 1..f : Drops(i, n, id) /\ \E m \in 1..n : Tells(i, m, id)
    <3>1. CASE Drops(i, f, id)
      BY <1>6, <2>2, <3>1
    <3>2. CASE id \in DOMAIN table /\ table[id].removed
      <4>1. Serves(table[id], id, i, q)
        BY <1>5, <1>6, <3>2
      <4>2. PICK n \in 1..q : Drops(i, n, id) /\ \E m \in 1..n : Tells(i, m, id)
        BY <3>2, <4>1 DEF Serves
      <4>3. n \in 1..f
        BY <1>2
      <4> QED
        BY <4>2, <4>3
    <3> QED
      BY <1>1, <2>3, <3>1, <3>2
  <2>4. ASSUME NEW n \in 1..f, Drops(i, n, id), NEW m \in 1..n, Tells(i, m, id)
        PROVE  after[id].removed
    <3>1. CASE n = f
      BY <1>1, <2>4, <3>1
    <3>2. CASE n # f
      <4>1. n \in 1..q /\ m \in 1..q
        BY <1>2, <3>2
      <4>2. id \in DOMAIN table
        BY <2>4, <4>1 DEF Complete
      <4>3. Serves(table[id], id, i, q)
        BY <1>5, <1>6, <4>2
      <4>4. table[id].removed
        BY <2>4, <4>1, <4>3 DEF Serves
      <4> QED
        BY <1>1, <4>2, <4>4
    <3> QED
      BY <3>1, <3>2
  <2> QED
    BY <2>1, <2>2, <2>3, <2>4 DEF Serves
<1>7. ASSUME NEW id \in DOMAIN after, ~Tells(i, f, id)
      PROVE  Fits(after[id], id) /\ \E j \in Items : Serves(after[id], id, j, pages2[j])
  <2>1. id \in DOMAIN table /\ after[id].raw = table[id].raw /\ after[id].row = table[id].row
    BY <1>1, <1>7
  <2>2. Fits(after[id], id)
    BY <2>1 DEF Right, Fits
  <2>3. PICK j \in Items : /\ Serves(table[id], id, j, pages[j])
                           /\ \E n \in 1..pages[j] : Tells(j, n, id)
                           /\ Drops(i, f, id) => j = i
    BY <1>5, <2>1
  <2>4. CASE j # i
    <3>1. after[id].removed <=> table[id].removed
      BY <1>1, <2>1, <2>3, <2>4
    <3>2. Serves(after[id], id, j, pages2[j])
      BY <2>1, <2>3, <2>4, <3>1 DEF Serves
    <3> QED
      BY <2>2, <3>2
  <2>5. CASE j = i
    <3>1. PICK n \in 1..q : LastOf(i, n, table[id].raw) /\ \A m \in (n + 1)..q : ~Tells(i, m, id)
      BY <2>3, <2>5 DEF Serves
    <3>2. n \in 1..f /\ \A m \in (n + 1)..f : m = f \/ m \in (n + 1)..q
      BY <1>2
    <3>3. \A m \in (n + 1)..f : ~Tells(i, m, id)
      BY <1>7, <3>1, <3>2
    <3>4. PICK l \in 1..q : Tells(i, l, id)
      BY <2>3, <2>5
    <3>5. ASSUME after[id].removed
          PROVE  \E k \in 1..f : Drops(i, k, id) /\ \E m \in 1..k : Tells(i, m, id)
      <4>1. CASE Drops(i, f, id)
        <5>1. f \in 1..f /\ l \in 1..f
          BY <1>2
        <5> QED
          BY <3>4, <4>1, <5>1
      <4>2. CASE table[id].removed
        <5>1. PICK k \in 1..q : Drops(i, k, id) /\ \E m \in 1..k : Tells(i, m, id)
          BY <2>3, <2>5, <4>2 DEF Serves
        <5>2. k \in 1..f
          BY <1>2
        <5> QED
          BY <5>1, <5>2
      <4> QED
        BY <1>1, <3>5, <4>1, <4>2
    <3>6. ASSUME NEW k \in 1..f, Drops(i, k, id), NEW m \in 1..k, Tells(i, m, id)
          PROVE  after[id].removed
      <4>1. CASE k = f
        BY <1>1, <3>6, <4>1
      <4>2. CASE k # f
        <5>1. k \in 1..q
          BY <1>2, <4>2
        <5>2. table[id].removed
          BY <2>3, <2>5, <3>6, <5>1 DEF Serves
        <5> QED
          BY <1>1, <2>1, <5>2
      <4> QED
        BY <4>1, <4>2
    <3>7. Serves(after[id], id, i, f)
      BY <2>1, <3>1, <3>2, <3>3, <3>5, <3>6 DEF Serves
    <3> QED
      BY <2>2, <3>7
  <2> QED
    BY <2>4, <2>5
<1>8. Right(after, pages2)
  BY <1>1, <1>6, <1>7 DEF Right
<1> QED
  BY <1>3, <1>8 DEF after

-----------------------------------------------------------------------------
(* The transactions: the inductive invariant *)

Cursors == [i \in Items |-> item[i].pages]
RowsInv ==
  /\ StreamsInv /\ Decodable(Cursors)
  /\ Complete(ledger, Cursors) /\ Right(ledger, Cursors) /\ Referenced(ledger, accounts)

LEMMA RowsServed == RowsInv => RowsAsServed
<1> SUFFICES ASSUME RowsInv
             PROVE  RowsAsServed
  OBVIOUS
<1>1. \A i \in Items : Cursors[i] = item[i].pages
  BY DEF Cursors
<1>2. ASSUME NEW i \in Items, NEW n \in 1..item[i].pages, NEW o \in Range(Told[i][n])
      PROVE  o["transaction_id"] \in DOMAIN ledger
  <2>1. Tells(i, n, o["transaction_id"])
    BY DEF Tells
  <2> QED
    BY <1>1, <2>1 DEF RowsInv, Complete
<1>3. ASSUME NEW id \in DOMAIN ledger
      PROVE  /\ Fits(ledger[id], id) /\ \E i \in Items : Serves(ledger[id], id, i, item[i].pages)
             /\ ledger[id].row.account_id \in DOMAIN accounts
  BY <1>1 DEF RowsInv, Right, Referenced
<1> QED
  BY <1>2, <1>3 DEF RowsAsServed

(* A page stored from nothing. *)
LEMMA FirstRowsServe ==
  ASSUME NEW i \in Storable
  PROVE  /\ \A id : Tells(i, 1, id) => id \in DOMAIN FirstRows(i)
         /\ \A id \in DOMAIN FirstRows(i) : /\ Fits(FirstRows(i)[id], id)
                                            /\ Serves(FirstRows(i)[id], id, i, 1)
         /\ Referenced(FirstRows(i), FirstAccounts(i))
<1> DEFINE none == [j \in Items |-> 0]
           one == [none EXCEPT ![i] = 1]
<1>1. i \in Items /\ Pages[i][1] # {} /\ Referenced(FirstRows(i), FirstAccounts(i))
  BY DEF Storable
<1>2. PICK page \in Pages[i][1] : FirstRows(i) = Applied(Empty, page)
  BY <1>1 DEF FirstRows
<1>3. /\ \A j \in Items : none[j] = 0 /\ one[j] = IF j = i THEN 1 ELSE 0
      /\ 1..0 = {} /\ 1..1 = {1}
  BY <1>1
<1> HIDE DEF none, one
<1>4. 1 \in DOMAIN Feed[i]
  BY <1>1, Answerable
<1>5. Decodable(none) /\ Decodable(one)
  BY <1>1, <1>3, Answerable DEF Decodable
<1>6. Complete(Empty, none) /\ Right(Empty, none)
  BY <1>3 DEF Complete, Right, Empty
<1>7. Complete(FirstRows(i), one) /\ Right(FirstRows(i), one)
  BY <1>1, <1>2, <1>3, <1>4, <1>5, <1>6, AppliedServes
<1>8. ASSUME NEW id \in DOMAIN FirstRows(i)
      PROVE  Serves(FirstRows(i)[id], id, i, 1)
  <2>1. PICK j \in Items : Serves(FirstRows(i)[id], id, j, one[j])
    BY <1>7 DEF Right
  <2>2. j = i
    BY <1>3, <2>1 DEF Serves
  <2> QED
    BY <1>3, <2>1, <2>2
<1>9. \A id : Tells(i, 1, id) => id \in DOMAIN FirstRows(i)
  BY <1>1, <1>3, <1>7 DEF Complete
<1> QED
  BY <1>1, <1>7, <1>8, <1>9 DEF Right

LEMMA InitHasRows == Init => RowsInv
<1> SUFFICES ASSUME Init
             PROVE  RowsInv
  OBVIOUS
<1>1. StreamsInv
  BY InitHasStreams
<1>2. PICK synced \in {{}, Storable} :
        /\ item = [i \in Items |-> IF i \in synced THEN [NewItem EXCEPT !.pages = 1] ELSE NewItem]
        /\ accounts = Joint([i \in synced |-> FirstAccounts(i)])
        /\ ledger = Joint([i \in synced |-> FirstRows(i)])
  BY DEF Init
<1>3. /\ synced \subseteq Storable /\ Storable \subseteq Items
      /\ \A i \in synced : Pages[i][1] # {}
  BY DEF Storable
<1>4. /\ \A i \in synced : Cursors[i] = 1
      /\ \A i \in Items \ synced : Cursors[i] = 0
      /\ 1..0 = {} /\ 1..1 = {1}
  BY <1>2, <1>3 DEF NewItem, Cursors
<1>5. Decodable(Cursors)
  BY <1>3, <1>4, Answerable DEF Decodable
<1>6. ASSUME NEW id
      PROVE  /\ id \in DOMAIN ledger <=> \E i \in synced : id \in DOMAIN FirstRows(i)
             /\ id \in DOMAIN ledger =>
                  \E i \in synced : id \in DOMAIN FirstRows(i) /\ ledger[id] = FirstRows(i)[id]
  <2> DEFINE of == [i \in synced |-> FirstRows(i)]
  <2>1. DOMAIN of = synced /\ \A i \in synced : of[i] = FirstRows(i)
    OBVIOUS
  <2> HIDE DEF of
  <2>2. id \in DOMAIN ledger <=> \E i \in synced : id \in DOMAIN of[i]
    BY <1>2, <2>1 DEF Joint, of
  <2>3. ASSUME id \in DOMAIN ledger
        PROVE  \E i \in synced : id \in DOMAIN of[i] /\ ledger[id] = of[i][id]
    BY <1>2, <2>1, <2>3 DEF Joint, of
  <2> QED
    BY <2>1, <2>2, <2>3
<1>7. \A i \in synced : DOMAIN FirstAccounts(i) \subseteq DOMAIN accounts
  BY <1>2 DEF Joint
<1>8. Complete(ledger, Cursors)
  <2> SUFFICES ASSUME NEW i \in Items, NEW n \in 1..Cursors[i], NEW id, Tells(i, n, id)
               PROVE  id \in DOMAIN ledger
    BY DEF Complete
  <2>1. i \in synced /\ n = 1
    BY <1>4
  <2> QED
    BY <1>3, <1>6, <2>1, FirstRowsServe
<1>9. Right(ledger, Cursors)
  <2> SUFFICES ASSUME NEW id \in DOMAIN ledger
               PROVE  /\ Fits(ledger[id], id)
                      /\ \E i \in Items : Serves(ledger[id], id, i, Cursors[i])
    BY DEF Right
  <2>1. PICK i \in synced : id \in DOMAIN FirstRows(i) /\ ledger[id] = FirstRows(i)[id]
    BY <1>6
  <2> QED
    BY <1>3, <1>4, <2>1, FirstRowsServe
<1>10. Referenced(ledger, accounts)
  <2> SUFFICES ASSUME NEW id \in DOMAIN ledger
               PROVE  ledger[id].row.account_id \in DOMAIN accounts
    BY DEF Referenced
  <2>1. PICK i \in synced : id \in DOMAIN FirstRows(i) /\ ledger[id] = FirstRows(i)[id]
    BY <1>6
  <2>2. Referenced(FirstRows(i), FirstAccounts(i))
    BY <1>3, FirstRowsServe
  <2> QED
    BY <1>7, <2>1, <2>2 DEF Referenced
<1> QED
  BY <1>1, <1>5, <1>8, <1>9, <1>10 DEF RowsInv

(* Only a sync moves a cursor or writes an account or a transaction. *)
LEMMA OthersWriteNoRows ==
  ASSUME StreamsInv, [Next]_vars, \A w \in Workers, i \in Triggered : ~Sync(w, i)
  PROVE  UNCHANGED <<accounts, ledger>> /\ Cursors' = Cursors
<1>1. item \in [Items -> [cred : BOOLEAN, pages : Nat, checked : BOOLEAN, refreshed : BOOLEAN]]
  BY DEF StreamsInv, Shaped
<1>2. CASE UNCHANGED tables
  BY <1>2 DEF tables, Cursors
<1>3. CASE \E r \in Refreshers : Commit(r) \/ RecordFailure(r)
  <2>1. PICK r \in Refreshers : Commit(r) \/ RecordFailure(r)
    BY <1>3
  <2>2. UNCHANGED <<accounts, ledger>>
    BY <2>1 DEF Commit, RecordFailure
  <2>3. \/ item' = item
        \/ item' = [item EXCEPT ![job[r].item].checked = TRUE]
        \/ item' = [item EXCEPT ![job[r].item].checked = TRUE, ![job[r].item].refreshed = TRUE]
    BY <2>1 DEF Commit, RecordFailure
  <2>4. \A j \in Items : item'[j].pages = item[j].pages
    BY <1>1, <2>3
  <2> QED
    BY <2>2, <2>4 DEF Cursors
<1>4. CASE \E i \in Triggered : RemoveItem(i)
  <2>1. PICK i \in Triggered : item' = [item EXCEPT ![i].cred = FALSE]
    BY <1>4 DEF RemoveItem
  <2>2. UNCHANGED <<accounts, ledger>>
    BY <1>4 DEF RemoveItem
  <2>3. \A j \in Items : item'[j].pages = item[j].pages
    BY <1>1, <2>1
  <2> QED
    BY <2>2, <2>3 DEF Cursors
<1>5. \/ UNCHANGED tables
      \/ \E r \in Refreshers : Commit(r) \/ RecordFailure(r)
      \/ \E i \in Triggered : RemoveItem(i)
  <2>1. CASE UNCHANGED vars
    BY <2>1 DEF vars
  <2>2. CASE Start \/ Process \/ ServerFails \/ Signal \/ Kill \/ ListDue \/ SweepNext
    BY <2>2 DEF Start, Process, StartupFails, RunnerStarts, Drain, Exit, Requeue, RunnerStops,
                ServerFails, Signal, Kill, ListDue, SweepNext
  <2>3. CASE \E r \in Refreshers : Refresh(r)
    BY <2>3 DEF Refresh, ReadCredential, AskPlaid, Replace, StoreFails, Interrupted
  <2>4. CASE \E i \in Triggered : PlaidChanges(i) \/ RemoveItem(i)
    BY <2>4 DEF PlaidChanges
  <2> QED
    BY <2>1, <2>2, <2>3, <2>4 DEF Next
<1> QED
  BY <1>2, <1>3, <1>4, <1>5

LEMMA SyncKeepsRows ==
  ASSUME RowsInv, StreamsInv', NEW w \in Workers, NEW i \in Triggered, Sync(w, i)
  PROVE  RowsInv'
<1>1. PICK f : f = Following(i)
  OBVIOUS
<1>2. PICK page \in Pages[i][f] : /\ ledger' = Applied(ledger, page)
                                  /\ Referenced(ledger', accounts')
  BY <1>1, FaultsDecodeToNothing DEF Sync, Success
<1>3. /\ i \in Items /\ item' = [item EXCEPT ![i].pages = f]
      /\ item \in [Items -> [cred : BOOLEAN, pages : Nat, checked : BOOLEAN, refreshed : BOOLEAN]]
  BY <1>1, PlaidsyncAssumption DEF Sync, Success, RowsInv, StreamsInv, Shaped
<1>4. f \in DOMAIN Feed[i] /\ f \in {item[i].pages, item[i].pages + 1}
  <2>1. item[i].pages \in Nat /\ item[i].pages <= Len(Feed[i])
    BY <1>3 DEF RowsInv, StreamsInv, Shaped
  <2>2. Len(Feed[i]) \in Nat /\ Len(Feed[i]) >= 1 /\ DOMAIN Feed[i] = 1..Len(Feed[i])
    BY <1>3, Answerable
  <2> QED
    BY <1>1, <2>1, <2>2 DEF Following
<1>5. Cursors'[i] = f /\ \A j \in Items \ {i} : Cursors'[j] = Cursors[j]
  BY <1>3 DEF Cursors
<1>6. Decodable(Cursors')
  <2> SUFFICES ASSUME NEW j \in Items
               PROVE  /\ Cursors'[j] \in Nat /\ Cursors'[j] <= Len(Feed[j])
                      /\ \A n \in 1..Cursors'[j] : Pages[j][n] # {}
    BY DEF Decodable
  <2>1. CASE j = i
    <3>1. f \in 1..Len(Feed[i]) /\ Len(Feed[i]) \in Nat
      BY <1>3, <1>4, Answerable
    <3>2. \A n \in 1..f : n = f \/ n \in 1..item[i].pages
      <4>1. item[i].pages \in Nat
        BY <1>3
      <4> QED
        BY <1>4, <3>1, <4>1
    <3>3. \A n \in 1..item[i].pages : Pages[i][n] # {}
      BY <1>3 DEF RowsInv, Decodable, Cursors
    <3> QED
      BY <1>2, <1>5, <2>1, <3>1, <3>2, <3>3
  <2>2. CASE j # i
    BY <1>5, <2>2 DEF RowsInv, Decodable
  <2> QED
    BY <2>1, <2>2
<1>7. f \in {Cursors[i], Cursors[i] + 1}
  BY <1>3, <1>4 DEF Cursors
<1>8. Complete(ledger', Cursors') /\ Right(ledger', Cursors')
  BY <1>2, <1>3, <1>4, <1>5, <1>6, <1>7, AppliedServes DEF RowsInv
<1> QED
  BY <1>2, <1>6, <1>8 DEF RowsInv

LEMMA StepKeepsRows == RowsInv /\ [Next]_vars => RowsInv'
<1> SUFFICES ASSUME RowsInv, [Next]_vars
             PROVE  RowsInv'
  OBVIOUS
<1>1. StreamsInv'
  BY StepKeepsStreams DEF RowsInv
<1>2. CASE \E w \in Workers, i \in Triggered : Sync(w, i)
  BY <1>1, <1>2, SyncKeepsRows
<1>3. CASE \A w \in Workers, i \in Triggered : ~Sync(w, i)
  <2>1. UNCHANGED <<accounts, ledger>> /\ Cursors' = Cursors
    BY <1>3, OthersWriteNoRows DEF RowsInv
  <2> QED
    BY <1>1, <2>1 DEF RowsInv, Decodable, Complete, Right, Referenced
<1> QED
  BY <1>2, <1>3

(* Whatever calls fail or come garbled, the transactions stored are those of *)
(* the pages up to the cursors, each as it was told of last, to the last      *)
(* digit of the amount, and for ever removed once a page has removed it       *)
(* (DecodeTransaction, ApplySyncBatch).                                       *)
THEOREM RowsAreExact == Spec => []RowsAsServed
BY RowsServed, InitHasRows, StepKeepsRows, PTL DEF Spec
=============================================================================
