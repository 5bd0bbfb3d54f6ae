------------------------------ MODULE PlaidClient ------------------------------
(***************************************************************************)
(* What plaidsync makes of an answer of Plaid (internal/plaid): a call      *)
(* fails, or its body is decoded, whole or not at all, into the rows of the *)
(* store.                                                                   *)
(*                                                                         *)
(* A JSON object is a function from the names of its fields; a field that  *)
(* is null is absent.  BAD is a value of the wrong JSON type, or one that  *)
(* does not parse: a date that is not on the calendar, a time that is not  *)
(* RFC 3339, a number beyond the exponents money.Parse takes.  An amount   *)
(* is a number of millionths, the finest the store takes, so that binary    *)
(* noise is the last digit.                                                *)
(*                                                                         *)
(* A decoder is a partial function: {} where it fails, else the one result. *)
(***************************************************************************)
EXTENDS Integers, Sequences, SequencesExt

CONSTANTS BAD,
          NULL

(* TRUE where a field is absent, as it is in the Go struct. *)
Field(o, f) == IF f \in DOMAIN o THEN o[f] ELSE NULL
Given(o, f) == f \in DOMAIN o /\ o[f] # ""
Unchecked(o, fields) == TRUE   \* mutant: a conversion's error is dropped
Readable(o, fields) == \A f \in fields : Field(o, f) # BAD

(* Column <- field, for the fields that are copied. *)
Row(o, fields) == [c \in DOMAIN fields |-> Field(o, fields[c])]
FieldsOf(fields) == {fields[c] : c \in DOMAIN fields}

(* A list is decoded object by object; one that fails fails the list. *)
DecodeAll(Decode(_), raws) ==
  IF \E i \in DOMAIN raws : Decode(raws[i]) = {} THEN {}
  ELSE {[i \in DOMAIN raws |-> CHOOSE row \in Decode(raws[i]) : TRUE]}

(* Array members of a body; an absent one is empty. *)
Member(body, f) == IF f \in DOMAIN body THEN body[f] ELSE <<>>

-----------------------------------------------------------------------------
(* Objects *)

AccountFields ==
  [account_id |-> "account_id", name |-> "name", official_name |-> "official_name",
   mask |-> "mask", type |-> "type", subtype |-> "subtype",
   current_balance |-> "balances.current", available_balance |-> "balances.available",
   credit_limit |-> "balances.limit", iso_currency_code |-> "balances.iso_currency_code",
   unofficial_currency_code |-> "balances.unofficial_currency_code",
   balance_last_updated_at |-> "balances.last_updated_datetime"]

DecodeAccount(o) ==
  IF Readable(o, FieldsOf(AccountFields)) /\ \A f \in {"account_id", "name", "type"} : Given(o, f)
  THEN {[raw |-> o, row |-> Row(o, AccountFields)]} ELSE {}

TransactionFields ==
  [transaction_id |-> "transaction_id", account_id |-> "account_id", amount |-> "amount",
   iso_currency_code |-> "iso_currency_code",
   unofficial_currency_code |-> "unofficial_currency_code",
   date |-> "date", authorized_date |-> "authorized_date",
   datetime |-> "datetime", authorized_datetime |-> "authorized_datetime",
   name |-> "name", merchant_name |-> "merchant_name", merchant_entity_id |-> "merchant_entity_id",
   pending |-> "pending", pending_transaction_id |-> "pending_transaction_id",
   payment_channel |-> "payment_channel", transaction_code |-> "transaction_code",
   pfc_primary |-> "personal_finance_category.primary",
   pfc_detailed |-> "personal_finance_category.detailed",
   pfc_confidence |-> "personal_finance_category.confidence_level"]

DecodeTransaction(o) ==
  IF /\ Readable(o, FieldsOf(TransactionFields))
     /\ \A f \in {"transaction_id", "account_id", "name"} : Given(o, f)
     /\ {"amount", "date"} \subseteq DOMAIN o
  THEN {[raw |-> o, row |-> [Row(o, TransactionFields) EXCEPT
                               !.pending = IF @ = NULL THEN FALSE ELSE @]]} ELSE {}

(* decodeCents: what Plaid computes is rounded to cents, halves away from   *)
(* zero.                                                                    *)
Cent == 10000
Cents(n) ==
  IF n = NULL THEN NULL
  ELSE LET Rounded(m) == ((2 * m + Cent) \div (2 * Cent)) * Cent
       IN  IF n < 0 THEN -Rounded(-n) ELSE Rounded(n)

StreamFields ==
  [stream_id |-> "stream_id", account_id |-> "account_id", description |-> "description",
   merchant_name |-> "merchant_name", frequency |-> "frequency", first_date |-> "first_date",
   last_date |-> "last_date", predicted_next_date |-> "predicted_next_date",
   average_amount |-> "average_amount.amount", last_amount |-> "last_amount.amount",
   iso_currency_code |-> "average_amount.iso_currency_code",
   unofficial_currency_code |-> "average_amount.unofficial_currency_code",
   is_active |-> "is_active", status |-> "status", transaction_ids |-> "transaction_ids",
   pfc_primary |-> "personal_finance_category.primary",
   pfc_detailed |-> "personal_finance_category.detailed"]

Unknown(v) == IF v \in {NULL, ""} THEN "UNKNOWN" ELSE v

DecodeRecurringStream(o, direction) ==
  IF /\ Readable(o, FieldsOf(StreamFields))
     /\ \A f \in {"stream_id", "account_id"} : Given(o, f)
     /\ {"first_date", "last_date"} \subseteq DOMAIN o
  THEN {[raw |-> o, direction |-> direction,
         row |-> [Row(o, StreamFields) EXCEPT
                    !.frequency = Unknown(@), !.status = Unknown(@),
                    !.is_active = IF @ = NULL THEN FALSE ELSE @,
                    !.transaction_ids = IF @ = NULL THEN <<>> ELSE @,
                    !.average_amount = Cents(@), !.last_amount = Cents(@)]]} ELSE {}

-----------------------------------------------------------------------------
(* Bodies *)

DecodeAccountsGet(body) == DecodeAll(DecodeAccount, Member(body, "accounts"))

(* The accounts of a page are decoded, and not used (SyncItem takes those   *)
(* of /accounts/get).                                                       *)
DecodeSyncPage(body) ==
  {[added |-> added, modified |-> modified, removed |-> Member(body, "removed")] :
     added \in DecodeAll(DecodeTransaction, Member(body, "added")),
     modified \in {m \in DecodeAll(DecodeTransaction, Member(body, "modified")) :
                     /\ DecodeAccountsGet(body) # {}
                     /\ \A i \in DOMAIN Member(body, "removed") :
                          Given(body.removed[i], "transaction_id")}}

DecodeStreams(list, direction) == DecodeAll(LAMBDA o : DecodeRecurringStream(o, direction), list)
DecodeRecurringGet(body) ==
  {inflow \o outflow : inflow \in DecodeStreams(Member(body, "inflow_streams"), "inflow"),
                       outflow \in DecodeStreams(Member(body, "outflow_streams"), "outflow")}

-----------------------------------------------------------------------------
(* Calls.  An answer is [kind |-> "body", body |-> ...]; "refused", with or *)
(* without an error object that DecodeError reads; "network", "deadline" or *)
(* "canceled"; or "torn", a body that cannot be read to its end.            *)

Result(Decode(_), answer) == IF answer.kind = "body" THEN Decode(answer.body) ELSE {}

SyncTransactions(answer) == Result(DecodeSyncPage, answer)
GetAccounts(answer) == Result(DecodeAccountsGet, answer)
GetRecurringTransactions(answer) == Result(DecodeRecurringGet, answer)
================================================================================
