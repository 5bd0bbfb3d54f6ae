------------------------------ MODULE AtomicFeed ------------------------------
(***************************************************************************)
(* What the sync engine promises of one item, whatever runs, fails or      *)
(* crashes: the rows stored are exactly those of the history up to the     *)
(* saved cursor, and both move forward together or not at all              *)
(* ("Cursor and rows are atomic", plaid-backend-golang/README.md).         *)
(***************************************************************************)
EXTENDS Naturals

CONSTANT NULL           \* the cursor of an item that has never synced

VARIABLES published,    \* how many events Plaid's history has
          cursor,       \* plaid_items.cursor: how many events it has consumed, or NULL
          applied       \* the events whose rows are stored

feedVars == <<published, cursor, applied>>

Position(c) == IF c = NULL THEN 0 ELSE c

FeedInit == published = 0 /\ cursor = NULL /\ applied = {}

Publish == published' = published + 1 /\ UNCHANGED <<cursor, applied>>

Advance ==
  \E to \in Position(cursor)..published :
    cursor' = to /\ applied' = 1..to /\ UNCHANGED published

FeedNext == Publish \/ Advance

FeedSpec == FeedInit /\ [][FeedNext]_feedVars
=============================================================================
