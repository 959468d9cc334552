------------------------------- MODULE Handoff -------------------------------
(***************************************************************************)
(* A backfill and a frontfill over one chain: the operator backfills the   *)
(* blocks up to one of them and runs frontfill, again and again, with the  *)
(* start block after it or with none.  The process is Frontfill; its       *)
(* provider hands out the logs of the chain from the place where           *)
(* build_filter of src/frontfill.rs starts, in their order.  The backfill  *)
(* is what OkMeansComplete of Backfill promises of it.                     *)
(*                                                                         *)
(* The chain and the providers are external.  A chain does not reorganise. *)
(* A provider may or may not replay the blocks before the head to a new    *)
(* subscription.  The client library may subscribe again on its own, and   *)
(* skips logs in silence when the loop lags behind.                        *)
(*                                                                         *)
(* A definition marked Mutant is not part of the model: it is a bug, put   *)
(* in the place of the definition after it to see a property fail.         *)
(***************************************************************************)
EXTENDS FrontfillProperties

CONSTANTS
  Chain,        \* the sequence of the logs of the contracts, by block and index
  BackfillEnd,  \* the last block of the backfill, --end-block
  MaxHead,      \* bound of the model: the last block mined
  MaxSubscriptions  \* bound of the model: subscriptions, over all processes

ASSUME ChainAssumption ==
  /\ Chain \in Seq(Logs)
  /\ \A i, j \in DOMAIN Chain : i < j =>
       \/ Chain[i].block < Chain[j].block
       \/ Chain[i].block = Chain[j].block /\ Chain[i].index < Chain[j].index

ASSUME BackfillAssumption == BackfillEnd \in Nat

VARIABLES
  start_block,    \* Option<u64> of FrontfillConfig
  replays,        \* the provider replays from a filter's from_block
  head,           \* the last block mined
  backfilled,     \* the backfill has returned Ok
  cursor,         \* the place in Chain of the last log the stream has passed
  skipped,        \* history: places this subscription has skipped
  subscriptions   \* history: how many there were, over all processes

operatorVars == <<start_block, replays, backfilled>>
streamVars   == <<cursor, skipped, subscriptions>>
handoffVars  == <<operatorVars, head, streamVars>>
allVars      == <<vars, handoffVars>>

HandoffInit ==
  /\ Init
  /\ start_block \in {None, BackfillEnd + 1}
  /\ replays \in BOOLEAN
  /\ head = 0
  /\ backfilled = FALSE
  /\ cursor = 0
  /\ skipped = {}
  /\ subscriptions = 0

Before(block) == Cardinality({i \in DOMAIN Chain : Chain[i].block < block})

Mined == Before(head + 1)

\* Mutants: a filter that starts a block too late, and one too early.
BuildFilterAfter  == IF start_block = None THEN Mined ELSE Before(start_block + 1)
BuildFilterBefore == IF start_block = None THEN Mined ELSE Before(start_block - 1)

\* build_filter, as the number of logs before its first.
BuildFilter == IF start_block = None THEN Mined ELSE Before(start_block)

\* What has been mined is not delivered by a provider that does not replay.
Position == IF replays \/ BuildFilter > Mined THEN BuildFilter ELSE Mined

Subscribed ==
  /\ subscriptions < MaxSubscriptions
  /\ cursor' = Position
  /\ skipped' = {}
  /\ subscriptions' = subscriptions + 1
  /\ UNCHANGED <<operatorVars, head>>

Subscribe == Subscribed /\ SubscribeOk

\* The library has lost its connection, and subscribes again by itself.
Resubscribe == Subscribed /\ pc \in {"loop", "select"} /\ UNCHANGED vars

Deliver ==
  /\ cursor < Mined
  /\ Receive(Chain[cursor + 1])
  /\ cursor' = cursor + 1
  /\ UNCHANGED <<operatorVars, head, skipped, subscriptions>>

Lag ==
  /\ pc \in {"loop", "select"}
  /\ cursor < Mined
  /\ cursor' = cursor + 1
  /\ skipped' = skipped \union {cursor + 1}
  /\ UNCHANGED <<vars, operatorVars, head, subscriptions>>

\* Every other step of the process or of its operator.
Rest ==
  /\ Next
  /\ delivered' = delivered
  /\ ~(pc = "subscribe" /\ pc' = "loop")
  /\ UNCHANGED handoffVars

Mine ==
  /\ head < MaxHead
  /\ head' = head + 1
  /\ UNCHANGED <<vars, operatorVars, streamVars>>

\* A backfill of blocks that have all been mined returns Ok.
BackfillReturns ==
  /\ head >= BackfillEnd
  /\ ~backfilled
  /\ backfilled' = TRUE
  /\ UNCHANGED <<vars, start_block, replays, head, streamVars>>

HandoffNext ==
  Subscribe \/ Resubscribe \/ Deliver \/ Lag \/ Rest \/ Mine \/ BackfillReturns

HandoffSpec == HandoffInit /\ [][HandoffNext]_allVars

-----------------------------------------------------------------------------
\* The places of Chain of which a log is in the backfill's files.
BackfillPlaces ==
  {i \in DOMAIN Chain :
     backfilled /\ Chain[i].block <= BackfillEnd /\ Decoded(Chain[i])}

\* The rows of frontfill's files that were made of the log at place i.
RowsAt(i, names) == {r \in UNION {RowsOf(n) : n \in names} : delivered[r] = Chain[i]}

\* spec/0011_review-remediation-plan.md:13 has the start block make the handoff
\* from backfill safe.  With it, and a provider that replays, each decodable log
\* of the chain up to where the stream is, but those it skipped, is in a file of
\* the backfill or in one that frontfill has closed or will close: across the
\* boundary, and after any reconnection, failure or crash and restart, although
\* rows of open files were lost in it.
HandoffIsComplete ==
  (backfilled /\ start_block # None /\ replays /\ Streaming) =>
    \A i \in 1 .. (IF InHand THEN cursor - 1 ELSE cursor) \ skipped :
      Decoded(Chain[i]) =>
        i \in BackfillPlaces \/ RowsAt(i, KeptFiles) # {}

\* No log is in the files of both, if frontfill has a start block.  In those of
\* frontfill a log that was not replayed is once, over all processes; one that
\* was may be there once for each subscription.
RepeatsAreOfReplays ==
  \A i \in DOMAIN Chain :
    /\ start_block # None /\ i \in BackfillPlaces => RowsAt(i, DOMAIN files) = {}
    /\ Cardinality(RowsAt(i, DOMAIN files)) <=
         (IF start_block # None /\ replays THEN subscriptions ELSE 1)
-----------------------------------------------------------------------------
(* What makes them inductive, besides IndInv and KeepInv of the process *)

HandoffTypeOK ==
  /\ start_block \in {None, BackfillEnd + 1}
  /\ replays \in BOOLEAN /\ backfilled \in BOOLEAN
  /\ head \in Nat /\ subscriptions \in Nat
  /\ cursor \in 0 .. Len(Chain)

\* What the stream has passed is a row that is due, or the backfill's.
PassedLogsAreDue ==
  /\ InHand => cursor > 0 /\ log = Chain[cursor]
  /\ (start_block # None /\ replays /\ Streaming) =>
       \A i \in 1 .. (IF InHand THEN cursor - 1 ELSE cursor) \ skipped :
         Decoded(Chain[i]) =>
           Chain[i].block <= BackfillEnd \/ \E r \in DueRows : delivered[r] = Chain[i]

DeliveriesOf(i) == {r \in DOMAIN delivered : delivered[r] = Chain[i]}

MostDeliveries == IF start_block # None /\ replays THEN subscriptions ELSE 1

\* A log that the stream has still to pass may be delivered once more.
DeliveriesAreFew ==
  /\ start_block # None /\ Streaming => cursor >= Before(start_block)
  /\ \A i \in DOMAIN Chain :
       /\ Cardinality(DeliveriesOf(i)) <= MostDeliveries
       /\ Streaming /\ i > cursor => Cardinality(DeliveriesOf(i)) < MostDeliveries
       /\ DeliveriesOf(i) # {} =>
            i <= Mined /\ (start_block # None => i > Before(start_block))

HandoffInv == HandoffTypeOK /\ PassedLogsAreDue /\ DeliveriesAreFew
==============================================================================
