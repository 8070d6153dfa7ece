---------------------------- MODULE ConsoleReplay ----------------------------
(***************************************************************************)
(* The two readers of one damaged tape: the engine, which puts the lines   *)
(* through the reorder buffer and the guard and into the book its          *)
(* detectors read (FeedIntegrity with Pipeline::apply's book), and the     *)
(* console's replay, which sorts them and applies them all (Replay).  The  *)
(* replay answers after the run, from the same file.                       *)
(***************************************************************************)
EXTENDS FeedIntegrity, Replay

CONSTANTS
  MaxOrders,  \* max_resting_orders of the engine's configuration
  Watched     \* the symbol looked at

\* The constructor of BookState takes a cap of zero for one.
ASSUME BooksAssumption ==
  /\ Price \subseteq Int /\ NoPrice \notin Int
  /\ MaxOrders \in Nat \ {0} /\ ReplayOrders \in Nat \ {0}
  /\ RepairRounds \in Nat

\* What the lines of a tape say to a book.
ASSUME MarketEventsAssumption ==
  \A s \in Tapes : \A i \in DOMAIN s :
    /\ {"kind", "sym", "id", "who", "side", "px", "q"} \subseteq DOMAIN s[i]
    /\ s[i].id \in OrderId /\ s[i].who \in Participant
    /\ s[i].side \in {"Buy", "Sell"}
    /\ s[i].px \in Price \cup {NoPrice} /\ s[i].q \in Int

VARIABLES
  d_orders, d_agg, d_stats, d_now, d_stage, d_round, d_ids, d_departed,
  d_entrant, d_fed,  \* the detectors' book of that symbol
  d_last,            \* history: the event it was given last
  d_books            \* history: what it held after each event

detectorsBookVars == <<d_orders, d_agg, d_stats, d_now, d_stage, d_round, d_ids,
                       d_departed, d_entrant, d_fed, d_last, d_books>>

DetectorsBook == INSTANCE BookState WITH
  orders <- d_orders, agg <- d_agg, stats <- d_stats, now <- d_now,
  stage <- d_stage, round <- d_round, ids <- d_ids, departed <- d_departed,
  entrant <- d_entrant, fedEvents <- d_fed,
  Quantity <- {}, MaxEvents <- MaxLines

ConsoleInit ==
  /\ FeedInit
  /\ ReplayInit
  /\ DetectorsBook!BookInit
  /\ d_last = 0
  /\ d_books = [eid \in {} |-> r_orders]

\* The book after its last event, once nothing is left to repair.
Remembered ==
  d_books' = IF d_stage' = "idle" THEN DetectorsBook!Bind(d_books, d_last', d_orders')
                                  ELSE d_books

FeedStep ==
  /\ Damage \/ Push \/ Drain \/ EndOfTape \/ Flush
  /\ UNCHANGED <<detectorsBookVars, replayVars>>

\* Pipeline::apply: what the guard accepts reaches the book of its symbol.
ApplyToBook ==
  /\ d_stage = "idle"
  /\ Apply
  /\ LET e == out[applied + 1].event IN
     IF Guard!IsDuplicate(e) \/ e.sym # Watched
       THEN UNCHANGED detectorsBookVars
       ELSE /\ DetectorsBook!Handle(e) /\ d_now' = e.ts
            /\ d_last' = e.eid
            /\ Remembered
  /\ UNCHANGED replayVars

RepairDetected ==
  /\ DetectorsBook!Repair
  /\ UNCHANGED d_last
  /\ Remembered
  /\ UNCHANGED <<feedVars, replayVars>>

RunOver == Finished /\ d_stage = "idle"

\* The API is started on the tape the engine has read.
StartApi ==
  /\ RunOver
  /\ Load(lines)
  /\ UNCHANGED <<feedVars, detectorsBookVars>>

Answering ==
  /\ Walk
  /\ UNCHANGED <<feedVars, detectorsBookVars>>

ConsoleNext == FeedStep \/ ApplyToBook \/ RepairDetected \/ StartApi \/ Answering

consoleVars == <<feedVars, replayVars, detectorsBookVars>>

ConsoleSpec == ConsoleInit /\ [][ConsoleNext]_consoleVars

-----------------------------------------------------------------------------
(***************************************************************************)
(* "The console has to show the same book the detectors saw, and they see  *)
(* timestamp order" (replay.cpp:84-85): the frame of an event the engine   *)
(* applied shows the orders its book held after that event.                *)
(***************************************************************************)
SameBookAsDetectors ==
  \A n \in 1 .. Len(frames) :
    frames[n].eid \in DOMAIN d_books => frames[n].orders = d_books[frames[n].eid]
=============================================================================
