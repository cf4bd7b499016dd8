-------------------------- MODULE AcknowledgedFeed ---------------------------
(***************************************************************************)
(* What the service of transactions promises of one feed of the server.    *)
(* The server numbers its events; some of them add a transaction.  What    *)
(* the application takes it takes without leaving out anything that came   *)
(* before, and it carries what it took until it is saved or given up.      *)
(* Only a saved event is acknowledged, by a cursor the server is asked     *)
(* from next time; so everything that adds a transaction and is not after  *)
(* the cursor is saved, carried or given up.                               *)
(*                                                                         *)
(* Nothing is said of how often an event is taken and saved, or of the     *)
(* order in which events are saved and acknowledged.                       *)
(***************************************************************************)
EXTENDS Naturals

VARIABLES last,     \* the number of events published
          added,    \* the events among them that add a transaction
          carried,  \* taken, and neither saved nor given up in all copies
          saved,    \* saved at least once
          lost,     \* given up, and not taken again since
          cursor    \* the event acknowledged, 0 for none

fvars == <<last, added, carried, saved, lost, cursor>>

Accounted == carried \cup saved \cup lost

Publish ==
  /\ last' = last + 1
  /\ added' \in {added, added \cup {last + 1}}
  /\ UNCHANGED <<carried, saved, lost, cursor>>

(* Everything that came before what is taken is accounted for by then.     *)
(* What was given up and is taken again may be taken off the losses.       *)
Take(some) ==
  /\ UNCHANGED <<last, cursor, saved, added>>
  /\ carried' = carried \cup some
  /\ lost' \in {lost, lost \ some}
  /\ \A n \in some, m \in added : m < n => m \in Accounted'

(* Another copy of the event may still be carried.                         *)
Save(n) ==
  /\ UNCHANGED <<last, cursor, lost, added>>
  /\ saved' = saved \cup {n}
  /\ carried' \in {carried, carried \ {n}}

GiveUp(some) ==
  /\ UNCHANGED <<last, cursor, saved, added>>
  /\ lost' = lost \cup some
  /\ carried \ some \subseteq carried' /\ carried' \subseteq carried

(* A cursor that is forgotten (0) has the whole feed asked for again.      *)
Acknowledge(n) ==
  /\ cursor' = n
  /\ UNCHANGED <<last, added, carried, saved, lost>>

Init ==
  /\ last = 0 /\ added = {}
  /\ carried = {} /\ saved = {} /\ lost = {}
  /\ cursor = 0

Next ==
  \/ Publish
  \/ \E n \in saved \cup {0} : Acknowledge(n)
  \/ \E n \in carried : Save(n)
  \/ \E some \in SUBSET added : Take(some)
  \/ \E some \in SUBSET carried : GiveUp(some)

Spec == Init /\ [][Next]_fvars

(* What follows: nothing that the cursor has passed is out of account.     *)
NothingMissed == \A n \in added : n <= cursor => n \in Accounted
==============================================================================
