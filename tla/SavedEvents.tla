----------------------------- MODULE SavedEvents ------------------------------
(***************************************************************************)
(* What the store promises to the readers of its files and tables          *)
(* (internal/report and the tools under cmd): the events that reach it get *)
(* their lines one by one in the order they came, and then take effect in  *)
(* the tables by transactions.  A transaction is made of all the events    *)
(* that have got their lines since the last one, and of no other.  Writing *)
(* a line may fail, and a statement, or all of a transaction may; what has *)
(* failed is not tried again and what has been written is not changed.     *)
(* The process may be killed at any instant, so each state is one that a   *)
(* reader may find.  Store implements this specification.                  *)
(***************************************************************************)
EXTENDS Naturals, Sequences

CONSTANT Events

VARIABLES
  arrived,    \* the events that reached the store's channel
  lined,      \* how many of them have had their line written, or failed
  lines,      \* the file
  lineless,   \* events whose line could not be written
  settled,    \* how many of them have been through a transaction
  effective,  \* events that took effect in the tables
  ineffective \* events that did not

lineVars == <<lined, lines, lineless>>
tableEffects == <<settled, effective, ineffective>>
savedVars == <<arrived, lineVars, tableEffects>>

SavedInit ==
  /\ arrived = <<>> /\ lined = 0 /\ lines = <<>> /\ lineless = {}
  /\ settled = 0 /\ effective = {} /\ ineffective = {}

Arrives ==
  /\ \E e \in Events : arrived' = Append(arrived, e)
  /\ UNCHANGED <<lineVars, tableEffects>>

GetsLine ==
  /\ lined < Len(arrived)
  /\ lined' = lined + 1
  /\ LET e == arrived[lined + 1]
     IN \/ lines' = Append(lines, e) /\ UNCHANGED lineless
        \/ lineless' = lineless \union {e} /\ UNCHANGED lines
  /\ UNCHANGED <<arrived, tableEffects>>

\* The events of the next transaction.
Due == {arrived[i] : i \in (settled + 1)..lined}

Transaction ==
  /\ settled < lined
  /\ settled' = lined
  /\ \E failed \in SUBSET Due :
       /\ effective' = effective \union (Due \ failed)
       /\ ineffective' = ineffective \union failed
  /\ UNCHANGED <<arrived, lineVars>>

SavedNext == Arrives \/ GetsLine \/ Transaction

SavedSpec == SavedInit /\ [][SavedNext]_savedVars
=============================================================================
