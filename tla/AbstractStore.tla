---------------------------- MODULE AbstractStore ----------------------------
(***************************************************************************)
(* What the metadata store promises of one value that its client saves,    *)
(* whatever resets, crashes and power cuts come in between.                *)
(*                                                                         *)
(* Each save makes a newer value.  The value in use is the newest until    *)
(* something is lost, and then the durable one.  Only a value that is in   *)
(* use can become durable, through a copy that may be taken at any moment  *)
(* and written at any later one, but not after a loss: what was lost does  *)
(* not come back.  When the store says that it is settled, the value in    *)
(* use is the durable one.                                                 *)
(***************************************************************************)
EXTENDS Naturals

VARIABLES
  newest,   \* the number of values that have been saved
  inUse,    \* the value the store would hand out now
  copy,     \* the value that is being written, or would be
  durable,  \* the value that survives everything
  settled   \* the store says that it has nothing to write

abstractVars == <<newest, inUse, copy, durable, settled>>

AbstractInit ==
  /\ newest = 0 /\ inUse = 0 /\ copy = 0 /\ durable = 0
  /\ settled = FALSE

(* The store may become settled by a step that leaves it with nothing to   *)
(* write.                                                                  *)
Says == settled' => durable' = inUse'

Save ==
  /\ newest' = newest + 1
  /\ inUse' = newest'
  /\ copy' \in {copy, newest'}
  /\ UNCHANGED durable
  /\ Says

Copy ==
  /\ copy' \in {copy, inUse}
  /\ UNCHANGED <<newest, inUse, durable>>
  /\ Says

Write ==
  /\ durable' = copy
  /\ UNCHANGED <<newest, inUse, copy>>
  /\ Says

Lose ==
  /\ inUse' = durable
  /\ copy' = durable
  /\ UNCHANGED <<newest, durable>>
  /\ Says

AbstractNext == Save \/ Copy \/ Write \/ Lose

Promise == AbstractInit /\ [][AbstractNext]_abstractVars
=============================================================================
