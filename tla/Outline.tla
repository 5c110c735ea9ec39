------------------------------ MODULE Outline ------------------------------
(***************************************************************************)
(* What the block tree of a page promises to whoever edits it: every place *)
(* holds a list of blocks, and an edit adds blocks, takes one away with    *)
(* all that is below it, or shifts one to another spot, and leaves the     *)
(* order of all others as it was.  There are no sort orders here, no       *)
(* depths and no gaps to run out of.  Only the restore of a revision may   *)
(* put several blocks elsewhere at once.                                   *)
(***************************************************************************)
EXTENDS Naturals, SequencesExt

CONSTANT Page   \* the place of the blocks that are in no other

VARIABLES
  kids,       \* per place (the page, and every block) the blocks in it, in order
  restored    \* how many restores there have been

Places == DOMAIN kids
Without(list, gone) == SelectSeq(list, LAMBDA b : b \notin gone)

\* The others stay where they are, in the order they were in.
OthersKeepOrder(named) ==
  \A p \in Places \cap DOMAIN kids' : Without(kids[p], named) = Without(kids'[p], named)

\* Every block is in one list, once.
WellFormed ==
  /\ UNION {Range(kids[p]) : p \in Places} = Places \ {Page}
  /\ MapThenSumSet(LAMBDA p : Len(kids[p]), Places) = Cardinality(Places) - 1

Init == WellFormed /\ restored = 0

Grow ==
  /\ Places \subseteq DOMAIN kids'
  /\ OthersKeepOrder(DOMAIN kids' \ Places)
  /\ UNCHANGED restored

\* What goes with a block is what is nowhere any more.
Shrink(b) ==
  /\ DOMAIN kids' \subseteq Places \ {b}
  /\ \A c \in Places \ DOMAIN kids' : c = b \/ \E p \in Places \ DOMAIN kids' : c \in Range(kids[p])
  /\ OthersKeepOrder({b})
  /\ UNCHANGED restored

Shift(b) ==
  /\ DOMAIN kids' = Places
  /\ OthersKeepOrder({b})
  /\ UNCHANGED restored

Restore ==
  /\ Places \subseteq DOMAIN kids'
  /\ restored' = restored + 1

Next ==
  /\ WellFormed'
  /\ \/ Grow \/ Restore
     \/ \E b \in Places \ DOMAIN kids' : Shrink(b)
     \/ \E b \in Places : Shift(b)

Spec == Init /\ [][Next]_<<kids, restored>>
=============================================================================
