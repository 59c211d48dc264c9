----------------------------- MODULE CommandSlots -----------------------------
(***************************************************************************)
(* What the command manager promises of its Commands, for the IDs that     *)
(* only requests use: an ID is a slot that one Command holds at a time.  A *)
(* Command runs only in its slot, a request is refused only while the slot *)
(* is taken, and a slot is vacated, and its Command ends, only after that  *)
(* Command was told to.                                                    *)
(***************************************************************************)
CONSTANTS
  Slots,     \* command IDs
  Members,   \* Commands that ask for a slot
  SlotOf,    \* the slot of each of them
  Nobody     \* the holder of a free slot

VARIABLES
  holder,    \* the Command in each slot
  phase,     \* what became of each Command
  told       \* Commands that were told to end

vars == <<holder, phase, told>>

Init ==
  /\ holder = [s \in Slots |-> Nobody]
  /\ phase = [c \in Members |-> "new"]
  /\ told = {}

Become(c, from, to) ==
  /\ phase[c] = from
  /\ phase' = [phase EXCEPT ![c] = to]

Enter(c) ==
  /\ holder[SlotOf[c]] = Nobody
  /\ Become(c, "new", "running")
  /\ holder' = [holder EXCEPT ![SlotOf[c]] = c]
  /\ UNCHANGED told

Refuse(c) ==
  /\ holder[SlotOf[c]] # Nobody
  /\ Become(c, "new", "refused")
  /\ UNCHANGED <<holder, told>>

Tell(s) ==
  /\ holder[s] # Nobody
  /\ told' = told \cup {holder[s]}
  /\ UNCHANGED <<holder, phase>>

Vacate(s) ==
  /\ holder[s] \in told
  /\ holder' = [holder EXCEPT ![s] = Nobody]
  /\ UNCHANGED <<phase, told>>

End(c) ==
  /\ c \in told
  /\ Become(c, "running", "ended")
  /\ UNCHANGED <<holder, told>>

Next ==
  \/ \E c \in Members : Enter(c) \/ Refuse(c) \/ End(c)
  \/ \E s \in Slots : Tell(s) \/ Vacate(s)

Spec == Init /\ [][Next]_vars

=============================================================================
