-------------------------------- MODULE Cadence --------------------------------
(***************************************************************************)
(* The fixed grid of dispatch slots.  Times are whole seconds; \div rounds *)
(* down, as // does.                                                       *)
(***************************************************************************)
EXTENDS Integers

CONSTANT Never            \* LastDispatchedAt is absent

SlotStart(now, anchor, freq) == ((now - anchor) \div freq) * freq + anchor

\* A pipeline without a positive frequency is never due
IsDueAgain(now, last, anchor, freq) ==
  /\ freq > 0
  /\ last = Never \/ last <= SlotStart(now, anchor, freq)
IsDue(now, last, anchor, freq) ==
  /\ freq > 0
  /\ last = Never \/ last < SlotStart(now, anchor, freq)

================================================================================
