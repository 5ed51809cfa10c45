---------------------------- MODULE HaltContract ----------------------------
(***************************************************************************)
(* What a halt promises, without saying how: the contract of               *)
(* src/src/risk/kill_switch.py:3-12 and src/RISK.md:23-32 as a state       *)
(* machine over the account.  While the flag is set no order is born; the  *)
(* halt is settled only when whatever is left on the exchange is excused   *)
(* (it was in flight when the flag was set, or the report names it, or the *)
(* exchange refused to undo it), and from then on it only shrinks, until   *)
(* the operator resumes.                                                   *)
(***************************************************************************)
CONSTANTS Orders, Symbols, SymbolOf

VARIABLES
  halted,   \* the flag
  settled,  \* the halt has reported without a failed listing
  live,     \* orders in flight or resting
  open,     \* symbols with a position
  excused   \* orders and symbols the halt has an explanation for

vars == <<halted, settled, live, open, excused>>

SymbolsOf(S) == {SymbolOf[o] : o \in S}

Init ==
  /\ halted = FALSE /\ settled = FALSE
  /\ live = {} /\ open = {} /\ excused = {}

(* Orders come, go and fill at will while the flag is clear.               *)
Trade ==
  /\ ~halted /\ ~halted'
  /\ live' \subseteq Orders /\ open' \subseteq Symbols
  /\ UNCHANGED <<settled, excused>>

SetFlag ==
  /\ ~halted /\ halted'
  /\ ~settled'
  /\ excused' \subseteq live
  /\ UNCHANGED <<live, open>>

(* Orders only vanish; a position only opens from a live order; more may   *)
(* turn out to be beyond repair.                                           *)
Undo ==
  /\ halted /\ halted' /\ ~settled /\ ~settled'
  /\ live' \subseteq live
  /\ open' \subseteq open \cup SymbolsOf(live)
  /\ excused \subseteq excused'

(* The report, perhaps with the last thing undone: all that is left is     *)
(* excused.                                                                *)
Settle ==
  /\ halted /\ halted' /\ ~settled /\ settled'
  /\ excused \subseteq excused'
  /\ live' \subseteq live \cap excused'
  /\ open' \subseteq open \cap (SymbolsOf(excused' \cap Orders) \cup excused')

(* After it, what is excused may still fill or go.                         *)
Remain ==
  /\ halted /\ halted' /\ settled /\ settled'
  /\ live' \subseteq live
  /\ open' \subseteq SymbolsOf(excused \cap Orders) \cup excused
  /\ UNCHANGED excused

Resume ==
  /\ halted /\ ~halted'
  /\ ~settled' /\ excused' = {}
  /\ UNCHANGED <<live, open>>

Next == Trade \/ SetFlag \/ Undo \/ Settle \/ Remain \/ Resume

Spec == Init /\ [][Next]_vars
=============================================================================
