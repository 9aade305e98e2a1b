--------------------------- MODULE ScriptVerdict ---------------------------
(***************************************************************************)
(* What ConnectBlock (main.cpp) expects of the script check queue: the     *)
(* checks of one block go in, and the answer that comes out says whether   *)
(* all of them pass.  There are no threads here.                           *)
(***************************************************************************)
CONSTANTS
    Check,     \* script checks (CScriptCheck)
    Bad        \* those that return false

VARIABLES
    phase,     \* "out", "adding" or "waiting"
    submitted, \* checks added for the current block
    verdict    \* the last answer

vars == <<phase, submitted, verdict>>

Init == phase = "out" /\ submitted = {} /\ verdict = TRUE

Begin ==
    /\ phase = "out"
    /\ phase' = "adding" /\ submitted' = {}
    /\ UNCHANGED verdict

Submit ==
    /\ phase = "adding"
    /\ \E more \in SUBSET (Check \ submitted) : submitted' = submitted \cup more
    /\ UNCHANGED <<phase, verdict>>

Finish ==
    /\ phase = "adding"
    /\ phase' = "waiting"
    /\ UNCHANGED <<submitted, verdict>>

Answer ==
    /\ phase = "waiting"
    /\ phase' = "out"
    /\ verdict' = (submitted \cap Bad = {})
    /\ UNCHANGED submitted

Next == Begin \/ Submit \/ Finish \/ Answer

(* A block that has all its checks in gets its answer.                     *)
Spec == Init /\ [][Next]_vars /\ WF_vars(Answer)
=============================================================================
