----------------------------- MODULE AdmissionSlot -----------------------------
(***************************************************************************)
(* What the admission store promises, without its tables: there is one     *)
(* execution slot; an intent takes it at most once, while no owner has     *)
(* stopped its task; an assignment is handed only to the slot's holder,    *)
(* and never after a stop; the slot is given back only by its holder.      *)
(***************************************************************************)
CONSTANTS Intents, Tasks, None

VARIABLES slot,     \* the intent that occupies the slot
          spent,    \* the intents admitted so far, each with its task
          handed,   \* the intents whose assignment has been given to a runner
          stopped   \* the tasks an owner has stopped

slotVars == <<slot, spent, handed, stopped>>

Init ==
    /\ slot = None
    /\ spent = {}
    /\ handed = {}
    /\ stopped = {}

Admit(i, t) ==
    /\ slot = None
    /\ t \notin stopped
    /\ \A u \in Tasks : <<i, u>> \notin spent
    /\ slot' = i
    /\ spent' = spent \cup {<<i, t>>}
    /\ UNCHANGED <<handed, stopped>>

Hand(i, t) ==
    /\ slot = i
    /\ <<i, t>> \in spent
    /\ t \notin stopped
    /\ handed' = handed \cup {i}
    /\ UNCHANGED <<slot, spent, stopped>>

Release ==
    /\ slot # None
    /\ slot' = None
    /\ UNCHANGED <<spent, handed, stopped>>

Stop(t) ==
    /\ stopped' = stopped \cup {t}
    /\ UNCHANGED <<slot, spent, handed>>

Next ==
    \/ \E i \in Intents, t \in Tasks : Admit(i, t) \/ Hand(i, t)
    \/ \E t \in Tasks : Stop(t)
    \/ Release

Spec == Init /\ [][Next]_slotVars
=============================================================================
