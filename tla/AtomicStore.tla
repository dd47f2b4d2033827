----------------------------- MODULE AtomicStore -----------------------------
(***************************************************************************)
(* What crates/core/src/storage.rs promises its callers: "Every load       *)
(* returns a revision; a save must name the revision it started from, so a *)
(* stale window cannot overwrite newer data", and "writes are atomic".     *)
(* There is one value.  A command changes it in one step, from exactly the *)
(* value its revision names, or it is rejected and never changes it.  A    *)
(* crash may take back what nobody was told is stored, and nothing else.   *)
(*                                                                         *)
(* A value is the set of the commands that made it.                        *)
(***************************************************************************)
CONSTANTS Commands

VARIABLES
  value,     \* the stored collection
  shown,     \* the values clients have been given
  base,      \* the value whose revision a command names
  outcome    \* how far a command is, or what its client was told

vars == <<value, shown, base, outcome>>

InState(s) == {c \in Commands : outcome[c] = s}

Init ==
  /\ value = {}
  /\ shown = {}
  /\ base = [c \in Commands |-> {}]
  /\ outcome = [c \in Commands |-> "unsent"]

\* A client is given the value.
Show ==
  /\ shown' = shown \cup {value}
  /\ UNCHANGED <<value, base, outcome>>

\* A client sends a command that starts from a value it was given.
Send(c, b) ==
  /\ outcome[c] = "unsent"
  /\ b \in shown
  /\ base' = [base EXCEPT ![c] = b]
  /\ outcome' = [outcome EXCEPT ![c] = "sent"]
  /\ UNCHANGED <<value, shown>>

\* The command takes effect.  Its client may still be told that it failed.
Apply(c) ==
  /\ outcome[c] = "sent"
  /\ base[c] = value
  /\ value' = value \cup {c}
  /\ \E s \in {"applied", "failed"} : outcome' = [outcome EXCEPT ![c] = s]
  /\ UNCHANGED <<shown, base>>

Acknowledge(c) ==
  /\ outcome[c] = "applied"
  /\ outcome' = [outcome EXCEPT ![c] = "ok"]
  /\ shown' = shown \cup {base[c] \cup {c}}
  /\ UNCHANGED <<value, base>>

\* The command is not applied: it started from another value, or it is not valid.
Reject(c) ==
  /\ outcome[c] = "sent"
  /\ \/ base[c] # value /\ outcome' = [outcome EXCEPT ![c] = "conflict"]
     \/ base[c] = value /\ outcome' = [outcome EXCEPT ![c] = "refused"]
  /\ UNCHANGED <<value, shown, base>>

\* Reading or writing failed before anything was stored.
Fail(c) ==
  /\ outcome[c] = "sent"
  /\ outcome' = [outcome EXCEPT ![c] = "failed"]
  /\ UNCHANGED <<value, shown, base>>

\* Every command under way is cut short.  One that was being applied may have
\* been; commands that were never acknowledged may be taken back.
Crash ==
  /\ \/ value' \in SUBSET value
     \/ \E c \in InState("sent") : base[c] = value /\ value' \in SUBSET (value \cup {c})
  /\ InState("ok") \subseteq value'
  /\ outcome' = [c \in Commands |->
       IF outcome[c] \in {"sent", "applied"} THEN "failed" ELSE outcome[c]]
  /\ UNCHANGED <<shown, base>>

Next ==
  \/ Show
  \/ \E c \in Commands :
       \/ \E b \in SUBSET Commands : Send(c, b)
       \/ Apply(c) \/ Acknowledge(c) \/ Reject(c) \/ Fail(c)
  \/ Crash

Spec == Init /\ [][Next]_vars
=============================================================================
