-------------------------- MODULE ReversibleCleanup --------------------------
(***************************************************************************)
(* What DWI promises about the directories it cleans up, without journal,  *)
(* claims or processes.  A recovery is used once: whatever is at its       *)
(* original path goes into its slot in one step, stays there whole, and    *)
(* comes back to the original path in one step, when that path is free.    *)
(* Only the tool that owns the directories creates or removes anything.    *)
(***************************************************************************)
CONSTANTS Recoveries, Paths, Objects, Spares, Nowhere, home, ToolDeletes

VARIABLES
  at,      \* per object, where it is: a path, a slot (named by its recovery), Nowhere
  phase    \* per recovery: "inPlace", "quarantined" or "restored"

vars == <<at, phase>>

Free(place) == \A o \in Objects : at[o] # place

Init ==
  /\ at \in [Objects -> Paths \cup {Nowhere}]
  /\ \A o, n \in Objects : (o # n /\ at[o] = at[n]) => at[o] = Nowhere
  /\ phase = [r \in Recoveries |-> "inPlace"]

Carry(from, to) ==
  /\ Free(to)
  /\ \E o \in Objects : at[o] = from /\ at' = [at EXCEPT ![o] = to]

Quarantine(r) ==
  /\ phase[r] = "inPlace"
  /\ Carry(home[r], r)
  /\ phase' = [phase EXCEPT ![r] = "quarantined"]

Undo(r) ==
  /\ phase[r] = "quarantined"
  /\ Carry(r, home[r])
  /\ phase' = [phase EXCEPT ![r] = "restored"]

Creates(o, path) ==
  /\ at[o] = Nowhere /\ Free(path)
  /\ at' = [at EXCEPT ![o] = path]
  /\ UNCHANGED phase

Removes(o) ==
  /\ ToolDeletes /\ at[o] \in Paths
  /\ at' = [at EXCEPT ![o] = Nowhere]
  /\ UNCHANGED phase

Next ==
  \/ \E r \in Recoveries : Quarantine(r) \/ Undo(r)
  \/ \E o \in Spares, path \in Paths : Creates(o, path)
  \/ \E o \in Objects : Removes(o)

Spec == Init /\ [][Next]_vars
===============================================================================
