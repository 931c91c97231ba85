----------------------------- MODULE Lifecycle -----------------------------
(***************************************************************************)
(* What the Webapp controller promises about a Webapp and its proxy        *)
(* service, the one object it creates that no garbage collector owns: a    *)
(* Webapp is exposed only between the moment it is guarded by the          *)
(* finalizer and the moment its deletion was asked for and it is concealed *)
(* again, and it leaves only then.                                         *)
(***************************************************************************)
CONSTANT Webapps

VARIABLES
  phase,   \* what the server knows of each Webapp
  exposed  \* whether a proxy service stands for it

Phases == {"absent", "plain", "guarded", "deleting"}

Init ==
  /\ phase = [w \in Webapps |-> "absent"]
  /\ exposed = [w \in Webapps |-> FALSE]

\* w moves from one phase to another.
Moves(w, from, to) ==
  /\ phase[w] = from
  /\ phase' = [phase EXCEPT ![w] = to]
  /\ UNCHANGED exposed

\* A user creates w; a user deletes it, at once or once it is finalized.
Create(w)     == Moves(w, "absent", "plain")
Discard(w)    == Moves(w, "plain", "absent")
AskDelete(w)  == Moves(w, "guarded", "deleting")

\* The controller guards w, and lets it go when nothing exposes it any more.
Guard(w)      == Moves(w, "plain", "guarded")
Release(w)    == ~exposed[w] /\ Moves(w, "deleting", "absent")

\* A reconcile that began before the deletion may still expose w after it.
Expose(w) ==
  /\ phase[w] \in {"guarded", "deleting"}
  /\ exposed' = [exposed EXCEPT ![w] = TRUE]
  /\ UNCHANGED phase

Conceal(w) ==
  /\ phase[w] = "deleting"
  /\ exposed' = [exposed EXCEPT ![w] = FALSE]
  /\ UNCHANGED phase

Next == \E w \in Webapps :
  \/ Create(w) \/ Discard(w) \/ AskDelete(w)
  \/ Guard(w) \/ Release(w)
  \/ Expose(w) \/ Conceal(w)

Spec == Init /\ [][Next]_<<phase, exposed>>
=============================================================================
