-------------------------- MODULE SessionReadiness --------------------------
(***************************************************************************)
(* What the rest of the runtime may rely on about player sessions, a       *)
(* session being a (UUID, connection generation) pair: a session executes  *)
(* commands only between a probe that proved it callable and the moment it *)
(* stops being current or loses that proof.                                *)
(***************************************************************************)

CONSTANT Sessions

VARIABLES
  current,     \* sessions the last snapshot or update left current
  executable   \* sessions execution_decision answers "execute" for

vars == <<current, executable>>

Init == current = {} /\ executable = {}

\* A snapshot or an invalidation changes who is current; it proves nobody.
Change ==
  /\ current' \in SUBSET Sessions
  /\ executable' \in SUBSET (executable \cap current')

\* A probe proves one current session.
Prove(s) ==
  /\ s \in current
  /\ executable' = executable \cup {s}
  /\ UNCHANGED current

Next == Change \/ \E s \in Sessions : Prove(s)

Spec == Init /\ [][Next]_vars
=============================================================================
