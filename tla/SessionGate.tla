------------------------------ MODULE SessionGate -------------------------------
(***************************************************************************)
(* What the rest of the bridge sees of an execution session: whether one   *)
(* is active, which closes the world to everything else, and whether a     *)
(* restart would find it so.  This is the abstract specification of        *)
(* SessionLifecycle that the map handoff (SceneHandoff) is composed with.  *)
(***************************************************************************)
VARIABLES
  running,   \* SESSION.state['state'] in ACTIVE
  recorded,  \* session.json: the same, as a restart would find it
  written    \* history: no write of session.json has failed

sessionVars == <<running, recorded, written>>

GateInit == running = FALSE /\ recorded = FALSE /\ written = TRUE

\* _save: the memory has changed already when the file is written or not.
Noted(active) ==
  \/ recorded' = active /\ UNCHANGED written
  \/ written' = FALSE /\ UNCHANGED recorded

\* begin: only while no session is active.
SessionBegins == ~running /\ running' = TRUE /\ Noted(TRUE)

\* transition or attach, to a state that is active if the last one was.
SessionMoves == UNCHANGED running /\ Noted(running)

\* transition, to a state that ends the session.
SessionEnds == running /\ running' = FALSE /\ Noted(FALSE)

\* A new bridge reads the file.
SessionRestarts == running' = recorded /\ UNCHANGED <<recorded, written>>

GateNext == SessionBegins \/ SessionMoves \/ SessionEnds \/ SessionRestarts

GateSpec == GateInit /\ [][GateNext]_sessionVars
=================================================================================
