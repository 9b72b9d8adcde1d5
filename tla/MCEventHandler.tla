--------------------------- MODULE MCEventHandler ---------------------------
(***************************************************************************)
(* Instances of EventHandler: two threads that signal, each once or twice. *)
(***************************************************************************)
EXTENDS EventHandler

CONSTANTS p1, p2

TwoSignallers == {p1, p2}
=============================================================================
