--------------------------- MODULE MCSessionStream ---------------------------
(***************************************************************************)
(* Liveness of SessionStream.                                              *)
(***************************************************************************)
EXTENDS SessionStream

\* every retry of the history read is spent, or retention left no row to count from
GivenUp == cl.failures > Retries \/ emptied

(* A browser that stays connected often enough ends up with every event it *)
(* accepts: gaps, resyncs, slow-client closes, lost connections, refreshes *)
(* and failed history reads only delay it, unless it has given up.         *)
CatchesUp == <>[](cl.cursor + 1 .. next - 1 \subseteq Rejected \/ GivenUp)
=============================================================================
