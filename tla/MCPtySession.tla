---------------------------- MODULE MCPtySession ----------------------------
(* PtySession for TLC: one mode that stays and one that brackets a frame. *)
EXTENDS PtySession, TLC
CONSTANTS paste, sync, c1, c2

MCModes == {paste, sync}
MCTransient == {sync}
MCClients == {c1, c2}

(* A chunk that sets the mode, ends a frame and ends inside a string, which  *)
(* to the tracker is as good as between sequences; and a longer one that     *)
(* unsets the mode, opens a frame and ends inside the next sequence.         *)
MCChunks ==
  { [size |-> 1, sets |-> (paste :> "on" @@ sync :> "off"), ends |-> "string"],
    [size |-> 2, sets |-> (paste :> "off" @@ sync :> "on"), ends |-> "sequence"] }
=============================================================================
