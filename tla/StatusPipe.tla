----------------------------- MODULE StatusPipe -----------------------------
(***************************************************************************)
(* What a connection's store promises the protocol handler about the       *)
(* records (or the command responses) it is given: while the connection is *)
(* served, each accepted record is handed to the backend once, in the      *)
(* order of acceptance.  Only after the connection has begun to close may  *)
(* the worker stop, and what it has not attempted by then is lost.         *)
(*                                                                         *)
(* Records are named 1, 2, 3, ... in the order they are accepted.          *)
(***************************************************************************)
EXTENDS Naturals, Sequences

VARIABLES
    accepted,    \* number of records the store has taken from the handler
    attempted,   \* the records handed to the backend, in that order
    phase        \* "open", "closing" or "closed"

pipeVars == <<accepted, attempted, phase>>

PipeInit == accepted = 0 /\ attempted = <<>> /\ phase = "open"

Accept ==
    /\ phase = "open"
    /\ accepted' = accepted + 1
    /\ UNCHANGED <<attempted, phase>>

Attempt ==
    /\ phase # "closed" /\ Len(attempted) < accepted
    /\ attempted' = Append(attempted, Len(attempted) + 1)
    /\ UNCHANGED <<accepted, phase>>

BeginClose ==
    /\ phase = "open" /\ phase' = "closing"
    /\ UNCHANGED <<accepted, attempted>>

Stop ==
    /\ phase = "closing" /\ phase' = "closed"
    /\ UNCHANGED <<accepted, attempted>>

PipeNext == Accept \/ Attempt \/ BeginClose \/ Stop

PipeSpec == PipeInit /\ [][PipeNext]_pipeVars
=============================================================================
