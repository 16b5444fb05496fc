---------------------------- MODULE MCTcpHandler ----------------------------
(* Small instances of TcpHandler for TLC.                                   *)
EXTENDS TcpHandler, TLC

CONSTANTS c1, c2, c3, a1, a2, gt06, fm1200, k1

TwoConns   == {c1, c2}
ThreeConns == {c1, c2, c3}

\* The connections are interchangeable; the devices differ in their protocol.

TwoConnsAndAddrs   == Permutations(TwoConns) \cup Permutations({a1, a2})
ConnsAndAddrs == Permutations(ThreeConns) \cup Permutations({a1, a2})
=============================================================================
