--------------------------- MODULE MCAgentService --------------------------
(* AgentService on small sets, for TLC.                                    *)
EXTENDS AgentService, TLC

CONSTANTS r1, r2, r3, d1, d2

\* Two requests of one device and one of another.
MCRequests == {r1, r2, r3}
MCDevices == {d1, d2}
MCDeviceOf == r1 :> d1 @@ r2 :> d1 @@ r3 :> d2

\* One device, for the runs that are about its session.
MCTwoRequests == {r1, r2}
MCOneDevice == {d1}
MCDeviceOfTwo == r1 :> d1 @@ r2 :> d1

\* Workers and threads are interchangeable, and so are the two requests of d1.
Symmetry ==
  Permutations(Workers) \cup Permutations(Threads) \cup Permutations({r1, r2})
=============================================================================
