------------------------ MODULE MCPersistentManager ------------------------
(* Small instances of PersistentManager for TLC.                           *)
EXTENDS PersistentManager, TLC

CONSTANTS w1, w2, w3, m0, m1, m2, m3

TwoWorkers == {w1, w2}
ThreeWorkers == {w1, w2, w3}
ThreeManagers == {m0, m1, m2}
FourManagers == {m0, m1, m2, m3}

NoFaults == {}

\* What may be found when every earlier manager has either left or is in service
UsualLeftover == {"clean", "stale", "served", "nosock"}
CleanStart == {"clean"}
StaleStart == {"stale"}

\* A new manager is any unborn one, a worker any worker; m0 is told apart by Init
WorkerSymmetry == Permutations({w1, w2, w3})
=============================================================================
