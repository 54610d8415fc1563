----------------------- MODULE MCNotificationDelivery -----------------------
(***************************************************************************)
(* Instance of NotificationDelivery for TLC: workers, jobs and             *)
(* administrators are interchangeable, and a backoff is one tick more for  *)
(* every attempt.                                                          *)
(***************************************************************************)
EXTENDS OutboxRefinement, TLC

CONSTANTS w1, w2, j1, j2, j3, j4, a1, a2

TwoWorkers == {w1, w2}
ThreeJobs == {j1, j2, j3}
FourJobs == {j1, j2, j3, j4}
OneAdmin == {a1}
TwoAdmins == {a1, a2}

LinearBackoff == [n \in 1 .. RetryLimit |-> n]

NotificationSymmetry ==
    Permutations(Workers) \cup Permutations(Jobs) \cup Permutations(Admins)
=============================================================================
