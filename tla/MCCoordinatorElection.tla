----------------------- MODULE MCCoordinatorElection -----------------------
(* Two devices that run the election and a ceiling of two terms, so that     *)
(* ties, takeovers and the ceiling all happen.                               *)
EXTENDS CoordinatorElection

MCForeignTerm == {1, MaxSafeInteger}

=============================================================================
