---------------------------- MODULE MCRunLifecycle ----------------------------
(* Instances of RunLifecycle for TLC. *)
EXTENDS RunLifecycle, TLC

CONSTANTS c, r1, m, k

\* One command of each kind.
AllCommands == c :> "complete" @@ r1 :> "resume" @@ m :> "merge" @@ k :> "cleanup"

Only(S) == [p \in S |-> AllCommands[p]]

OneOfEach == {c, r1, m, k}
OneOfEachCommand == Only(OneOfEach)

ResumedOnce == {c, r1}
ResumedOnceCommand == Only(ResumedOnce)

ResumedAndCleaned == {c, r1, k}
ResumedAndCleanedCommand == Only(ResumedAndCleaned)

ResumedAndMerged == {c, r1, m}
ResumedAndMergedCommand == Only(ResumedAndMerged)
=============================================================================
