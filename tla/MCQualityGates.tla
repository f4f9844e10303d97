---------------------------- MODULE MCQualityGates ----------------------------
(* Instances of QualityGates for TLC: a backend whose suite covers that of a *)
(* module nested in it, and a front end on its own.                          *)
EXTENDS QualityGates, TLC

CONSTANTS backend, module, frontend,        \* groups
          inBackend, inModule, inFrontend,  \* paths in their directories
          head, first                       \* contents of a file

AllGroups == {backend, module, frontend}
AllPaths == {inModule, inFrontend}
OneOfEach == {inBackend, inModule, inFrontend}
InOrder == backend :> 1 @@ module :> 2 @@ frontend :> 3
Nested == inModule :> {backend, module}
          @@ inFrontend :> {frontend}
NestedOfEach == inBackend :> {backend} @@ Nested
Depths == backend :> 1 @@ module :> 2 @@ frontend :> 1
BackendCoversModule == [g \in AllGroups |-> IF g = backend THEN {module} ELSE {}]
\* The front end's tests also depend on the module.
Claimed == [p \in AllPaths |-> IF p = inModule THEN {frontend} ELSE {}]
NoneClaimed == [p \in OneOfEach |-> {}]
NoPaths == {}
TwoContents == {head, first}
=============================================================================
