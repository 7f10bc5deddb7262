------------------------------ MODULE MCAccess ------------------------------
(***************************************************************************)
(* Small instances of Access for TLC.                                      *)
(***************************************************************************)
EXTENDS Access, TLC, FiniteSets

CONSTANTS c1, c2, s1, s2, S3, Azure

ref(s) == [accessMode |-> "ReadWrite", secret |-> s]

\* One claim; two claims with a Secret each.
OneClaim == {[refs |-> [c \in {c1} |-> ref(s1)], protocol |-> S3, serviceAccount |-> FALSE]}
TwoClaims == {[refs |-> [c \in {c1, c2} |-> IF c = c1 THEN ref(s1) ELSE ref(s2)],
               protocol |-> S3, serviceAccount |-> FALSE]}

OwnBucket == [c \in ClaimName |-> c]
SharedBucket == [c \in ClaimName |-> c1]
AllS3 == [c \in ClaimName |-> {S3}]

\* At most one kind of disturbance in a behaviour: another access, a fault, a restart,
\* or edits.
OneDisturbance ==
    Cardinality({i \in 1 .. 4 : <<issued - 1, faults, restarts, edits>>[i] > 0}) <= 1

Sym == Permutations(AccessName)

KeyClass == [driverName |-> ThisDriver, authenticationType |-> "Key",
             multiBucketAccess |-> TRUE, disallowedModes |-> {}]
=============================================================================
