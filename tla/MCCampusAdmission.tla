-------------------------- MODULE MCCampusAdmission --------------------------
EXTENDS CampusAdmission, TLC

CONSTANTS l1, l2, ann, bob, logic

\* Two students with a lab each in one course; one student alone.
TwoOwner == l1 :> ann @@ l2 :> bob
TwoCourse == l1 :> logic @@ l2 :> logic

OneOwner == l1 :> ann
OneCourse == l1 :> logic

IdSymmetry == Permutations(Sessions) \cup Permutations(Slots)
=============================================================================
