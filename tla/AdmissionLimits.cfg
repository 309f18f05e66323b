SPECIFICATION Spec
CONSTANTS
    ann = ann
    bob = bob
    logic = logic
    l1 = l1
    l2 = l2
    Nil = Nil
    Labs = {l1, l2}
    Students = {ann, bob}
    Courses = {logic}
    Owner <- TwoOwner
    Course <- TwoCourse
    Sessions = {s1, s2, s3}
    Keys = {k}
    Slots = {x}
    Clients = {c1}
    LabLimit = 2
    StudentLimit = 1
    CourseLimit = 1
INVARIANT PlaceIsKept
PROPERTY ResetsAreSettled
