SPECIFICATION Spec
CONSTANTS
    ann = ann
    bob = bob
    logic = logic
    l1 = l1
    l2 = l2
    Nil = Nil
    Labs = {l1}
    Students = {ann}
    Courses = {logic}
    Owner <- OneOwner
    Course <- OneCourse
    Sessions = {s1, s2, s3}
    Keys = {k}
    Slots = {x, y}
    Clients = {c1, c2}
    LabLimit = 2
    StudentLimit = 2
    CourseLimit = 2
SYMMETRY IdSymmetry
INVARIANTS
    OneLiveSessionPerLab
    ReplacedOnce
    OneSessionPerKey
