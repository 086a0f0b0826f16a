\* One point under the floor, on it, and well above: 50 and 49 average to a half.
CONSTANTS
    s1 = s1
    s2 = s2
    Students = {s1, s2}
    Scores = {49, 50, 81}
    dimension_floor = 50
    min_average = 60
SPECIFICATION Spec
SYMMETRY StudentSymmetry
CHECK_DEADLOCK FALSE
INVARIANTS TypeOK ExamBlind NeverDistorted HonestTotal BetterNeverWorse
