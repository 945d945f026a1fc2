\* Two admins at once; three questions ever, up to two new ones in a form.
CONSTANTS
    Reqs = {q1, q2}
    MaxItems = 3
    MaxNew = 2
SYMMETRY Interchangeable
SPECIFICATION Spec
INVARIANT ItemsHaveTemplate
CHECK_DEADLOCK FALSE
