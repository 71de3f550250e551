SPECIFICATION Spec
CONSTANTS
    rec1 = rec1
    rec2 = rec2
    fb1 = fb1
    self1 = self1
    job1 = job1
    Nobody = Nobody
    Recommends = {rec1, rec2}
    Feedbacks = {fb1}
    Selves = {self1}
    Jobs = {job1}
SYMMETRY Symmetry
INVARIANTS TypeOK LinkedToUser QuietErasure
PROPERTY ErasedTogether
