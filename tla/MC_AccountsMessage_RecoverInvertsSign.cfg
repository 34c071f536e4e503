\* recover on what sign returned, in every argument form.
CONSTANTS
    k1 = k1
    k2 = k2
    Stranger = Stranger
    Datas <- MC_Datas
    Keys <- MC_Keys
SPECIFICATION Spec
CHECK_DEADLOCK FALSE
INVARIANT RecoverInvertsSign
