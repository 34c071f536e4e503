CONSTANTS
    k1 = k1
    k2 = k2
    k3 = k3
    NONE = NONE
    pw1 = pw1
    pw2 = pw2
    Passwords <- MC_Passwords
    Keys <- MC_Keys
    MixedCase <- MC_AllMixed
    MaxAdds = 4

SPECIFICATION Spec

INVARIANT HeldAccountsHaveKeys
