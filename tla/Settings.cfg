SPECIFICATION SettingsSpec

CONSTANTS
    Users = {NoUser, u1}
    NoUser = NoUser
    Passwords = {NoPassword, p1}
    NoPassword = NoPassword
    Certs = {BuiltIn, c1}
    BuiltIn = BuiltIn
    CaFiles = {NoCa, a1}
    NoCa = NoCa
    Dirs = {d1, d2}
    WithSub = {d1}

INVARIANTS
    ServesAsShown
    NotOpen
    RootAsShown
