CONSTANTS
    Keys <- MCKeys
    MaxBuild <- MCMaxBuild
    Nil = Nil
    NoKey = NoKey

SPECIFICATION Spec

INVARIANTS
    TypeOK
    Balanced
    Ordered

PROPERTIES
    RegistrySpec
