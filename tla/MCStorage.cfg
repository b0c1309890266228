CONSTANT MaxPairs = 2
CONSTANT MaxEdits = 3
SPECIFICATION StorageSpec
INVARIANT KeyFitsCertificate
INVARIANT IdentityKept
INVARIANT StartsUnlessDisturbed
INVARIANT SettingsSurvive
