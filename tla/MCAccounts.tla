----------------------------- MODULE MCAccounts -----------------------------
(* Accounts on small instances: operations that share no state do not occur  *)
(* together; slots are interchangeable, and so are biometric types.          *)
EXTENDS Accounts, TLC

MCMixes == {{"register", "oauth", "update"}, {"register", "updateProfile", "delete"},
            {"sendReset", "reset", "update"},
            {"sendReset", "reset", "delete"}, {"update", "verify", "delete"},
            {"registerBiometric", "authenticate", "removeBiometric"},
            {"registerBiometric", "removeBiometric", "update", "delete"},
            {"login", "refresh", "logout"},
            {"requestReset", "resetByLink", "update"},
            {"sendVerification", "verifyByLink", "delete"},
            {"updateProfile", "updateAvatar", "delete"},
            {"generateSecret", "enableTwoFactor", "disableTwoFactor", "delete"}}

Interchangeable == Permutations(Calls) \cup Permutations(Types)

=============================================================================
