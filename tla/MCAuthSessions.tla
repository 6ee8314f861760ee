--------------------------- MODULE MCAuthSessions ---------------------------
EXTENDS AuthSessions, TLC

Interchangeable ==
    Permutations(Users) \cup Permutations(Tokens)
        \cup Permutations(Browsers) \cup Permutations(Requests)
=============================================================================
