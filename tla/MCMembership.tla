---------------------------- MODULE MCMembership ----------------------------
EXTENDS Membership, TLC

Interchangeable ==
    Permutations(Users) \cup Permutations(Workspaces)
        \cup Permutations(Invites) \cup Permutations(Requests)
=============================================================================
