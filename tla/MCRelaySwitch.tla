---------------------------- MODULE MCRelaySwitch ----------------------------
\* Three profiles, one per mode; two logins of one account and one of another.
EXTENDS RelaySwitch

CONSTANTS o1, m1, p1, a1, a2, b1, h1

AccountsOfLogins == [l \in Logins |-> IF l = b1 THEN "b" ELSE "a"]
OneOfEachMode ==
    [p \in Profiles |-> CASE p = o1 -> "official" [] p = m1 -> "mixedApi"
                          [] OTHER -> "pureApi"]
=============================================================================
