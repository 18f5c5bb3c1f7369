---------------------------- MODULE MCAuthTokens ----------------------------
(* Small instances of AuthTokens.                                          *)
EXTENDS AuthTokens, TLC

CONSTANTS s1, s2, l1, f1, f2, o1, d1, d2

\* Two people race for one e-mail on one device; a login and a refresh may be
\* of another device.
TwoDevices ==
    [r \in Requests |-> IF r \in {l1, f1} THEN {d1, d2} ELSE {d1}]
============================================================================
