---------------------------- MODULE MCStateFiles ----------------------------
(* Constants of the StateFiles runs.                                        *)
EXTENDS StateFiles

CONSTANTS k1, k2

MCKeys == {k1, k2}

\* As setup leaves it, and as an older version did, which connect enables.
MCSetUp == [Blank EXCEPT !.matrix = TRUE, !.homeserver = TRUE]
MCLegacy == [Blank EXCEPT !.homeserver = TRUE, !.accessToken = TRUE, !.accountPassword = TRUE,
                          !.recoveryKey = k1]
MCInitialConfigs == {MCSetUp, MCLegacy}
MCInitialKeys == {k2}

MCPlain == [enabled |-> "keep", homeserver |-> "keep", implementation |-> "keep",
            accessToken |-> FALSE, accountPassword |-> FALSE, recoveryKeyFile |-> NoKey]
MCRequests ==
  {[MCPlain EXCEPT !.enabled = e, !.accessToken = t] : e \in {"yes", "no"}, t \in BOOLEAN}
    \cup {[MCPlain EXCEPT !.homeserver = h] : h \in {"string", "boolean"}}
    \cup {[MCPlain EXCEPT !.implementation = i] : i \in {"mautrix", "other"}}
    \cup {[MCPlain EXCEPT !.recoveryKeyFile = k2],
          [MCPlain EXCEPT !.recoveryKeyFile = k2, !.accessToken = TRUE]}
=============================================================================
