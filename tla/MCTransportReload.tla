------------------------- MODULE MCTransportReload -------------------------
(* Constants of the TransportReload runs.                                   *)
EXTENDS TransportReload, TLC

CONSTANTS matrix, slack, s1, s2, s3

MCSymmetry == Permutations(Sends)

\* What setup leaves: matrix is enabled with its settings, and has a token.
MCSetUp == [config |-> [Blank EXCEPT ![matrix] = [enabled |-> TRUE, settings |-> {Boot}]],
            token |-> Boot]

\* No configuration yet.
MCFresh == [config |-> Blank, token |-> Nobody]

MCSetUpDisk == {MCSetUp}
MCDisks == {MCSetUp, MCFresh}

MCEnable(n) == [transport |-> n, enabled |-> "yes", settings |-> FALSE, token |-> FALSE]
MCDisable(n) == [transport |-> n, enabled |-> "no", settings |-> FALSE, token |-> FALSE]

\* connect, disconnect, and configure with and without an access token.
MCCommands ==
  {MCEnable(matrix), MCDisable(matrix), MCEnable(slack), MCDisable(slack)}
    \cup {[transport |-> matrix, enabled |-> "yes", settings |-> TRUE, token |-> TRUE],
          [transport |-> matrix, enabled |-> "keep", settings |-> TRUE, token |-> TRUE],
          [transport |-> matrix, enabled |-> "keep", settings |-> TRUE, token |-> FALSE]}

\* The first provider and those of one of the two sends, which are alike.
MCFrail == {<<Boot, matrix>>, <<s1, matrix>>}

\* Configure without a token: every step of a send() but the token's own write.
MCConfigure == {[transport |-> matrix, enabled |-> "yes", settings |-> TRUE, token |-> FALSE]}
=============================================================================
