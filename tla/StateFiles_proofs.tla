-------------------------- MODULE StateFiles_proofs --------------------------
(***************************************************************************)
(* Proofs about StateFiles for any keys, configurations and requests, with   *)
(* the process ending between any two steps.                                 *)
(***************************************************************************)
EXTENDS StateFiles, TLAPS, SequenceTheorems

-----------------------------------------------------------------------------
(* The steps a command has before it.                                       *)

\* What follows the first of the steps s.
Follows(s) ==
  /\ s \in Seq(Steps) /\ s # <<>> /\ Tail(s) \in Seq(Steps)
  /\ Head(s) \in Steps
  /\ Tail(s) \in Remainders \cup {<<>>}
  /\ Head(s) = Opens("key") => Tail(s) # <<>> /\ Head(Tail(s)) = Writes("key")
  /\ Head(s) = Writes("key") => Tail(s) # <<>> /\ Head(Tail(s)) = Chmods("key")
  /\ Head(s) = Chmods("key") => Tail(s) # <<>> /\ Head(Tail(s)) = Opens("config")
  /\ Head(s) = Opens("config") => Tail(s) # <<>> /\ Head(Tail(s)) = Writes("config")
  /\ Head(s) = Writes("config") => Tail(s) = <<>> \/ Head(Tail(s)) = Opens("token")
  /\ Head(s) = Opens("token") => Tail(s) # <<>> /\ Head(Tail(s)) = Writes("token")
  /\ Head(s) = Writes("token") => Tail(s) # <<>> /\ Head(Tail(s)) = Chmods("token")
  /\ Head(s) = Chmods("token") => Tail(s) = <<>>
  /\ s \in ToEndOfToken => Tail(s) \in ToEndOfToken \/ Head(s) = Chmods("token")
  /\ s \in ToEndOfConfig => Tail(s) \in ToEndOfConfig \/ Head(s) = Writes("config")
  /\ s \in MigratingWithToken => Tail(s) \in ToEndOfToken \cup MigratingWithToken

LEMMA RemainderFollows ==
  ASSUME NEW s \in Remainders
  PROVE  Follows(s)
<1> USE DEF Follows, Steps, Opens, Writes, Chmods
<1> USE DEF Remainders, ToEndOfToken, ToEndOfConfig, Migrating, MigratingWithToken
<1>1. Follows(<<Opens("config"), Writes("config"),
                Opens("token"), Writes("token"), Chmods("token")>>)
  OBVIOUS
<1>2. Follows(<<Writes("config"), Opens("token"), Writes("token"), Chmods("token")>>)
  OBVIOUS
<1>3. Follows(<<Opens("token"), Writes("token"), Chmods("token")>>)
  OBVIOUS
<1>4. Follows(<<Writes("token"), Chmods("token")>>) /\ Follows(<<Chmods("token")>>)
  OBVIOUS
<1>5. Follows(<<Opens("config"), Writes("config")>>) /\ Follows(<<Writes("config")>>)
  OBVIOUS
<1>6. Follows(<<Opens("key"), Writes("key"), Chmods("key"), Opens("config"), Writes("config")>>)
  OBVIOUS
<1>7. Follows(<<Writes("key"), Chmods("key"), Opens("config"), Writes("config")>>)
  OBVIOUS
<1>8. Follows(<<Chmods("key"), Opens("config"), Writes("config")>>)
  OBVIOUS
<1>9. Follows(<<Opens("key"), Writes("key"), Chmods("key"), Opens("config"), Writes("config"),
                Opens("token"), Writes("token"), Chmods("token")>>)
  OBVIOUS
<1>10. Follows(<<Writes("key"), Chmods("key"), Opens("config"), Writes("config"),
                 Opens("token"), Writes("token"), Chmods("token")>>)
  OBVIOUS
<1>11. Follows(<<Chmods("key"), Opens("config"), Writes("config"),
                 Opens("token"), Writes("token"), Chmods("token")>>)
  OBVIOUS
<1> HIDE DEF Follows, Opens, Writes, Chmods
<1> QED
  BY <1>1, <1>2, <1>3, <1>4, <1>5, <1>6, <1>7, <1>8, <1>9, <1>10, <1>11

\* The secrets that the steps s write.
Secrets(s) == {file \in {"token", "key"} : \E i \in DOMAIN s : s[i] = <<"write", file>>}

LEMMA SecretsOfRemainder ==
  ASSUME NEW s \in Remainders
  PROVE  /\ "token" \in Secrets(s) => s \in ToEndOfToken \cup MigratingWithToken
         /\ "key" \in Secrets(s) =>
              Head(s) = Opens("key") \/ Head(s) = Writes("key") \/ Head(s) = Chmods("key")
<1> USE DEF Opens, Writes, Chmods
<1>1. CASE s \in ToEndOfToken
  <2>1. \A i \in DOMAIN s : s[i] # <<"write", "key">>
    BY <1>1 DEF ToEndOfToken
  <2> QED
    BY <1>1, <2>1 DEF Secrets
<1>2. CASE s \in ToEndOfConfig
  <2>1. \A i \in DOMAIN s : s[i] # <<"write", "key">> /\ s[i] # <<"write", "token">>
    BY <1>2 DEF ToEndOfConfig
  <2> QED
    BY <2>1 DEF Secrets
<1>3. CASE s \in Migrating
  <2>1. \A i \in DOMAIN s : s[i] # <<"write", "token">>
    BY <1>3 DEF Migrating
  <2>2. Head(s) = Opens("key") \/ Head(s) = Writes("key") \/ Head(s) = Chmods("key")
    BY <1>3 DEF Migrating
  <2> QED
    BY <2>1, <2>2 DEF Secrets
<1>4. CASE s \in MigratingWithToken
  <2>1. Head(s) = Opens("key") \/ Head(s) = Writes("key") \/ Head(s) = Chmods("key")
    BY <1>4 DEF MigratingWithToken
  <2> QED
    BY <1>4, <2>1
<1> QED
  BY <1>1, <1>2, <1>3, <1>4 DEF Remainders

\* The steps of two files, one after the other.
LEMMA TwoThree ==
  ASSUME NEW S, NEW a \in S, NEW b \in S, NEW c \in S, NEW d \in S, NEW e \in S
  PROVE  <<a, b>> \o <<c, d, e>> = <<a, b, c, d, e>>
<1>1. <<a, b>> \in Seq(S) /\ <<c, d, e>> \in Seq(S) /\ <<a, b, c, d, e>> \in Seq(S)
  OBVIOUS
<1>2. /\ Len(<<a, b>> \o <<c, d, e>>) = 5
      /\ \A i \in 1..5 : (<<a, b>> \o <<c, d, e>>)[i] = <<a, b, c, d, e>>[i]
  BY <1>1, ConcatProperties
<1> QED
  BY <1>1, <1>2, ConcatProperties, SeqEqual

LEMMA ThreeTwo ==
  ASSUME NEW S, NEW a \in S, NEW b \in S, NEW c \in S, NEW d \in S, NEW e \in S
  PROVE  <<a, b, c>> \o <<d, e>> = <<a, b, c, d, e>>
<1>1. <<a, b, c>> \in Seq(S) /\ <<d, e>> \in Seq(S) /\ <<a, b, c, d, e>> \in Seq(S)
  OBVIOUS
<1>2. /\ Len(<<a, b, c>> \o <<d, e>>) = 5
      /\ \A i \in 1..5 : (<<a, b, c>> \o <<d, e>>)[i] = <<a, b, c, d, e>>[i]
  BY <1>1, ConcatProperties
<1> QED
  BY <1>1, <1>2, ConcatProperties, SeqEqual

LEMMA FiveThree ==
  ASSUME NEW S, NEW a \in S, NEW b \in S, NEW c \in S, NEW d \in S, NEW e \in S,
         NEW f \in S, NEW g \in S, NEW h \in S
  PROVE  <<a, b, c, d, e>> \o <<f, g, h>> = <<a, b, c, d, e, f, g, h>>
<1>1. <<a, b, c, d, e>> \in Seq(S) /\ <<f, g, h>> \in Seq(S)
      /\ <<a, b, c, d, e, f, g, h>> \in Seq(S)
  OBVIOUS
<1>2. /\ Len(<<a, b, c, d, e>> \o <<f, g, h>>) = 8
      /\ \A i \in 1..8 : (<<a, b, c, d, e>> \o <<f, g, h>>)[i] = <<a, b, c, d, e, f, g, h>>[i]
  BY <1>1, ConcatProperties
<1> QED
  BY <1>1, <1>2, ConcatProperties, SeqEqual

\* What each command begins with.
LEMMA Beginnings ==
  ASSUME NEW k, NEW r
  PROVE  /\ Save \in ToEndOfConfig
         /\ Save \o Secret("token") \in ToEndOfToken
         /\ Save \o <<>> \in ToEndOfConfig
         /\ Head(Save) = Opens("config") /\ Head(Save \o Secret("token")) = Opens("config")
         /\ Head(Save \o <<>>) = Opens("config")
         /\ k = NoKey => /\ Order(k, r) \in ToEndOfConfig \cup ToEndOfToken
                        /\ Head(Order(k, r)) = Opens("config")
         /\ k # NoKey => /\ Order(k, r) \in Migrating \cup MigratingWithToken
                        /\ Head(Order(k, r)) = Opens("key")
<1> DEFINE oc == Opens("config")  wc == Writes("config")
           ot == Opens("token")   wt == Writes("token")   ct == Chmods("token")
           ok == Opens("key")     wk == Writes("key")     ck == Chmods("key")
<1>1. /\ oc \in Steps /\ wc \in Steps /\ ot \in Steps /\ wt \in Steps /\ ct \in Steps
      /\ ok \in Steps /\ wk \in Steps /\ ck \in Steps
  BY DEF Steps, Opens, Writes, Chmods
<1>2. Save = <<oc, wc>> /\ Secret("token") = <<ot, wt, ct>> /\ Secret("key") = <<ok, wk, ck>>
  BY DEF Save, Secret, Opens, Writes, Chmods
<1>3. /\ <<oc, wc>> \in ToEndOfConfig
      /\ <<oc, wc, ot, wt, ct>> \in ToEndOfToken
      /\ <<ok, wk, ck, oc, wc>> \in Migrating
      /\ <<ok, wk, ck, oc, wc, ot, wt, ct>> \in MigratingWithToken
  BY DEF ToEndOfConfig, ToEndOfToken, Migrating, MigratingWithToken
<1>4. /\ Head(<<ok, wk, ck, oc, wc>>) = ok /\ Head(<<ok, wk, ck, oc, wc, ot, wt, ct>>) = ok
      /\ Head(<<oc, wc>>) = oc /\ Head(<<oc, wc, ot, wt, ct>>) = oc
  OBVIOUS
<1> HIDE DEF oc, wc, ot, wt, ct, ok, wk, ck
<1>5. <<oc, wc>> \o <<ot, wt, ct>> = <<oc, wc, ot, wt, ct>>
  BY <1>1, TwoThree
<1>6. <<ok, wk, ck>> \o <<oc, wc>> = <<ok, wk, ck, oc, wc>>
  BY <1>1, ThreeTwo
<1>7. <<ok, wk, ck, oc, wc>> \o <<ot, wt, ct>> = <<ok, wk, ck, oc, wc, ot, wt, ct>>
  BY <1>1, FiveThree, SMTT(30)
<1>8. <<oc, wc>> \in Seq(Steps) /\ <<ok, wk, ck, oc, wc>> \in Seq(Steps)
  BY <1>1
<1>9. /\ <<>> \o <<oc, wc>> = <<oc, wc>> /\ <<oc, wc>> \o <<>> = <<oc, wc>>
      /\ <<ok, wk, ck, oc, wc>> \o <<>> = <<ok, wk, ck, oc, wc>>
  BY <1>8, ConcatEmptySeq
<1> DEFINE last3 == IF r.accessToken THEN Secret("token") ELSE <<>>
<1>10. last3 = <<ot, wt, ct>> \/ last3 = <<>>
  BY <1>2
<1>11. CASE k = NoKey
  <2>1. Order(k, r) = (<<>> \o <<oc, wc>>) \o last3
    BY <1>2, <1>11, Zenon DEF Order
  <2> HIDE DEF last3
  <2>2. Order(k, r) = <<oc, wc>> \/ Order(k, r) = <<oc, wc, ot, wt, ct>>
    BY <2>1, <1>5, <1>9, <1>10, Zenon
  <2>3. Opens("config") = oc
    BY DEF oc
  <2> QED
    BY <2>2, <2>3, <1>2, <1>3, <1>4, <1>5, <1>9, <1>11, Zenon
<1>12. CASE k # NoKey
  <2>1. Order(k, r) = (<<ok, wk, ck>> \o <<oc, wc>>) \o last3
    BY <1>2, <1>12, Zenon DEF Order
  <2> HIDE DEF last3
  <2>2. \/ Order(k, r) = <<ok, wk, ck, oc, wc>>
        \/ Order(k, r) = <<ok, wk, ck, oc, wc, ot, wt, ct>>
    BY <2>1, <1>6, <1>7, <1>9, <1>10, Zenon
  <2>3. Opens("key") = ok /\ Opens("config") = oc
    BY DEF ok, oc
  <2> QED
    BY <2>2, <2>3, <1>2, <1>3, <1>4, <1>5, <1>9, <1>12, Zenon
<1> QED
  BY <1>11, <1>12

-----------------------------------------------------------------------------
(* The invariant.                                                           *)

LEMMA BlankIsConfig == Blank \in Config /\ NoPlan \in [config : Config, key : Keys \cup {NoKey}]
BY DEF Blank, NoPlan, Config

LEMMA InitInv == Init => IInv
<1> SUFFICES ASSUME Init
             PROVE  IInv
  OBVIOUS
<1>1. config \in [state : FileStates, value : Config]
      /\ (config.state # "whole" => config.value = Blank)
  BY BlankIsConfig, InputAssumption DEF Init, FileStates
<1>2. TypeOK
  <2>1. todo \in Seq(Steps)
    BY DEF Init
  <2>2. token \in [state : FileStates, private : BOOLEAN]
    BY DEF Init, FileStates
  <2>3. key \in [state : FileStates, private : BOOLEAN, value : Keys \cup {NoKey}]
    <3>1. CASE key = [state |-> "absent", private |-> FALSE, value |-> NoKey]
      BY <3>1 DEF FileStates
    <3>2. CASE key \in [state : {"whole"}, private : BOOLEAN, value : InitialKeys]
      BY <3>2, KeyAssumption DEF FileStates
    <3> QED
      BY <3>1, <3>2 DEF Init
  <2>4. secrets \subseteq {"token", "key"}
    BY DEF Init
  <2> QED
    BY <1>1, <2>1, <2>2, <2>3, <2>4, BlankIsConfig DEF Init, TypeOK, FileStates, Questions, Results
<1>3. PlanInv
  BY DEF Init, PlanInv
<1>4. WrittenInv
  BY DEF Init, WrittenInv, Do
<1>5. KeyInv
  BY <1>1 DEF Init, KeyInv, Do
<1>6. SecretsStored /\ SetupRepairs
  BY DEF Init, SecretsStored, SetupRepairs
<1> QED
  BY <1>2, <1>3, <1>4, <1>5, <1>6 DEF IInv

\* Steps that touch neither the files nor the command under way.
LEMMA QuietInv ==
  ASSUME IInv,
         UNCHANGED <<files, commandVars, last, secrets>>,
         session' \in BOOLEAN, question' \in Questions, draft' \in Config, inputEnded' \in BOOLEAN
  PROVE  IInv'
<1> USE DEF files, commandVars
<1>1. TypeOK'
  BY DEF IInv, TypeOK
<1>2. PlanInv'
  BY DEF IInv, PlanInv
<1>3. WrittenInv'
  BY DEF IInv, WrittenInv, Do
<1>4. KeyInv'
  BY DEF IInv, KeyInv, Do
<1>5. SecretsStored'
  BY DEF IInv, SecretsStored
<1>6. SetupRepairs'
  BY DEF IInv, SetupRepairs, Creatable, Loads
<1> QED
  BY <1>1, <1>2, <1>3, <1>4, <1>5, <1>6 DEF IInv

\* A command begins: what it has before it is known, and what it writes.
LEMMA BeginInv ==
  ASSUME IInv,
         NEW name \in Results \ {"none"}, NEW steps \in Remainders,
         NEW newConfig \in Config, NEW newKey \in Keys \cup {NoKey},
         Begin(name, steps, newConfig, newKey),
         session' \in BOOLEAN, question' \in Questions, draft' \in Config, inputEnded' \in BOOLEAN,
         Head(steps) # Opens("token"), Head(steps) # Writes("token"), Head(steps) # Chmods("token"),
         Head(steps) # Chmods("key"),
         name = "setup" => steps \in ToEndOfToken /\ newConfig.matrix /\ newConfig.homeserver,
         name = "setupKept" => steps \in ToEndOfConfig,
         name \in {"configured", "setup", "setupKept"} =>
           ~newConfig.accessToken /\ newConfig.recoveryKey = NoKey,
         name = "configured" /\ newKey \in Keys \ GivenKeys =>
           /\ Head(steps) = Opens("key")
           /\ config.state = "whole" /\ config.value.recoveryKey = newKey
  PROVE  IInv'
<1> USE DEF Begin, files
<1>1. steps \in Seq(Steps) /\ steps # <<>>
  BY RemainderFollows DEF Follows
<1>a. secrets' = Secrets(steps) /\ todo' = steps
  BY Zenon DEF Secrets, Begin
<1>2. TypeOK'
  <2>1. secrets' \subseteq {"token", "key"}
    BY <1>a DEF Secrets
  <2> HIDE DEF Begin
  <2>2. /\ todo' = steps /\ plan' = [config |-> newConfig, key |-> newKey]
        /\ op' = name /\ last' = "none" /\ UNCHANGED files
    BY DEF Begin
  <2> QED
    BY <1>1, <2>1, <2>2 DEF IInv, TypeOK, Results
<1>3. PlanInv'
  <2>1. "token" \in secrets' => todo' \in ToEndOfToken \cup MigratingWithToken
    BY <1>a, SecretsOfRemainder
  <2> QED
    BY <1>1, <2>1, Zenon DEF IInv, PlanInv, Begin, files
<1>4. WrittenInv'
  <2>1. "key" \in secrets' => \/ Head(todo') = Opens("key") \/ Head(todo') = Writes("key")
                             \/ Head(todo') = Chmods("key")
    BY <1>a, SecretsOfRemainder
  <2> QED
    BY <1>1, <1>a, <2>1 DEF WrittenInv, Do, Opens, Writes, Chmods
<1>5. KeyInv'
  <2>1. /\ config' = config /\ key' = key /\ op' = name /\ todo' = steps
        /\ plan' = [config |-> newConfig, key |-> newKey]
    OBVIOUS
  <2>2. config'.state # "whole" => config'.value = Blank
    BY <2>1 DEF IInv, KeyInv
  <2>3. ASSUME op' = "configured", plan'.key \in Keys \ GivenKeys
        PROVE  /\ Do("open", "key")'
               /\ config'.state = "whole" /\ config'.value.recoveryKey = plan'.key
    BY <2>1, <2>3, <1>1 DEF Do, Opens
  <2> QED
    BY <2>2, <2>3, Zenon DEF KeyInv, GivenKeys
<1>6. SecretsStored' /\ SetupRepairs'
  BY DEF SecretsStored, SetupRepairs
<1> QED
  BY <1>2, <1>3, <1>4, <1>5, <1>6 DEF IInv

\* The steps of every command but a configure that moves a key.
LEMMA Started ==
  ASSUME NEW steps, NEW k, NEW r,
         \/ steps \in {Save, Save \o Secret("token"), Save \o <<>>}
         \/ steps = Order(k, r)
  PROVE  /\ steps \in Remainders
         /\ Head(steps) # Opens("token") /\ Head(steps) # Writes("token")
         /\ Head(steps) # Chmods("token") /\ Head(steps) # Chmods("key")
<1>1. Opens("config") # Opens("token") /\ Opens("config") # Writes("token")
      /\ Opens("config") # Chmods("token") /\ Opens("config") # Chmods("key")
  BY DEF Opens, Writes, Chmods
<1>2. Opens("key") # Opens("token") /\ Opens("key") # Writes("token")
      /\ Opens("key") # Chmods("token") /\ Opens("key") # Chmods("key")
  BY DEF Opens, Writes, Chmods
<1>3. steps \in ToEndOfConfig \cup ToEndOfToken \cup Migrating \cup MigratingWithToken
      /\ (Head(steps) = Opens("config") \/ Head(steps) = Opens("key"))
  BY Beginnings, Zenon
<1> QED
  BY <1>1, <1>2, <1>3, Zenon DEF Remainders

LEMMA ConfigureInv ==
  ASSUME IInv, NEW r \in Requests, Configure(r)
  PROVE  IInv'
<1> DEFINE newKey == IF r.recoveryKeyFile # NoKey THEN r.recoveryKeyFile
                                                  ELSE config.value.recoveryKey
           steps == Order(newKey, r)
           newConfig == Configured(config.value, r)
<1>1. r \in Request /\ config.value \in Config
  BY InputAssumption DEF IInv, TypeOK
<1>2. /\ newConfig \in Config
      /\ ~newConfig.accessToken /\ newConfig.recoveryKey = NoKey
  <2> DEFINE matrix == IF r.enabled = "keep" THEN config.value.matrix ELSE r.enabled = "yes"
             homeserver == IF r.homeserver = "keep" THEN config.value.homeserver
                                                    ELSE r.homeserver = "string"
             unsupported == IF r.implementation = "keep" THEN config.value.unsupported
                                                         ELSE r.implementation = "other"
  <2>1. matrix \in BOOLEAN /\ homeserver \in BOOLEAN /\ unsupported \in BOOLEAN
        /\ r.accountPassword \in BOOLEAN
    BY <1>1 DEF Config, Request
  <2>2. newConfig = [config.value EXCEPT !.matrix = matrix, !.homeserver = homeserver,
                                         !.unsupported = unsupported, !.accessToken = FALSE,
                                         !.accountPassword = r.accountPassword,
                                         !.recoveryKey = NoKey]
    BY DEF Configured
  <2> HIDE DEF matrix, homeserver, unsupported, newConfig
  <2> QED
    BY <1>1, <2>1, <2>2 DEF Config
<1>3. newKey \in Keys \cup {NoKey}
  BY <1>1 DEF Config, Request
<1>4. /\ Begin("configured", steps, newConfig, newKey) /\ Loads
      /\ UNCHANGED <<session, setupVars>>
  BY DEF Configure
<1>5. steps \in Remainders
      /\ Head(steps) # Opens("token") /\ Head(steps) # Writes("token")
      /\ Head(steps) # Chmods("token") /\ Head(steps) # Chmods("key")
  BY Started
<1>6. ASSUME newKey \in Keys \ GivenKeys
      PROVE  /\ Head(steps) = Opens("key")
             /\ config.state = "whole" /\ config.value.recoveryKey = newKey
  <2>1. newKey = config.value.recoveryKey /\ newKey # NoKey
    BY <1>6, KeyAssumption DEF GivenKeys
  <2>2. config.state = "whole"
    BY <2>1 DEF IInv, KeyInv, Blank
  <2>3. Head(steps) = Opens("key")
    BY <2>1, Beginnings
  <2> QED
    BY <2>1, <2>2, <2>3
<1>7. session' \in BOOLEAN /\ question' \in Questions
      /\ draft' \in Config /\ inputEnded' \in BOOLEAN
  BY <1>4 DEF IInv, TypeOK, setupVars
<1> HIDE DEF newKey, steps, newConfig
<1> QED
  BY <1>2, <1>3, <1>4, <1>5, <1>6, <1>7, BeginInv DEF Results

LEMMA ToggleInv ==
  ASSUME IInv, NEW enabled \in BOOLEAN, NEW isMatrix \in BOOLEAN, Toggle(enabled, isMatrix)
  PROVE  IInv'
<1> DEFINE newConfig == IF isMatrix THEN [config.value EXCEPT !.matrix = enabled]
                                    ELSE [config.value EXCEPT !.planned = enabled]
<1>1. newConfig \in Config
  BY DEF IInv, TypeOK, Config
<1>2. Begin("toggled", Save, newConfig, NoKey) /\ UNCHANGED <<session, setupVars>>
  BY DEF Toggle
<1>3. Save \in Remainders
      /\ Head(Save) # Opens("token") /\ Head(Save) # Writes("token") /\ Head(Save) # Chmods("token")
      /\ Head(Save) # Chmods("key")
  BY Started
<1>4. session' \in BOOLEAN /\ question' \in Questions
      /\ draft' \in Config /\ inputEnded' \in BOOLEAN
  BY <1>2 DEF IInv, TypeOK, setupVars
<1> HIDE DEF newConfig
<1> QED
  BY <1>1, <1>2, <1>3, <1>4, BeginInv DEF Results

LEMMA AnswerTokenInv ==
  ASSUME IInv, NEW typed \in BOOLEAN, AnswerToken(typed)
  PROVE  IInv'
<1> DEFINE name == IF typed THEN "setup" ELSE "setupKept"
           steps == Save \o (IF typed THEN Secret("token") ELSE <<>>)
           newConfig == Answered(draft)
<1>1. /\ newConfig \in Config
      /\ newConfig.matrix /\ newConfig.homeserver
      /\ ~newConfig.accessToken /\ newConfig.recoveryKey = NoKey
  BY DEF IInv, TypeOK, Answered, Config
<1>2. Begin(name, steps, newConfig, NoKey)
  BY DEF AnswerToken
<1>3. session' \in BOOLEAN /\ question' \in Questions
      /\ draft' \in Config /\ inputEnded' \in BOOLEAN
  BY BlankIsConfig DEF AnswerToken, IInv, TypeOK, Questions
<1>4. IF typed THEN steps = Save \o Secret("token") ELSE steps = Save \o <<>>
  OBVIOUS
<1>5. steps \in Remainders
      /\ Head(steps) # Opens("token") /\ Head(steps) # Writes("token")
      /\ Head(steps) # Chmods("token") /\ Head(steps) # Chmods("key")
  BY <1>4, Started
<1>6. IF typed THEN steps \in ToEndOfToken ELSE steps \in ToEndOfConfig
  BY <1>4, Beginnings
<1>7. name \in Results \ {"none"} /\ name # "configured"
      /\ (name = "setup" => steps \in ToEndOfToken)
      /\ (name = "setupKept" => steps \in ToEndOfConfig)
  BY <1>6 DEF Results
<1> HIDE DEF name, steps, newConfig
<1> QED
  BY <1>1, <1>2, <1>3, <1>5, <1>7, BeginInv

\* What a step leaves to do, and what it leaves alone.
LEMMA AfterStep ==
  ASSUME IInv, Write
  PROVE  /\ Follows(todo) /\ last = "none" /\ FileStep /\ todo' = Tail(todo)
         /\ UNCHANGED <<session, setupVars, secrets>>
         /\ IF todo' = <<>> THEN plan' = NoPlan /\ op' = "none" /\ last' = op
                            ELSE plan' = plan /\ op' = op /\ last' = last
<1>1. FileStep /\ todo' = Tail(todo) /\ UNCHANGED <<session, setupVars, secrets>>
      /\ IF todo' = <<>> THEN plan' = NoPlan /\ op' = "none" /\ last' = op
                         ELSE plan' = plan /\ op' = op /\ last' = last
  BY DEF Write, Over
<1>2. todo # <<>>
  BY <1>1 DEF FileStep, Do
<1>3. todo \in Remainders /\ last = "none"
  BY <1>2 DEF IInv, PlanInv
<1> QED
  BY <1>1, <1>3, RemainderFollows

LEMMA NextSteps ==
  ASSUME Follows(todo), FileStep, todo' = Tail(todo)
  PROVE  /\ todo' = <<>> => Do("write", "config") \/ Do("chmod", "token")
         /\ todo' # <<>> =>
              /\ Do("open", "config") => Head(todo') = <<"write", "config">>
              /\ Do("write", "config") => Head(todo') = <<"open", "token">>
              /\ Do("open", "token") => Head(todo') = <<"write", "token">>
              /\ Do("write", "token") => Head(todo') = <<"chmod", "token">>
              /\ Do("open", "key") => Head(todo') = <<"write", "key">>
              /\ Do("write", "key") => Head(todo') = <<"chmod", "key">>
              /\ Do("chmod", "key") => Head(todo') = <<"open", "config">>
         /\ Do("chmod", "token") => todo' = <<>>
<1>1. \/ Do("open", "config") \/ Do("write", "config")
      \/ Do("open", "token") \/ Do("write", "token") \/ Do("chmod", "token")
      \/ Do("open", "key") \/ Do("write", "key") \/ Do("chmod", "key")
  BY DEF FileStep
<1>2. todo' = <<>> => Do("write", "config") \/ Do("chmod", "token")
  BY <1>1 DEF Follows, Do, Opens, Writes, Chmods
<1> QED
  BY <1>2 DEF Follows, Do, Opens, Writes, Chmods

LEMMA WriteInv ==
  ASSUME IInv, Write
  PROVE  IInv'
<1>1. /\ Follows(todo) /\ last = "none" /\ FileStep /\ todo' = Tail(todo)
      /\ UNCHANGED <<session, setupVars, secrets>>
      /\ IF todo' = <<>> THEN plan' = NoPlan /\ op' = "none" /\ last' = op
                         ELSE plan' = plan /\ op' = op /\ last' = last
  BY AfterStep
<1>2. TypeOK
  BY DEF IInv
<1>3. TypeOK'
  <2>1. /\ todo' \in Seq(Steps) /\ todo # <<>>
    BY <1>1 DEF Follows
  <2>2. (op' = "none") = (todo' = <<>>)
    BY <1>1, <1>2, <2>1 DEF TypeOK
  <2>3. config' \in [state : FileStates, value : Config]
    BY <1>1, <1>2, BlankIsConfig DEF TypeOK, FileStep, FileStates
  <2>4. token' \in [state : FileStates, private : BOOLEAN]
    BY <1>1, <1>2 DEF TypeOK, FileStep, FileStates, Opened
  <2>5. key' \in [state : FileStates, private : BOOLEAN, value : Keys \cup {NoKey}]
    BY <1>1, <1>2 DEF TypeOK, FileStep, FileStates, Opened
  <2>6. plan' \in [config : Config, key : Keys \cup {NoKey}] /\ op' \in Results /\ last' \in Results
    BY <1>1, <1>2, BlankIsConfig DEF TypeOK, Results
  <2> QED
    BY <1>1, <1>2, <2>1, <2>2, <2>3, <2>4, <2>5, <2>6 DEF TypeOK, setupVars
<1>4. PlanInv'
  <2>1. CASE todo' = <<>>
    BY <1>1, <2>1, Zenon DEF PlanInv
  <2>2. CASE todo' # <<>>
    <3>1. todo' \in Remainders
      BY <1>1, <2>2 DEF Follows
    <3>2. Head(todo) # Chmods("token")
      BY <1>1, <2>2 DEF Follows
    <3>3. op = "setup" => todo' \in ToEndOfToken
      BY <1>1, <3>2 DEF IInv, PlanInv, Follows
    <3>4. op = "setupKept" => todo' \in ToEndOfConfig
      <4>1. SUFFICES ASSUME op = "setupKept"
                     PROVE  todo' \in ToEndOfConfig
        OBVIOUS
      <4>2. todo \in ToEndOfConfig
        BY <4>1 DEF IInv, PlanInv
      <4>3. Head(todo) = Writes("config") => Len(todo) = 1
        BY <4>2 DEF ToEndOfConfig, Opens, Writes
      <4>4. Head(todo) # Writes("config")
        BY <1>1, <2>2, <4>3, <1>2 DEF TypeOK
      <4> QED
        BY <1>1, <4>2, <4>4 DEF Follows
    <3>5. "token" \in secrets => todo' \in ToEndOfToken \cup MigratingWithToken
      BY <1>1, <3>2 DEF IInv, PlanInv, Follows
    <3> QED
      BY <1>1, <2>2, <3>1, <3>3, <3>4, <3>5 DEF IInv, PlanInv
  <2> QED
    BY <2>1, <2>2
<1>5. /\ todo' = <<>> => Do("write", "config") \/ Do("chmod", "token")
      /\ todo' # <<>> =>
           /\ Do("open", "config") => Head(todo') = <<"write", "config">>
           /\ Do("write", "config") => Head(todo') = <<"open", "token">>
           /\ Do("open", "token") => Head(todo') = <<"write", "token">>
           /\ Do("write", "token") => Head(todo') = <<"chmod", "token">>
           /\ Do("open", "key") => Head(todo') = <<"write", "key">>
           /\ Do("write", "key") => Head(todo') = <<"chmod", "key">>
           /\ Do("chmod", "key") => Head(todo') = <<"open", "config">>
      /\ Do("chmod", "token") => todo' = <<>>
  BY <1>1, NextSteps
<1>6. WrittenInv'
  <2>1. CASE todo' = <<>>
    BY <2>1 DEF WrittenInv, Do
  <2>2. CASE todo' # <<>>
    <3>1. Do("chmod", "key")' => key'.state = "whole"
      <4>1. Do("chmod", "key")' => Do("write", "key")
        BY <1>1, <1>5, <2>2 DEF FileStep, Do
      <4>2. Do("write", "key") => key' = [key EXCEPT !.state = "whole", !.value = plan.key]
        BY <1>1 DEF FileStep, Do
      <4>3. [key EXCEPT !.state = "whole", !.value = plan.key].state = "whole"
        BY <1>2 DEF TypeOK
      <4> QED
        BY <4>1, <4>2, <4>3
    <3>2. Do("chmod", "token")' => token'.state = "whole"
      BY <1>1, <1>2, <1>5, <2>2 DEF FileStep, Do, TypeOK
    <3>3. Do("open", "token")' \/ Do("write", "token")' \/ Do("chmod", "token")' =>
            config'.state = "whole" /\ config'.value = plan'.config
      BY <1>1, <1>2, <1>5, <2>2 DEF IInv, WrittenInv, FileStep, Do, TypeOK
    <3>4. ASSUME "key" \in secrets'
          PROVE  \/ Do("open", "key")' \/ Do("write", "key")' \/ Do("chmod", "key")'
                 \/ key'.state = "whole" /\ key'.private
      <4>1. \/ Do("open", "key") \/ Do("write", "key") \/ Do("chmod", "key")
            \/ key.state = "whole" /\ key.private
        BY <1>1, <3>4 DEF IInv, WrittenInv, Follows
      <4>2. CASE Do("open", "key") \/ Do("write", "key")
        BY <1>5, <2>2, <4>2 DEF Do
      <4>3. CASE Do("chmod", "key")
        <5>1. key.state = "whole" /\ key' = [key EXCEPT !.private = TRUE]
          BY <1>1, <4>3 DEF IInv, WrittenInv, FileStep, Do
        <5> QED
          BY <1>2, <5>1 DEF TypeOK
      <4>4. CASE ~(Do("open", "key") \/ Do("write", "key") \/ Do("chmod", "key"))
        <5>1. key' = key
          BY <1>1, <4>4 DEF FileStep
        <5> QED
          BY <4>1, <4>4, <5>1
      <4> QED
        BY <4>2, <4>3, <4>4
    <3> QED
      BY <3>1, <3>2, <3>3, <3>4 DEF WrittenInv
  <2> QED
    BY <2>1, <2>2
<1>7. KeyInv'
  <2>1. config'.state # "whole" => config'.value = Blank
    BY <1>1 DEF IInv, KeyInv, FileStep
  <2>3. CASE todo' = <<>>
    BY <1>1, <2>1, <2>3 DEF KeyInv
  <2>4. CASE todo' # <<>>
    <3>1. ASSUME op = "configured", plan.key \in Keys \ GivenKeys
          PROVE  IF Do("open", "key")' \/ Do("write", "key")'
                 THEN config'.state = "whole" /\ config'.value.recoveryKey = plan.key
                 ELSE key'.state = "whole" /\ key'.value = plan.key
      <4>1. IF Do("open", "key") \/ Do("write", "key")
            THEN config.state = "whole" /\ config.value.recoveryKey = plan.key
            ELSE key.state = "whole" /\ key.value = plan.key
        BY <3>1 DEF IInv, KeyInv
      <4>2. CASE Do("open", "key") /\ config' = config
        BY <1>5, <2>4, <4>1, <4>2 DEF Do
      <4>3. CASE Do("write", "key") /\ key' = [key EXCEPT !.state = "whole", !.value = plan.key]
        <5>1. key'.state = "whole" /\ key'.value = plan.key
          BY <1>2, <4>3 DEF TypeOK
        <5> QED
          BY <1>5, <2>4, <4>3, <5>1 DEF Do
      <4>4. CASE Do("chmod", "key") /\ key' = [key EXCEPT !.private = TRUE]
        <5>1. key'.state = key.state /\ key'.value = key.value
          BY <1>2, <4>4 DEF TypeOK
        <5> QED
          BY <1>5, <2>4, <4>1, <4>4, <5>1 DEF Do
      <4>5. CASE key' = key /\ (Do("open", "config") \/ Do("write", "config") \/ Do("open", "token")
                                  \/ Do("write", "token") \/ Do("chmod", "token"))
        BY <1>5, <2>4, <4>1, <4>5 DEF Do
      <4> QED
        BY <1>1, <4>2, <4>3, <4>4, <4>5 DEF FileStep
    <3> QED
      BY <1>1, <2>1, <2>4, <3>1 DEF KeyInv, GivenKeys
  <2> QED
    BY <2>3, <2>4
<1>8. SecretsStored' /\ SetupRepairs'
  <2>1. CASE todo' # <<>>
    BY <2>1 DEF SecretsStored, SetupRepairs
  <2>2. CASE todo' = <<>> /\ op \in {"configured", "setup", "setupKept"}
    <3>1. ~plan.config.accessToken /\ plan.config.recoveryKey = NoKey
      BY <2>2 DEF IInv, PlanInv
    <3>2. config'.state = "whole" /\ config'.value = plan.config
      BY <1>1, <1>5, <2>2 DEF IInv, WrittenInv, FileStep, Do
    <3>3. "key" \in secrets => key'.state = "whole" /\ key'.private
      <4>1. ~(Do("open", "key") \/ Do("write", "key") \/ Do("chmod", "key"))
        BY <1>5, <2>2 DEF Do
      <4>2. key' = key
        BY <1>1, <4>1 DEF FileStep
      <4>3. "key" \in secrets => key.state = "whole" /\ key.private
        BY <1>1, <4>1 DEF IInv, WrittenInv, Follows
      <4> QED
        BY <4>2, <4>3
    <3>4. "token" \in secrets \/ op = "setup" => token'.state = "whole" /\ token'.private
      <4>1. SUFFICES ASSUME "token" \in secrets \/ op = "setup"
                     PROVE  token'.state = "whole" /\ token'.private
        OBVIOUS
      <4>2. todo \in ToEndOfToken \cup MigratingWithToken
        BY <1>1, <4>1 DEF IInv, PlanInv, Follows
      <4>3. ~Do("write", "config")
        <5>1. SUFFICES ASSUME Do("write", "config")
                       PROVE  FALSE
          OBVIOUS
        <5>2. Head(todo) # Chmods("token")
          BY <5>1 DEF Do, Chmods
        <5>3. <<>> \in Remainders
          BY <1>1, <2>2, <4>2, <5>2 DEF Follows, Remainders
        <5> QED
          BY <5>3, RemainderFollows, Zenon DEF Follows
      <4> QED
        BY <1>1, <1>2, <1>5, <2>2, <4>3 DEF IInv, WrittenInv, FileStep, Do, TypeOK
    <3>5. op = "setup" => plan.config.matrix /\ plan.config.homeserver
      BY DEF IInv, PlanInv
    <3>6. last' = op
      BY <1>1, <2>2
    <3>7. SecretsStored'
      BY <1>1, <3>1, <3>2, <3>3, <3>4, <3>6 DEF SecretsStored
    <3>8. SetupRepairs'
      BY <3>1, <3>2, <3>4, <3>5, <3>6 DEF SetupRepairs, Creatable, Loads
    <3> QED
      BY <3>7, <3>8
  <2>3. CASE todo' = <<>> /\ op \notin {"configured", "setup", "setupKept"}
    BY <1>1, <2>3 DEF SecretsStored, SetupRepairs
  <2> QED
    BY <2>1, <2>2, <2>3
<1> QED
  BY <1>3, <1>4, <1>6, <1>7, <1>8 DEF IInv

LEMMA InterruptedInv ==
  ASSUME IInv, Interrupted, session' \in BOOLEAN
  PROVE  IInv'
<1> USE DEF Interrupted, Over, files, setupVars
<1>1. TypeOK'
  BY BlankIsConfig DEF IInv, TypeOK, Results
<1>2. PlanInv' /\ WrittenInv' /\ KeyInv'
  BY DEF IInv, PlanInv, WrittenInv, KeyInv, Do
<1>3. last' = "none"
  BY DEF IInv, PlanInv
<1>4. SecretsStored' /\ SetupRepairs'
  BY <1>3 DEF SecretsStored, SetupRepairs
<1> QED
  BY <1>1, <1>2, <1>4 DEF IInv

\* IInv holds at the start and every step keeps it.
THEOREM Inductive == Spec => []IInv
<1>1. IInv /\ [Next]_vars => IInv'
  <2> SUFFICES ASSUME IInv, [Next]_vars
               PROVE  IInv'
    OBVIOUS
  <2>0. /\ session \in BOOLEAN /\ question \in Questions
        /\ draft \in Config /\ inputEnded \in BOOLEAN
        /\ config.value \in Config
    BY DEF IInv, TypeOK
  <2>1. CASE Start
    BY <2>1, <2>0, QuietInv DEF Start, setupVars
  <2>2. CASE Stop
    BY <2>2, <2>0, QuietInv DEF Stop, setupVars
  <2>3. ASSUME NEW r \in Requests, Configure(r)
        PROVE  IInv'
    BY <2>3, ConfigureInv
  <2>4. ASSUME NEW enabled \in BOOLEAN, NEW isMatrix \in BOOLEAN, Toggle(enabled, isMatrix)
        PROVE  IInv'
    BY <2>4, ToggleInv
  <2>5. CASE Setup
    BY <2>5, <2>0, QuietInv DEF Setup, Questions
  <2>6. CASE InputEnds
    BY <2>6, <2>0, QuietInv DEF InputEnds
  <2>7. CASE AnswerHomeserver
    BY <2>7, <2>0, QuietInv DEF AnswerHomeserver, Questions
  <2>8. CASE AnswerEncryption
    BY <2>8, <2>0, QuietInv DEF AnswerEncryption, Questions
  <2>9. ASSUME NEW typed \in BOOLEAN, AnswerToken(typed)
        PROVE  IInv'
    BY <2>9, AnswerTokenInv
  <2>10. CASE Write
    BY <2>10, WriteInv
  <2>11. CASE WriteFails
    BY <2>11, <2>0, InterruptedInv DEF WriteFails
  <2>12. CASE Crash
    BY <2>12, <2>0, InterruptedInv DEF Crash
  <2>13. CASE SetupStopped
    BY <2>13, <2>0, BlankIsConfig, QuietInv DEF SetupStopped, Questions
  <2>14. CASE UNCHANGED vars
    BY <2>14, <2>0, QuietInv DEF vars, setupVars
  <2> QED
    BY <2>1, <2>2, <2>3, <2>4, <2>5, <2>6, <2>7, <2>8, <2>9, <2>10, <2>11, <2>12, <2>13, <2>14
       DEF Next
<1> QED
  BY InitInv, <1>1, PTL DEF Spec

\* The variables have their types, and a command is under way exactly when it
\* has a step before it.
THEOREM TypeCorrect == Spec => []TypeOK
BY Inductive, PTL DEF IInv

\* A configure or a setup that ended well left every secret it had to write in a
\* whole file that only the owner reads, and no access token and no recovery key
\* among the settings.
THEOREM SecretsAreStored == Spec => []SecretsStored
BY Inductive, PTL DEF IInv

\* A setup in which a token was typed repairs what a crash left, but for a
\* planned transport and an implementation there is not, which it leaves enabled.
THEOREM SetupDoesRepair == Spec => []SetupRepairs
BY Inductive, PTL DEF IInv

\* A recovery key still in the settings is never lost by the configure that
\* moves it to its file.
THEOREM MigrationIsSafe == Spec => MigrationSafe
<1> DEFINE Kept == \A k \in Keys \ GivenKeys :
                     (op = "configured" /\ plan.key = k /\ Holds(k)) => Holds(k)'
<1>1. IInv /\ [Next]_vars => [Kept]_vars
  <2> SUFFICES ASSUME IInv, [Next]_vars,
                      NEW k \in Keys \ GivenKeys, op = "configured", plan.key = k, Holds(k)
               PROVE  Holds(k)'
    OBVIOUS
  <2>1. CASE UNCHANGED files
    BY <2>1 DEF files, Holds
  <2>2. CASE Write
    <3>1. IF Do("open", "key") \/ Do("write", "key")
          THEN config.state = "whole" /\ config.value.recoveryKey = k
          ELSE key.state = "whole" /\ key.value = k
      BY DEF IInv, KeyInv
    <3>2. CASE Do("chmod", "key") /\ key' = [key EXCEPT !.private = TRUE]
      <4>1. key'.state = key.state /\ key'.value = key.value
        BY <3>2 DEF IInv, TypeOK
      <4> QED
        BY <3>1, <3>2, <4>1 DEF Holds, Do
    <3>3. CASE (Do("open", "key") \/ Do("write", "key")) /\ config' = config
      BY <3>1, <3>3 DEF Holds
    <3>4. CASE key' = key /\ ~(Do("open", "key") \/ Do("write", "key"))
      BY <3>1, <3>4 DEF Holds
    <3>5. \/ Do("chmod", "key") /\ key' = [key EXCEPT !.private = TRUE]
          \/ (Do("open", "key") \/ Do("write", "key")) /\ config' = config
          \/ key' = key /\ ~(Do("open", "key") \/ Do("write", "key"))
      BY <2>2 DEF Write, FileStep, Do
    <3> QED
      BY <3>2, <3>3, <3>4, <3>5
  <2>3. Write \/ UNCHANGED files
    BY DEF Next, Start, Stop, Configure, Toggle, Begin, Setup, InputEnds, AnswerHomeserver,
           AnswerEncryption, AnswerToken, WriteFails, Crash, Interrupted, SetupStopped, vars, files
  <2> QED
    BY <2>1, <2>2, <2>3
<1>2. MigrationSafe <=> [][Kept]_vars
  BY DEF MigrationSafe
<1> QED
  BY <1>1, <1>2, Inductive, PTL DEF Spec
=============================================================================
