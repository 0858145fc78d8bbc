---------------------------- MODULE StateFiles ----------------------------
(***************************************************************************)
(* The files of the state directory, config.json, the access token and the  *)
(* recovery key, and the commands that change them: `umg setup`, and in a   *)
(* running session configure, connect and disconnect.  A file is truncated  *)
(* and then written, a secret is made private after that, and the process   *)
(* may end between any two steps.                                           *)
(*                                                                          *)
(* Setup is a process of its own: a session's commands may change the files *)
(* while it asks its questions.  The writes of two commands do not mix here *)
(* (TransportReload has that).                                              *)
(***************************************************************************)
EXTENDS Sequences, FiniteSets

CONSTANTS
  Keys,          \* recovery keys
  NoKey,
  InitialConfigs,
  InitialKeys,   \* those that the key's file may hold at first
  Requests       \* the arguments of configure that are tried

ASSUME KeyAssumption == NoKey \notin Keys /\ InitialKeys \subseteq Keys

\* What config.json says.  Of the matrix settings: the homeserver is a string,
\* the implementation or adapter is one there is not, and which secrets are
\* among them, as older versions stored them.
Config ==
  [matrix : BOOLEAN, homeserver : BOOLEAN, unsupported : BOOLEAN, accessToken : BOOLEAN,
   accountPassword : BOOLEAN, recoveryKey : Keys \cup {NoKey}, planned : BOOLEAN]

Blank ==
  [matrix |-> FALSE, homeserver |-> FALSE, unsupported |-> FALSE, accessToken |-> FALSE,
   accountPassword |-> FALSE, recoveryKey |-> NoKey, planned |-> FALSE]

\* configure matrix with its flags; recoveryKeyFile is what the named file holds,
\* and a token that is given is not empty.
Request ==
  [enabled : {"keep", "yes", "no"}, homeserver : {"keep", "string", "boolean"},
   implementation : {"keep", "mautrix", "other"}, accessToken : BOOLEAN, accountPassword : BOOLEAN, recoveryKeyFile : Keys \cup {NoKey}]

ASSUME InputAssumption == InitialConfigs \subseteq Config /\ Requests \subseteq Request

VARIABLES
  config,        \* config.json
  token,         \* matrix-access-token.txt
  key            \* matrix-recovery-key.txt

files == <<config, token, key>>

VARIABLES
  session,       \* a chat or a gateway is running
  todo,          \* what the command under way has to do to the files
  plan,          \* what it writes to them
  op             \* the command under way

commandVars == <<todo, plan, op>>

VARIABLES
  question,      \* what setup is asking
  draft,         \* the configuration it started from, with the answers
  inputEnded,
  last,          \* history: the command that ended last, if it ended well
  secrets        \* history: the secrets that the last command had to write

setupVars == <<question, draft, inputEnded>>

vars == <<files, session, commandVars, setupVars, last, secrets>>

FileStates == {"absent", "torn", "whole"}
Steps == {"open", "write", "chmod"} \X {"config", "token", "key"}
Questions == {"none", "homeserver", "encryption", "token", "newToken"}
Results == {"none", "configured", "toggled", "setup", "setupKept"}

TypeOK ==
  /\ config \in [state : FileStates, value : Config]
  /\ token \in [state : FileStates, private : BOOLEAN]
  /\ key \in [state : FileStates, private : BOOLEAN, value : Keys \cup {NoKey}]
  /\ session \in BOOLEAN
  /\ todo \in Seq(Steps)
  /\ plan \in [config : Config, key : Keys \cup {NoKey}]
  /\ op \in Results
  /\ (op = "none") = (todo = <<>>)
  /\ question \in Questions
  /\ draft \in Config
  /\ inputEnded \in BOOLEAN
  /\ last \in Results
  /\ secrets \subseteq {"token", "key"}

NoPlan == [config |-> Blank, key |-> NoKey]

Init ==
  /\ config \in {[state |-> "absent", value |-> Blank]}
                  \cup {[state |-> "whole", value |-> c] : c \in InitialConfigs}
  /\ token \in [state : {"absent", "whole"}, private : BOOLEAN]
  /\ key \in {[state |-> "absent", private |-> FALSE, value |-> NoKey]}
                \cup [state : {"whole"}, private : BOOLEAN, value : InitialKeys]
  /\ session = FALSE
  /\ todo = <<>>
  /\ plan = NoPlan
  /\ op = "none"
  /\ question = "none"
  /\ draft = Blank
  /\ inputEnded = FALSE
  /\ last = "none"
  /\ secrets = {}

-----------------------------------------------------------------------------
(* The session.                                                             *)

Loads == config.state # "torn"

\* createConfiguredTransports(): no planned transport is enabled, and matrix,
\* if it is, is of the one implementation, has what it needs, and has neither
\* token nor recovery key in its settings.
Creatable ==
  /\ Loads
  /\ ~config.value.planned
  /\ config.value.matrix =>
       /\ ~config.value.unsupported
       /\ config.value.homeserver
       /\ ~config.value.accessToken
       /\ config.value.recoveryKey = NoKey
       /\ token.state = "whole" /\ token.private

Start ==
  /\ ~session
  /\ Creatable
  /\ session' = TRUE
  /\ UNCHANGED <<files, commandVars, setupVars, last, secrets>>

Stop ==
  /\ session
  /\ todo = <<>>
  /\ session' = FALSE
  /\ UNCHANGED <<files, commandVars, setupVars, last, secrets>>

-----------------------------------------------------------------------------
(* Commands: each loads the configuration and says what it will write.      *)

BugSecret(file) == <<<<"open", file>>, <<"write", file>>>>

\* writeSecret(): the mode given to writeFile is only that of a new file.
Secret(file) == <<<<"open", file>>, <<"write", file>>, <<"chmod", file>>>>

Save == <<<<"open", "config">>, <<"write", "config">>>>

Begin(name, steps, newConfig, newKey) ==
  /\ todo = <<>>
  /\ todo' = steps
  /\ plan' = [config |-> newConfig, key |-> newKey]
  /\ op' = name
  /\ last' = "none"
  /\ secrets' = {file \in {"token", "key"} : \E i \in DOMAIN steps : steps[i] = <<"write", file>>}
  /\ UNCHANGED files

\* The matrix settings without the secrets that configure takes out of them,
\* then with what the flags set.
Configured(c, r) ==
  [c EXCEPT !.matrix = IF r.enabled = "keep" THEN @ ELSE r.enabled = "yes",
            !.homeserver = IF r.homeserver = "keep" THEN @ ELSE r.homeserver = "string",
            !.unsupported = IF r.implementation = "keep" THEN @ ELSE r.implementation = "other",
            !.accessToken = FALSE,
            !.accountPassword = r.accountPassword,
            !.recoveryKey = NoKey]

BugOrder(newKey, r) ==
  Save \o (IF newKey = NoKey THEN <<>> ELSE Secret("key"))
       \o (IF r.accessToken THEN Secret("token") ELSE <<>>)

\* The recovery key is written before the configuration that loses it, the
\* access token after the configuration.
Order(newKey, r) ==
  (IF newKey = NoKey THEN <<>> ELSE Secret("key"))
    \o Save \o (IF r.accessToken THEN Secret("token") ELSE <<>>)

Configure(r) ==
  LET newKey == IF r.recoveryKeyFile # NoKey THEN r.recoveryKeyFile ELSE config.value.recoveryKey
  IN  /\ session
      /\ Loads
      /\ Begin("configured", Order(newKey, r), Configured(config.value, r), newKey)
      /\ UNCHANGED <<session, setupVars>>

\* connect and disconnect, of matrix and of a transport that is only planned.
Toggle(enabled, isMatrix) ==
  /\ session
  /\ Loads
  /\ Begin("toggled", Save,
           IF isMatrix THEN [config.value EXCEPT !.matrix = enabled]
                       ELSE [config.value EXCEPT !.planned = enabled], NoKey)
  /\ UNCHANGED <<session, setupVars>>

-----------------------------------------------------------------------------
(* Setup asks its questions, then writes.                                   *)

Setup ==
  /\ question = "none"
  /\ op \notin {"setup", "setupKept"}
  /\ Loads
  /\ question' = "homeserver"
  /\ draft' = config.value
  /\ UNCHANGED <<files, session, commandVars, inputEnded, last, secrets>>

InputEnds ==
  /\ question # "none"
  /\ ~inputEnded
  /\ inputEnded' = TRUE
  /\ UNCHANGED <<files, session, commandVars, question, draft, last, secrets>>

\* A blank answer keeps what there is; where there is nothing, and where the
\* answer is neither yes nor no, the question is asked again.
AnswerHomeserver ==
  /\ question = "homeserver"
  /\ ~inputEnded \/ draft.homeserver
  /\ question' = "encryption"
  /\ UNCHANGED <<files, session, commandVars, draft, inputEnded, last, secrets>>

\* Any file there is counts as a token, even an empty one, when the question
\* is put.
AnswerEncryption ==
  /\ question = "encryption"
  /\ question' = IF token.state = "absent" THEN "newToken" ELSE "token"
  /\ UNCHANGED <<files, session, commandVars, draft, inputEnded, last, secrets>>

BugAnswered(c) == [c EXCEPT !.matrix = TRUE, !.homeserver = TRUE, !.accessToken = FALSE]

\* Setup takes the access token and the recovery key out of the settings.
Answered(c) ==
  [c EXCEPT !.matrix = TRUE, !.homeserver = TRUE, !.accessToken = FALSE, !.recoveryKey = NoKey]

\* A blank answer keeps the token that was there.
AnswerToken(typed) ==
  /\ question \in {"token", "newToken"}
  /\ IF typed THEN ~inputEnded ELSE question = "token"
  /\ Begin(IF typed THEN "setup" ELSE "setupKept",
           Save \o (IF typed THEN Secret("token") ELSE <<>>), Answered(draft), NoKey)
  /\ question' = "none"
  /\ draft' = Blank
  /\ inputEnded' = FALSE
  /\ UNCHANGED session

-----------------------------------------------------------------------------
(* The files.                                                               *)

\* Truncated, and created with the mode of a secret if it was not there.
Opened(file) == [file EXCEPT !.state = "torn", !.private = @ \/ file.state = "absent"]

Do(step, file) == todo # <<>> /\ Head(todo) = <<step, file>>

FileStep ==
  \/ /\ Do("open", "config")
     /\ config' = [state |-> "torn", value |-> Blank]
     /\ UNCHANGED <<token, key>>
  \/ /\ Do("write", "config")
     /\ config' = [state |-> "whole", value |-> plan.config]
     /\ UNCHANGED <<token, key>>
  \/ /\ Do("open", "token")
     /\ token' = Opened(token)
     /\ UNCHANGED <<config, key>>
  \/ /\ Do("write", "token")
     /\ token' = [token EXCEPT !.state = "whole"]
     /\ UNCHANGED <<config, key>>
  \/ /\ Do("chmod", "token")
     /\ token' = [token EXCEPT !.private = TRUE]
     /\ UNCHANGED <<config, key>>
  \/ /\ Do("open", "key")
     /\ key' = [Opened(key) EXCEPT !.value = NoKey]
     /\ UNCHANGED <<config, token>>
  \/ /\ Do("write", "key")
     /\ key' = [key EXCEPT !.state = "whole", !.value = plan.key]
     /\ UNCHANGED <<config, token>>
  \/ /\ Do("chmod", "key")
     /\ key' = [key EXCEPT !.private = TRUE]
     /\ UNCHANGED <<config, token>>

Over == plan' = NoPlan /\ op' = "none"

Write ==
  /\ FileStep
  /\ todo' = Tail(todo)
  /\ IF todo' = <<>> THEN Over /\ last' = op ELSE UNCHANGED <<plan, op, last>>
  /\ UNCHANGED <<session, setupVars, secrets>>

Interrupted ==
  /\ todo # <<>>
  /\ todo' = <<>>
  /\ Over
  /\ UNCHANGED <<files, setupVars, last, secrets>>

\* A write fails: the command does, and the session goes on.
WriteFails == Interrupted /\ UNCHANGED session

Crash == Interrupted /\ session' = (session /\ op \in {"setup", "setupKept"})

\* Setup is stopped at a question.
SetupStopped ==
  /\ question # "none"
  /\ question' = "none"
  /\ draft' = Blank
  /\ inputEnded' = FALSE
  /\ UNCHANGED <<files, session, commandVars, last, secrets>>

-----------------------------------------------------------------------------

Next ==
  \/ Start
  \/ Stop
  \/ \E r \in Requests : Configure(r)
  \/ \E enabled, isMatrix \in BOOLEAN : Toggle(enabled, isMatrix)
  \/ Setup
  \/ InputEnds
  \/ AnswerHomeserver
  \/ AnswerEncryption
  \/ \E typed \in BOOLEAN : AnswerToken(typed)
  \/ Write
  \/ WriteFails
  \/ Crash
  \/ SetupStopped

Spec == Init /\ [][Next]_vars

\* Setup goes on as long as there is an answer, and writes end.
FairSpec ==
  /\ Spec
  /\ WF_vars(AnswerHomeserver)
  /\ WF_vars(AnswerEncryption)
  /\ WF_vars(\E typed \in BOOLEAN : AnswerToken(typed))
  /\ WF_vars(Write)

-----------------------------------------------------------------------------
(* Properties.                                                              *)

Holds(k) ==
  \/ config.state = "whole" /\ config.value.recoveryKey = k
  \/ key.state = "whole" /\ key.value = k

GivenKeys == {r.recoveryKeyFile : r \in Requests}

\* A recovery key that is still in the settings survives every configure
\* without a key of its own, wherever it is interrupted: it is moved to its
\* file before the configuration drops it (admin.ts:167, admin.test.ts:152).
MigrationSafe ==
  [][\A k \in Keys \ GivenKeys :
       (op = "configured" /\ plan.key = k /\ Holds(k)) => Holds(k)']_vars

\* After a configure or a setup that ended well, every secret it had to write
\* is in a whole file that only the owner reads, whatever file an older version,
\* a crash or the user left there, and it left no access token and no recovery
\* key among the settings (admin.ts:332, setup.ts:88).
SecretsStored ==
  last \in {"configured", "setup", "setupKept"} /\ todo = <<>> =>
    /\ config.state = "whole"
    /\ ~config.value.accessToken
    /\ config.value.recoveryKey = NoKey
    /\ "token" \in secrets => token.state = "whole" /\ token.private
    /\ "key" \in secrets => key.state = "whole" /\ key.private

\* A setup in which a token was typed repairs whatever a crash left, except a
\* configuration that cannot be read, which it refuses, and what it leaves as
\* it is: a planned transport that is enabled, and an implementation that there
\* is not (setup.ts:65 and 94, matrix.ts:137, cli.ts:168).
SetupRepairs ==
  last = "setup" /\ todo = <<>> =>
    Creatable \/ config.value.planned \/ config.value.unsupported

\* False of this code: "Matrix configured ... Run: umg chat" (setup.ts:111),
\* that is, after a setup that kept the token, a session can be started.
KeptTokenUsable ==
  last = "setupKept" /\ todo = <<>> =>
    Creatable \/ config.value.planned \/ config.value.unsupported

\* False of this code: what configure does for a recovery key in the settings,
\* "migrates legacy Matrix recovery keys before saving config"
\* (admin.test.ts:152), setup does.
SetupKeepsKey ==
  [][\A k \in Keys :
       (op \in {"setup", "setupKept"} /\ config'.state = "torn" /\ config.value.recoveryKey = k)
         => (key.state = "whole" /\ key.value = k)]_vars

\* False of this code: setup whose input has ended ends (setup.ts:176: "so tests
\* and piped setup work").
SetupEnds == inputEnded ~> question = "none"
-----------------------------------------------------------------------------
(* The inductive invariant of StateFiles_proofs.                            *)

Opens(file) == <<"open", file>>
Writes(file) == <<"write", file>>
Chmods(file) == <<"chmod", file>>

\* What a setup in which a token was typed has before it, any command without a
\* token, and a configure that moves a recovery key.
ToEndOfToken ==
  {<<Opens("config"), Writes("config"), Opens("token"), Writes("token"), Chmods("token")>>,
   <<Writes("config"), Opens("token"), Writes("token"), Chmods("token")>>,
   <<Opens("token"), Writes("token"), Chmods("token")>>,
   <<Writes("token"), Chmods("token")>>,
   <<Chmods("token")>>}

ToEndOfConfig == {<<Opens("config"), Writes("config")>>, <<Writes("config")>>}

Migrating ==
  {<<Opens("key"), Writes("key"), Chmods("key"), Opens("config"), Writes("config")>>,
   <<Writes("key"), Chmods("key"), Opens("config"), Writes("config")>>,
   <<Chmods("key"), Opens("config"), Writes("config")>>}

MigratingWithToken ==
  {<<Opens("key"), Writes("key"), Chmods("key"), Opens("config"), Writes("config"),
     Opens("token"), Writes("token"), Chmods("token")>>,
   <<Writes("key"), Chmods("key"), Opens("config"), Writes("config"),
     Opens("token"), Writes("token"), Chmods("token")>>,
   <<Chmods("key"), Opens("config"), Writes("config"),
     Opens("token"), Writes("token"), Chmods("token")>>}

Remainders == ToEndOfToken \cup ToEndOfConfig \cup Migrating \cup MigratingWithToken

\* A command has one of these before it, and what it writes is without secrets.
PlanInv ==
  /\ todo # <<>> => todo \in Remainders /\ last = "none"
  /\ op = "setup" => todo \in ToEndOfToken
  /\ todo # <<>> /\ "token" \in secrets => todo \in ToEndOfToken \cup MigratingWithToken
  /\ op = "setupKept" => todo \in ToEndOfConfig
  /\ op \in {"configured", "setup", "setupKept"} =>
       ~plan.config.accessToken /\ plan.config.recoveryKey = NoKey
  /\ op = "setup" => plan.config.matrix /\ plan.config.homeserver

\* What it has written is there.
WrittenInv ==
  /\ Do("open", "token") \/ Do("write", "token") \/ Do("chmod", "token") =>
       config.state = "whole" /\ config.value = plan.config
  /\ Do("chmod", "token") => token.state = "whole"
  /\ Do("chmod", "key") => key.state = "whole"
  /\ todo # <<>> /\ "key" \in secrets =>
       \/ Do("open", "key") \/ Do("write", "key") \/ Do("chmod", "key")
       \/ key.state = "whole" /\ key.private

\* A key that is migrated is in the settings until it is whole in its file.
KeyInv ==
  /\ config.state # "whole" => config.value = Blank
  /\ op = "configured" /\ plan.key \in Keys \ GivenKeys =>
       IF Do("open", "key") \/ Do("write", "key")
       THEN config.state = "whole" /\ config.value.recoveryKey = plan.key
       ELSE key.state = "whole" /\ key.value = plan.key

IInv ==
  /\ TypeOK
  /\ PlanInv
  /\ WrittenInv
  /\ KeyInv
  /\ SecretsStored
  /\ SetupRepairs
=============================================================================
