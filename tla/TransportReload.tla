-------------------------- MODULE TransportReload --------------------------
(***************************************************************************)
(* Administration of a running gateway.  send() of an admin command runs    *)
(* the admin operation (load config.json, change it, save it, write the     *)
(* access token), then reloads: load the file again, create a provider for  *)
(* every enabled transport, disconnect the providers the manager holds,     *)
(* replace them and connect the new ones.  Every await is a place where     *)
(* another send(), which nothing makes wait, can run; a crash can come      *)
(* anywhere, and the next start finds what the disk holds.                  *)
(*                                                                          *)
(* A provider is seen as the manager sees it: connect() looks up a path,    *)
(* spawns a child and shakes hands, disconnect() ends the child that is     *)
(* #process, and a child may exit by itself at any moment.  The module      *)
(* SidecarBridge models what happens in between.                            *)
(***************************************************************************)
EXTENDS Naturals, FiniteSets

CONSTANTS
  Names,        \* TRANSPORT_NAMES
  Available,    \* those with a factory in the registry
  Sends,        \* the calls of send() with an admin command, each once
  Boot,         \* the start of the gateway, which creates and connects too
  Nobody,       \* an undefined #process, or no access token
  Commands,     \* the admin commands a consumer may send: see Command
  FirstDisks,   \* what the state directory may hold before the first start: see Disk
  Frail,        \* the providers whose child may exit by itself
  SerialSends,  \* a send() is awaited before the next, as runGatewayStdio does
  MaxCrashes    \* bound: how often the gateway's process may die

Senders == Sends \cup {Boot}

\* A provider object is known by who created it, and a child process by the
\* provider and the caller of the connect() that spawned it.
Providers == Senders \X Names
Children == Providers \X Senders

\* settings: the sends whose settings were merged in.
Entry == [enabled : BOOLEAN, settings : SUBSET Senders]
Config == [Names -> Entry]

\* Before loadGatewayConfig() has a file to read, and in variables not in use.
Blank == [n \in Names |-> [enabled |-> FALSE, settings |-> {}]]

\* config.json, and the access token that setup may have written.
Disk == [config : Config, token : {Boot, Nobody}]

NoCommand == [transport |-> Nobody]

\* connect_transport and disconnect_transport set `enabled' only;
\* configure_transport may change any part; its settings set the homeserver.
Command == [transport : Names, enabled : {"yes", "no", "keep"}, settings : BOOLEAN, token : BOOLEAN]

ASSUME NamesAssumption == Available \subseteq Names

ASSUME SenderAssumption == Boot \notin Sends /\ Nobody \notin Senders

ASSUME InputAssumption ==
  /\ Commands \subseteq Command
  /\ FirstDisks \subseteq Disk
  /\ Frail \subseteq Providers
  /\ SerialSends \in BOOLEAN
  /\ MaxCrashes \in Nat

VARIABLES
  file,   \* config.json: [kind, config]
  token   \* matrix-access-token.txt: who wrote it

diskVars == <<file, token>>

VARIABLES
  gateway,     \* "down" or "up"
  crashes,
  transports,  \* manager.transports
  built        \* what each provider object was created from

managerVars == <<gateway, crashes, transports, built>>

VARIABLES
  step,     \* where send() is
  command,  \* its admin command
  config,   \* the configuration it loaded and, before saving, changed
  list,     \* the providers it created
  result    \* what the sender learned

sendVars == <<step, command, config, list, result>>

VARIABLES
  process,    \* #process of a provider: the caller whose child it is
  connected,  \* #isConnected
  alive,      \* the child processes that run
  exited,     \* history: the connected providers whose child ended by itself
  call,       \* connect() and disconnect() of a provider, by its caller
  victim      \* the child a disconnect() is ending

providerVars == <<process, connected, alive, exited, call, victim>>

vars == <<file, token, gateway, crashes, transports, built,
          step, command, config, list, result,
          process, connected, alive, exited, call, victim>>

Calls == Senders \X Providers

Steps == {"unused", "loading", "saving", "writing", "securing", "filling", "reloading",
          "creating", "replacing", "disconnecting", "connecting", "waiting", "done"}

FileKinds == {"config", "empty", "garbled"}

\* A change of config.json that is being written truncates it first; a longer
\* text underneath, from another writer, leaves a tail that is not JSON.
File == [kind : FileKinds, config : Config]

TypeOK ==
  /\ file \in File
  /\ token \in Senders \cup {Nobody}
  /\ gateway \in {"down", "up"}
  /\ crashes \in 0..MaxCrashes
  /\ transports \subseteq Providers
  /\ built \in [Providers -> [entry : Entry, token : Senders \cup {Nobody}]]
  /\ step \in [Senders -> Steps]
  /\ command \in [Sends -> Command \cup {NoCommand}]
  /\ config \in [Senders -> Config]
  /\ list \in [Senders -> SUBSET Providers]
  /\ result \in [Senders -> {"none", "ok", "refused", "failed", "threw", "lost"}]
  /\ process \in [Providers -> Senders \cup {Nobody}]
  /\ connected \in [Providers -> BOOLEAN]
  /\ alive \subseteq Children
  /\ exited \subseteq Providers
  /\ call \in [Calls -> {"none", "looking", "handshake", "rejected", "ok", "failed", "closing", "closed"}]
  /\ victim \in [Calls -> Senders \cup {Nobody}]

Init ==
  /\ \E disk \in FirstDisks :
       /\ file = [kind |-> "config", config |-> disk.config]
       /\ token = disk.token
  /\ gateway = "down"
  /\ crashes = 0
  /\ transports = {}
  /\ built = [p \in Providers |-> [entry |-> Blank[p[2]], token |-> Nobody]]
  /\ step = [o \in Senders |-> "unused"]
  /\ command = [o \in Sends |-> NoCommand]
  /\ config = [o \in Senders |-> Blank]
  /\ list = [o \in Senders |-> {}]
  /\ result = [o \in Senders |-> "none"]
  /\ process = [p \in Providers |-> Nobody]
  /\ connected = [p \in Providers |-> FALSE]
  /\ alive = {}
  /\ exited = {}
  /\ call = [c \in Calls |-> "none"]
  /\ victim = [c \in Calls |-> Nobody]

-----------------------------------------------------------------------------
(* Configuration and creation of providers.                                 *)

Idle(o) == step[o] \in {"unused", "done"}
Quiet == \A o \in Senders : Idle(o)

Enabled(c) == {n \in Names : c[n].enabled}

\* A factory exists, the homeserver is set and the token can be read.
Creatable(c) ==
  \A n \in Enabled(c) : n \in Available /\ c[n].settings # {} /\ token # Nobody

ProvidersOf(o, c) == {<<o, n>> : n \in Enabled(c)}

\* createConfiguredTransports(): every provider keeps its part of the
\* configuration and the token as it was read.
Build(o, c) ==
  built' = [p \in Providers |->
    IF p \in ProvidersOf(o, c) THEN [entry |-> c[p[2]], token |-> token] ELSE built[p]]

\* Mutant: the entry is made anew, and settings that were there are lost.
BugChanged(c, o) ==
  LET cmd == command[o]
      old == c[cmd.transport]
  IN  [c EXCEPT ![cmd.transport] =
        [enabled |-> IF cmd.enabled = "keep" THEN old.enabled ELSE cmd.enabled = "yes",
         settings |-> IF cmd.settings THEN {o} ELSE {}]]

\* configureTransport() and setTransportEnabled(): the changed configuration.
Changed(c, o) ==
  LET cmd == command[o]
      old == c[cmd.transport]
  IN  [c EXCEPT ![cmd.transport] =
        [enabled |-> IF cmd.enabled = "keep" THEN old.enabled ELSE cmd.enabled = "yes",
         settings |-> IF cmd.settings THEN old.settings \cup {o} ELSE old.settings]]

Goto(o, s) == step' = [step EXCEPT ![o] = s]

\* send() ends, and its local variables with it.
Finish(o, r) ==
  /\ Goto(o, "done")
  /\ result' = [result EXCEPT ![o] = r]
  /\ config' = [config EXCEPT ![o] = Blank]
  /\ list' = [list EXCEPT ![o] = {}]
  /\ call' = [c \in Calls |-> IF c[1] = o /\ call[c] \in {"ok", "failed"} THEN "none" ELSE call[c]]

-----------------------------------------------------------------------------
(* The start of a gateway, and the end of its process.                      *)

\* cli.ts and createGateway(): an unreadable file or a provider that cannot be
\* created ends the program before it takes a command.
CanStart == file.kind = "config" /\ Creatable(file.config)

Start ==
  /\ gateway = "down"
  /\ CanStart
  /\ gateway' = "up"
  /\ Build(Boot, file.config)
  /\ transports' = ProvidersOf(Boot, file.config)
  /\ Goto(Boot, "connecting")
  /\ result' = [result EXCEPT ![Boot] = "none"]
  /\ UNCHANGED <<diskVars, crashes, command, config, list, providerVars>>

\* The process ends, by itself or at any moment; its sidecars end with their
\* standard input.
ProcessEnds ==
  /\ gateway = "up"
  /\ crashes < MaxCrashes
  /\ crashes' = crashes + 1
  /\ gateway' = "down"
  /\ transports' = {}
  /\ step' = [o \in Senders |-> IF step[o] = "unused" THEN "unused" ELSE "done"]
  /\ result' = [o \in Senders |-> IF Idle(o) THEN result[o] ELSE "lost"]
  /\ list' = [o \in Senders |-> {}]
  /\ process' = [p \in Providers |-> Nobody]
  /\ connected' = [p \in Providers |-> FALSE]
  /\ alive' = {}
  /\ exited' = {}
  /\ call' = [c \in Calls |-> "none"]
  /\ victim' = [c \in Calls |-> Nobody]
  /\ config' = [o \in Senders |-> Blank]
  /\ UNCHANGED <<diskVars, built, command>>

-----------------------------------------------------------------------------
(* send() of an admin command, up to the saved configuration.               *)

Send(o) ==
  /\ o \in Sends
  /\ step[o] = "unused"
  /\ gateway = "up"
  /\ SerialSends => Quiet
  /\ \E cmd \in Commands : command' = [command EXCEPT ![o] = cmd]
  /\ Goto(o, "loading")
  /\ UNCHANGED <<diskVars, managerVars, config, list, result, providerVars>>

\* loadGatewayConfig(): text that is not JSON throws out of send().
Load(o) ==
  /\ step[o] = "loading"
  /\ \/ /\ file.kind = "config"
        /\ config' = [config EXCEPT ![o] = Changed(file.config, o)]
        /\ Goto(o, "saving")
        /\ UNCHANGED <<list, result, call>>
     \/ /\ file.kind # "config"
        /\ Finish(o, "threw")
  /\ UNCHANGED <<diskVars, managerVars, command, process, connected, alive, exited, victim>>

\* The command exits with 1 and has saved nothing: a flag that cannot be read, or
\* a recovery key given as a setting or in an empty file.  Nothing is reloaded.
Refused(o) ==
  /\ step[o] = "loading"
  /\ command[o].settings
  /\ Finish(o, "refused")
  /\ UNCHANGED <<diskVars, managerVars, command, process, connected, alive, exited, victim>>

\* saveGatewayConfig(): writeFile() opens with truncation, then writes.
OpenFile(o) ==
  /\ step[o] = "saving"
  /\ file' = [file EXCEPT !.kind = "empty"]
  /\ Goto(o, "writing")
  /\ UNCHANGED <<token, managerVars, command, config, list, result, providerVars>>

\* Over another writer's text, which of the two is longer depends on values.
WriteFile(o) ==
  /\ step[o] = "writing"
  /\ \E kind \in {"config", "garbled"} :
       /\ kind = "garbled" => \/ file.kind = "garbled"
                              \/ file.kind = "config" /\ file.config # config[o]
       /\ file' = [kind |-> kind, config |-> config[o]]
  /\ Goto(o, IF command[o].token THEN "securing" ELSE "reloading")
  /\ UNCHANGED <<token, managerVars, command, config, list, result, providerVars>>

\* writeSecret() of the access token, truncating first as well.
OpenToken(o) ==
  /\ step[o] = "securing"
  /\ token' = Nobody
  /\ Goto(o, "filling")
  /\ UNCHANGED <<file, managerVars, command, config, list, result, providerVars>>

WriteToken(o) ==
  /\ step[o] = "filling"
  /\ token' = o
  /\ Goto(o, "reloading")
  /\ UNCHANGED <<file, managerVars, command, config, list, result, providerVars>>

-----------------------------------------------------------------------------
(* reloadTransports(): what throws in here is reported as "saved but could  *)
(* not be applied".                                                         *)

\* The configuration the new providers are created from.
Reloaded(o) == file.config

\* Mutant: the providers are disconnected before the configuration is read.
BugReload(o) ==
  /\ step[o] = "reloading"
  /\ connected' = [p \in Providers |-> FALSE]
  /\ config' = [config EXCEPT ![o] = Reloaded(o)]
  /\ Goto(o, "creating")
  /\ UNCHANGED <<diskVars, managerVars, command, list, result, process, alive, exited, call, victim>>

Reload(o) ==
  /\ step[o] = "reloading"
  /\ \/ /\ file.kind = "config"
        /\ config' = [config EXCEPT ![o] = Reloaded(o)]
        /\ Goto(o, "creating")
        /\ UNCHANGED <<list, result, call>>
     \/ /\ file.kind # "config"
        /\ Finish(o, "failed")
  /\ UNCHANGED <<diskVars, managerVars, command, process, connected, alive, exited, victim>>

Create(o) ==
  /\ step[o] = "creating"
  /\ \/ /\ Creatable(config[o])
        /\ Build(o, config[o])
        /\ list' = [list EXCEPT ![o] = ProvidersOf(o, config[o])]
        /\ Goto(o, "replacing")
        /\ UNCHANGED <<config, result, call>>
     \/ /\ ~Creatable(config[o])
        /\ Finish(o, "failed")
        /\ UNCHANGED built
  /\ UNCHANGED <<diskVars, gateway, crashes, transports, command, process, connected, alive, exited, victim>>

\* disconnectAll(): every provider's disconnect() runs up to its first await.
DisconnectAll(o) ==
  /\ step[o] = "replacing"
  /\ connected' = [p \in Providers |-> connected[p] /\ p \notin transports]
  /\ call' = [c \in Calls |->
       IF c[1] = o /\ c[2] \in transports
       THEN IF process[c[2]] = Nobody THEN "closed" ELSE "closing"
       ELSE call[c]]
  /\ victim' = [c \in Calls |-> IF c[1] = o /\ c[2] \in transports THEN process[c[2]] ELSE victim[c]]
  /\ Goto(o, "disconnecting")
  /\ UNCHANGED <<diskVars, managerVars, command, config, list, result, process, alive, exited>>

\* Mutant: the map is not cleared of the providers it held.
BugReplaced(o) ==
  transports' = transports \cup list[o]

\* clear(), and addTransport() of every new provider.
Replaced(o) ==
  transports' = list[o]

\* The names of a list differ, so addTransport() finds none of them taken.
ReplaceTransports(o) ==
  /\ step[o] = "disconnecting"
  /\ \A p \in Providers : call[<<o, p>>] # "closing"
  /\ Replaced(o)
  /\ call' = [c \in Calls |-> IF c[1] = o THEN "none" ELSE call[c]]
  /\ victim' = [c \in Calls |-> IF c[1] = o THEN Nobody ELSE victim[c]]
  /\ Goto(o, "connecting")
  /\ UNCHANGED <<diskVars, gateway, crashes, built, command, config, list, result>>
  /\ UNCHANGED <<process, connected, alive, exited>>

\* connectAll(): connect() of a connected provider returns at once.
ConnectAll(o) ==
  /\ step[o] = "connecting"
  /\ call' = [c \in Calls |->
       IF c[1] = o /\ c[2] \in transports
       THEN IF connected[c[2]] THEN "ok" ELSE "looking"
       ELSE call[c]]
  /\ Goto(o, "waiting")
  /\ UNCHANGED <<diskVars, managerVars, command, config, list, result>>
  /\ UNCHANGED <<process, connected, alive, exited, victim>>

\* Promise.all: the first failure is the result, without waiting for the rest.
AllConnected(o) ==
  /\ step[o] = "waiting"
  /\ \A p \in Providers : call[<<o, p>>] \in {"none", "ok"}
  /\ Finish(o, "ok")
  /\ UNCHANGED <<diskVars, managerVars, command, process, connected, alive, exited, victim>>

ConnectFailed(o) ==
  /\ step[o] = "waiting"
  /\ \E p \in Providers : call[<<o, p>>] = "failed"
  /\ Finish(o, "failed")
  /\ UNCHANGED <<diskVars, managerVars, command, process, connected, alive, exited, victim>>

-----------------------------------------------------------------------------
(* connect() and disconnect() of one provider.                              *)

\* The requests of p that are pending are rejected.
Rejected(p) == [c \in Calls |-> IF c[2] = p /\ call[c] = "handshake" THEN "rejected" ELSE call[c]]

Spawn(o, p) ==
  /\ call[<<o, p>>] = "looking"
  /\ call' = [call EXCEPT ![<<o, p>>] = "handshake"]
  /\ process' = [process EXCEPT ![p] = o]
  /\ alive' = alive \cup {<<p, o>>}
  /\ UNCHANGED <<diskVars, managerVars, sendVars, connected, exited, victim>>

\* Lines of a child that is no longer #process are dropped.
Connected(o, p) ==
  /\ call[<<o, p>>] = "handshake"
  /\ process[p] = o
  /\ call' = [call EXCEPT ![<<o, p>>] = "ok"]
  /\ connected' = [connected EXCEPT ![p] = TRUE]
  /\ exited' = exited \ {p}
  /\ UNCHANGED <<diskVars, managerVars, sendVars, process, alive, victim>>

\* Mutants: the child of a failed connect() is left running; the call never
\* ends when its child is no longer #process.
BugLeavesChild(o, p) ==
  /\ call[<<o, p>>] \in {"handshake", "rejected"}
  /\ call' = [Rejected(p) EXCEPT ![<<o, p>>] = "failed"]
  /\ process' = [process EXCEPT ![p] = IF @ = o THEN Nobody ELSE @]
  /\ connected' = [connected EXCEPT ![p] = FALSE]
  /\ UNCHANGED <<diskVars, managerVars, sendVars, alive, exited, victim>>

BugNeverTimesOut(o, p) ==
  /\ call[<<o, p>>] \in {"handshake", "rejected"}
  /\ process[p] = o
  /\ call' = [Rejected(p) EXCEPT ![<<o, p>>] = "failed"]
  /\ process' = [process EXCEPT ![p] = Nobody]
  /\ connected' = [connected EXCEPT ![p] = FALSE]
  /\ alive' = alive \ {<<p, o>>}
  /\ UNCHANGED <<diskVars, managerVars, sendVars, exited, victim>>

\* A timeout, a refusal by the homeserver, an exit, or a rejection.
FailsToConnect(o, p) ==
  /\ call[<<o, p>>] \in {"handshake", "rejected"}
  /\ call' = [Rejected(p) EXCEPT ![<<o, p>>] = "failed"]
  /\ process' = [process EXCEPT ![p] = IF @ = o THEN Nobody ELSE @]
  /\ connected' = [connected EXCEPT ![p] = FALSE]
  /\ alive' = alive \ {<<p, o>>}
  /\ UNCHANGED <<diskVars, managerVars, sendVars, exited, victim>>

\* The child has ended and reset() has run.
Disconnected(o, p) ==
  /\ call[<<o, p>>] = "closing"
  /\ call' = [Rejected(p) EXCEPT ![<<o, p>>] = "closed"]
  /\ process' = [process EXCEPT ![p] = Nobody]
  /\ connected' = [connected EXCEPT ![p] = FALSE]
  /\ alive' = alive \ {<<p, victim[<<o, p>>]>>}
  /\ UNCHANGED <<diskVars, managerVars, sendVars, exited, victim>>

\* A child ends by itself.  The exit handler rejects what is pending and drops the
\* child if it is #process; nothing connects it again.
ChildExits(p, o) ==
  /\ p \in Frail
  /\ <<p, o>> \in alive
  /\ alive' = alive \ {<<p, o>>}
  /\ IF process[p] = o
     THEN /\ process' = [process EXCEPT ![p] = Nobody]
          /\ connected' = [connected EXCEPT ![p] = FALSE]
          /\ exited' = IF connected[p] THEN exited \cup {p} ELSE exited
          /\ call' = Rejected(p)
     ELSE UNCHANGED <<process, connected, exited, call>>
  /\ UNCHANGED <<diskVars, managerVars, sendVars, victim>>

-----------------------------------------------------------------------------

AdminStep(o) ==
  Load(o) \/ Refused(o) \/ OpenFile(o) \/ WriteFile(o) \/ OpenToken(o) \/ WriteToken(o)

ReloadStep(o) ==
  \/ Reload(o) \/ Create(o) \/ DisconnectAll(o) \/ ReplaceTransports(o)
  \/ ConnectAll(o) \/ AllConnected(o) \/ ConnectFailed(o)

ProviderStep(o, p) ==
  Spawn(o, p) \/ Connected(o, p) \/ FailsToConnect(o, p) \/ Disconnected(o, p)

Next ==
  \/ Start
  \/ ProcessEnds
  \/ \E o \in Sends : Send(o) \/ AdminStep(o)
  \/ \E o \in Senders : ReloadStep(o)
  \/ \E o \in Senders, p \in Providers : ProviderStep(o, p) \/ ChildExits(p, o)

Spec == Init /\ [][Next]_vars

\* Reads, writes and timers complete, and a provider's calls return: SidecarBridge
\* checks that (EveryCallReturns) where a disconnect() does not meet two connects
\* of one provider, which takes three sends.  Nothing makes a consumer send or a
\* child exit.
FairSpec ==
  /\ Spec
  /\ \A o \in Senders :
       /\ WF_vars(o \in Sends /\ AdminStep(o))
       /\ WF_vars(ReloadStep(o))
       /\ \A p \in Providers : WF_vars(ProviderStep(o, p))

-----------------------------------------------------------------------------
(* Properties.                                                              *)

Applied ==
  /\ {p[2] : p \in transports} = Enabled(file.config)
  /\ \A p \in transports : built[p] = [entry |-> file.config[p[2]], token |-> token]

\* When no send() is under way and the saved configuration can be created, the
\* manager holds exactly its providers, each created from what the disk holds
\* now (gateway-client.ts reloads after every command that exits with 0).
AppliedIsSaved ==
  gateway = "up" /\ Quiet /\ CanStart => Applied

\* No sidecar runs that the manager could not disconnect: a child that is alive
\* is #process of a provider in the map.
NoStray ==
  \A child \in alive : child[1] \in transports /\ process[child[1]] = child[2]

Replacing(o) == step[o] \in {"disconnecting", "connecting", "waiting"}

\* A provider whose reload succeeded stays connected, unless its child ends by
\* itself, until some send() holds the providers to put in its place: a command
\* that is refused, an unreadable file or a configuration that cannot be created
\* disturbs nothing.
StaysConnected ==
  \A p \in transports :
    result[p[1]] = "ok" /\ (\A o \in Senders : ~Replacing(o)) => connected[p] \/ p \in exited

Saved(o) == step[o] \in Steps \ {"unused", "loading", "saving", "writing", "done"}
            \/ result[o] \in {"ok", "failed"}

\* What a configure_transport set stays in the file, whatever is changed later.
SettingsKept ==
  file.kind = "config" =>
    \A o \in Sends : Saved(o) /\ command[o].settings
                        => o \in file.config[command[o].transport].settings

\* False of this code where sends overlap (docs/features/gateway-sdk.md): after
\* commands that succeeded, the transports are those of the configuration.
AppliedAfterSuccess ==
  (/\ gateway = "up" /\ Quiet /\ file.kind = "config"
   /\ \A o \in Senders : result[o] = "ok") => Applied

\* Every send() ends, in a result, an error, or the end of the process.
EverySendEnds ==
  \A o \in Sends : step[o] # "unused" ~> step[o] = "done"

-----------------------------------------------------------------------------
(* The inductive invariants of the proofs: however sends overlap.           *)

\* A send() has its command from its start, and its result at its end.
CommandInv ==
  \A o \in Sends :
    /\ step[o] # "unused" => command[o] \in Command
    /\ step[o] # "done" => result[o] = "none"

ListInv == \A o \in Senders : list[o] \subseteq {o} \X Names

GenerationInv == \E o \in Senders : transports \subseteq {o} \X Names

\* No send() is under way without a gateway, and one at a time if they are serial.
AloneInv ==
  /\ gateway = "down" => Quiet
  /\ SerialSends => \A o, q \in Senders : ~Idle(o) /\ ~Idle(q) => o = q

\* What a send() will save has the settings that were saved before, and its own.
WriterInv ==
  SerialSends =>
    \A q \in Sends :
      /\ step[q] = "writing" => file.kind = "empty"
      /\ step[q] \in {"saving", "writing"} =>
           \A o \in Sends : (Saved(o) \/ o = q) /\ command[o].settings
                              => o \in config[q][command[o].transport].settings

IInv ==
  /\ TypeOK
  /\ CommandInv
  /\ ListInv
  /\ GenerationInv
  /\ AloneInv
  /\ WriterInv
  /\ SerialSends => SettingsKept

-----------------------------------------------------------------------------
(* What is invariant besides where sends are serial: the configuration that *)
(* runs (ConfigInv) and, where one transport has a factory, the children    *)
(* (ChildInv).                                                              *)

\* What was reloaded is what the disk holds, and the list is made of it.
ReloadedInv ==
  \A o \in Senders :
    /\ step[o] \in {"creating", "replacing", "disconnecting"} =>
         file.kind = "config" /\ config[o] = file.config
    /\ step[o] \in {"replacing", "disconnecting"} =>
         /\ list[o] = ProvidersOf(o, config[o])
         /\ \A p \in list[o] : built[p] = [entry |-> config[o][p[2]], token |-> token]

\* The saved configuration is applied whenever no send() is between its save and
\* the replacement of the providers.
AppliedInv ==
  (/\ gateway = "up" /\ CanStart
   /\ \A o \in Senders : step[o] \in {"unused", "loading", "saving", "connecting", "waiting", "done"})
    => Applied

ConfigInv == ReloadedInv /\ AppliedInv

OneFactory == \A m, n \in Available : m = n

\* A provider of a list or of the map has a factory.
FactoryInv ==
  /\ transports \subseteq Senders \X Available
  /\ \A o \in Senders : list[o] \subseteq Senders \X Available

\* Only the send() that disconnects or connects calls providers, and only those
\* in the map.
CallAt(o, p) ==
  /\ call[<<o, p>>] # "none" => p \in transports /\ step[o] \in {"disconnecting", "waiting"}
  /\ step[o] = "disconnecting" /\ p \in transports =>
       \/ call[<<o, p>>] = "closing" /\ process[p] \in {victim[<<o, p>>], Nobody}
       \/ call[<<o, p>>] = "closed" /\ process[p] = Nobody
  /\ step[o] = "waiting" /\ p \in transports =>
       \/ call[<<o, p>>] = "looking" /\ process[p] = Nobody
       \/ call[<<o, p>>] = "handshake" /\ process[p] = o
       \/ call[<<o, p>>] = "rejected" /\ process[p] = Nobody
       \/ call[<<o, p>>] = "ok" /\ (connected[p] \/ p \in exited)
       \/ call[<<o, p>>] = "failed"

CallInv == \A o \in Senders, p \in Providers : CallAt(o, p)

\* A provider has a child only while it is in the map, and not before its
\* connect() is called.
ProcessInv ==
  /\ gateway = "down" => transports = {}
  /\ \A p \in Providers :
       /\ process[p] # Nobody => p \in transports
       /\ connected[p] => process[p] # Nobody
       /\ (\E o \in Senders : step[o] = "connecting") => process[p] = Nobody

\* A send() connects its own providers, and has succeeded only when it ended.
ResultInv ==
  \A o \in Senders :
    /\ result[o] = "ok" => step[o] = "done"
    /\ step[o] \in {"connecting", "waiting"} => transports \subseteq {o} \X Names

StaysInv ==
  \A p \in transports :
    result[p[1]] = "ok" /\ (\A o \in Senders : step[o] # "disconnecting") =>
      connected[p] \/ p \in exited

ChildInv ==
  /\ FactoryInv
  /\ CallInv
  /\ ProcessInv
  /\ NoStray
  /\ ResultInv
  /\ StaysInv
=============================================================================
