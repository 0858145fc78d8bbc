----------------------- MODULE TransportReload_proofs -----------------------
(***************************************************************************)
(* Proofs about TransportReload for any transports, commands and sends: what *)
(* holds however sends overlap, and what holds of sends that do not.         *)
(***************************************************************************)
EXTENDS TransportReload, TLAPS

-----------------------------------------------------------------------------
(* Types.                                                                   *)

LEMMA BlankIsConfig == Blank \in Config /\ \A n \in Names : Blank[n] \in Entry
BY DEF Blank, Config, Entry

LEMMA InitType == Init => TypeOK
<1> SUFFICES ASSUME Init
             PROVE  TypeOK
  OBVIOUS
<1>1. PICK disk \in FirstDisks : file = [kind |-> "config", config |-> disk.config] /\ token = disk.token
  BY DEF Init
<1>2. disk.config \in Config /\ disk.token \in {Boot, Nobody}
  BY InputAssumption DEF Disk
<1>3. file \in File /\ token \in Senders \cup {Nobody}
  BY <1>1, <1>2 DEF File, FileKinds, Senders
<1>4. built \in [Providers -> [entry : Entry, token : Senders \cup {Nobody}]]
  BY BlankIsConfig DEF Init, Providers
<1>5. config \in [Senders -> Config] /\ list \in [Senders -> SUBSET Providers]
  BY BlankIsConfig DEF Init
<1>6. crashes \in 0..MaxCrashes
  BY InputAssumption DEF Init
<1> QED
  BY <1>3, <1>4, <1>5, <1>6 DEF Init, TypeOK, Steps

LEMMA ChangedIsConfig ==
  ASSUME NEW c \in Config, NEW o \in Sends, command[o] \in Command
  PROVE  /\ Changed(c, o) \in Config
         /\ \A n \in Names : c[n].settings \subseteq Changed(c, o)[n].settings
         /\ command[o].settings => o \in Changed(c, o)[command[o].transport].settings
<1> DEFINE cmd == command[o]
           old == c[cmd.transport]
           new == [enabled |-> IF cmd.enabled = "keep" THEN old.enabled ELSE cmd.enabled = "yes",
                   settings |-> IF cmd.settings THEN old.settings \cup {o} ELSE old.settings]
<1>1. cmd.transport \in Names /\ cmd.settings \in BOOLEAN /\ old \in Entry /\ o \in Senders
  BY DEF Command, Config, Senders
<1>2. new \in Entry /\ old.settings \subseteq new.settings /\ (cmd.settings => o \in new.settings)
  BY <1>1 DEF Entry
<1>3. Changed(c, o) = [c EXCEPT ![cmd.transport] = new]
  BY DEF Changed
<1> HIDE DEF new
<1> QED
  BY <1>1, <1>2, <1>3 DEF Config

LEMMA BuildType ==
  ASSUME TypeOK, NEW o \in Senders, NEW c \in Config, Build(o, c)
  PROVE  /\ built' \in [Providers -> [entry : Entry, token : Senders \cup {Nobody}]]
         /\ ProvidersOf(o, c) \subseteq Providers
         /\ ProvidersOf(o, c) \subseteq {o} \X Names
<1>1. \A p \in Providers : p[2] \in Names
  BY DEF Providers
<1>2. built \in [Providers -> [entry : Entry, token : Senders \cup {Nobody}]]
      /\ token \in Senders \cup {Nobody}
  BY DEF TypeOK
<1> QED
  BY <1>1, <1>2 DEF Build, Config, ProvidersOf, Enabled, Providers

\* The last step of a send().
LEMMA FinishType ==
  ASSUME TypeOK, NEW o \in Senders, NEW r \in {"ok", "refused", "failed", "threw"}, Finish(o, r)
  PROVE  /\ step' \in [Senders -> Steps]
         /\ config' \in [Senders -> Config]
         /\ list' \in [Senders -> SUBSET Providers]
         /\ result' \in [Senders -> {"none", "ok", "refused", "failed", "threw", "lost"}]
         /\ call' \in [Calls -> {"none", "looking", "handshake", "rejected", "ok", "failed",
                                 "closing", "closed"}]
BY BlankIsConfig DEF Finish, Goto, TypeOK, Steps

LEMMA AdminType ==
  ASSUME TypeOK, CommandInv, NEW o \in Sends, AdminStep(o)
  PROVE  TypeOK'
<1> USE DEF diskVars, managerVars, providerVars
<1>1. o \in Senders
  BY DEF Senders
<1>2. CASE Load(o)
  <2>1. CASE /\ step[o] = "loading" /\ config' = [config EXCEPT ![o] = Changed(file.config, o)]
             /\ Goto(o, "saving") /\ UNCHANGED <<list, result, call>>
    <3>1. command[o] \in Command
      BY <2>1 DEF CommandInv
    <3>2. Changed(file.config, o) \in Config
      BY <3>1, ChangedIsConfig DEF TypeOK, File
    <3> QED
      BY <1>2, <2>1, <3>2 DEF Load, Goto, TypeOK, Steps
  <2>2. CASE Finish(o, "threw")
    BY <1>1, <1>2, <2>2, FinishType DEF Load, TypeOK
  <2> QED
    BY <1>2, <2>1, <2>2 DEF Load
<1>7. CASE Refused(o)
  BY <1>1, <1>7, FinishType DEF Refused, TypeOK
<1>3. CASE OpenFile(o)
  BY <1>1, <1>3 DEF OpenFile, Goto, TypeOK, File, FileKinds, Steps
<1>4. CASE WriteFile(o)
  <2>1. file' \in File
    BY <1>1, <1>4 DEF WriteFile, TypeOK, File, FileKinds
  <2>2. step' \in [Senders -> Steps]
    BY <1>1, <1>4 DEF WriteFile, Goto, TypeOK, Steps
  <2> QED
    BY <1>4, <2>1, <2>2 DEF WriteFile, TypeOK
<1>5. CASE OpenToken(o)
  BY <1>1, <1>5 DEF OpenToken, Goto, TypeOK, Steps
<1>6. CASE WriteToken(o)
  BY <1>1, <1>6 DEF WriteToken, Goto, TypeOK, Steps
<1> QED
  BY <1>2, <1>3, <1>4, <1>5, <1>6, <1>7 DEF AdminStep

LEMMA ReloadType ==
  ASSUME TypeOK, NEW o \in Senders, ReloadStep(o)
  PROVE  TypeOK'
<1> USE DEF diskVars, managerVars, providerVars
<1>1. CASE Reload(o)
  <2>1. CASE /\ config' = [config EXCEPT ![o] = Reloaded(o)]
             /\ Goto(o, "creating") /\ UNCHANGED <<list, result, call>>
    BY <1>1, <2>1 DEF Reload, Reloaded, Goto, TypeOK, File, Steps
  <2>2. CASE Finish(o, "failed")
    BY <1>1, <2>2, FinishType DEF Reload, TypeOK
  <2> QED
    BY <1>1, <2>1, <2>2 DEF Reload
<1>2. CASE Create(o)
  <2>1. CASE /\ Build(o, config[o]) /\ list' = [list EXCEPT ![o] = ProvidersOf(o, config[o])]
             /\ Goto(o, "replacing") /\ UNCHANGED <<config, result, call>>
    <3>1. config[o] \in Config
      BY DEF TypeOK
    <3> QED
      BY <1>2, <2>1, <3>1, BuildType DEF Create, Goto, TypeOK, Steps
  <2>2. CASE Finish(o, "failed") /\ UNCHANGED built
    BY <1>2, <2>2, FinishType DEF Create, TypeOK
  <2> QED
    BY <1>2, <2>1, <2>2 DEF Create
<1>3. CASE DisconnectAll(o)
  <2>1. connected' \in [Providers -> BOOLEAN]
    BY <1>3 DEF DisconnectAll, TypeOK
  <2>2. \A c \in Calls : c[2] \in Providers
    BY DEF Calls
  <2>3. call' \in [Calls -> {"none", "looking", "handshake", "rejected", "ok", "failed", "closing",
                             "closed"}]
    BY <1>3 DEF DisconnectAll, TypeOK
  <2>4. victim' \in [Calls -> Senders \cup {Nobody}]
    BY <1>3, <2>2 DEF DisconnectAll, TypeOK
  <2>5. step' \in [Senders -> Steps]
    BY <1>3 DEF DisconnectAll, Goto, TypeOK, Steps
  <2> QED
    BY <1>3, <2>1, <2>3, <2>4, <2>5 DEF DisconnectAll, TypeOK
<1>4. CASE ReplaceTransports(o)
  BY <1>4 DEF ReplaceTransports, Replaced, Goto, TypeOK, Steps
<1>5. CASE ConnectAll(o)
  BY <1>5 DEF ConnectAll, Goto, TypeOK, Steps
<1>6. CASE AllConnected(o)
  BY <1>6, FinishType DEF AllConnected, TypeOK
<1>7. CASE ConnectFailed(o)
  BY <1>7, FinishType DEF ConnectFailed, TypeOK
<1> QED
  BY <1>1, <1>2, <1>3, <1>4, <1>5, <1>6, <1>7 DEF ReloadStep

LEMMA ProviderType ==
  ASSUME TypeOK, NEW o \in Senders, NEW p \in Providers, ProviderStep(o, p)
  PROVE  TypeOK'
<1> USE DEF diskVars, managerVars, sendVars
<1>1. <<p, o>> \in Children
  BY DEF Children
<1>2. Rejected(p) \in [Calls -> {"none", "looking", "handshake", "rejected", "ok", "failed",
                                 "closing", "closed"}]
  BY DEF Rejected, TypeOK
<1>3. CASE Spawn(o, p)
  BY <1>1, <1>3 DEF Spawn, TypeOK
<1>4. CASE Connected(o, p)
  BY <1>4 DEF Connected, TypeOK
<1>5. CASE FailsToConnect(o, p)
  BY <1>2, <1>5 DEF FailsToConnect, TypeOK
<1>6. CASE Disconnected(o, p)
  BY <1>2, <1>6 DEF Disconnected, TypeOK
<1> QED
  BY <1>3, <1>4, <1>5, <1>6 DEF ProviderStep

LEMMA ExitType ==
  ASSUME TypeOK, NEW o \in Senders, NEW p \in Providers, ChildExits(p, o)
  PROVE  TypeOK'
<1> USE DEF diskVars, managerVars, sendVars
<1>1. Rejected(p) \in [Calls -> {"none", "looking", "handshake", "rejected", "ok", "failed",
                                 "closing", "closed"}]
  BY DEF Rejected, TypeOK
<1>2. CASE process[p] = o
  <2>1. exited' \subseteq Providers
    BY <1>2 DEF ChildExits, TypeOK
  <2> QED
    BY <1>1, <1>2, <2>1 DEF ChildExits, TypeOK
<1>3. CASE process[p] # o
  BY <1>3 DEF ChildExits, TypeOK
<1> QED
  BY <1>2, <1>3

LEMMA GatewayType ==
  ASSUME TypeOK, Start \/ ProcessEnds \/ (\E o \in Sends : Send(o))
  PROVE  TypeOK'
<1> USE DEF diskVars, managerVars, providerVars
<1>1. CASE Start
  <2>1. Boot \in Senders /\ file.config \in Config
    BY DEF Senders, TypeOK, File
  <2>2. /\ built' \in [Providers -> [entry : Entry, token : Senders \cup {Nobody}]]
        /\ transports' \subseteq Providers
    BY <1>1, <2>1, BuildType DEF Start
  <2> QED
    BY <1>1, <2>1, <2>2 DEF Start, Goto, TypeOK, Steps
<1>2. CASE ProcessEnds
  <2>1. crashes' \in 0..MaxCrashes
    BY <1>2, InputAssumption DEF ProcessEnds, TypeOK
  <2>2. /\ step' \in [Senders -> Steps] /\ config' \in [Senders -> Config]
        /\ list' \in [Senders -> SUBSET Providers]
        /\ result' \in [Senders -> {"none", "ok", "refused", "failed", "threw", "lost"}]
    BY <1>2, BlankIsConfig DEF ProcessEnds, TypeOK, Steps
  <2> QED
    BY <1>2, <2>1, <2>2 DEF ProcessEnds, TypeOK
<1>3. ASSUME NEW o \in Sends, Send(o)
      PROVE  TypeOK'
  <2>1. command' \in [Sends -> Command \cup {NoCommand}]
    BY <1>3, InputAssumption DEF Send, TypeOK
  <2>2. step' \in [Senders -> Steps]
    BY <1>3 DEF Send, Goto, TypeOK, Steps, Senders
  <2> QED
    BY <1>3, <2>1, <2>2 DEF Send, TypeOK
<1> QED
  BY <1>1, <1>2, <1>3

-----------------------------------------------------------------------------
(* The invariant.                                                           *)

LEMMA InitInv == Init => IInv
<1> SUFFICES ASSUME Init
             PROVE  IInv
  OBVIOUS
<1>1. TypeOK
  BY InitType
<1>2. CommandInv /\ ListInv /\ WriterInv
  BY DEF Init, CommandInv, ListInv, WriterInv, Senders
<1>3. GenerationInv
  BY DEF Init, GenerationInv, Senders
<1>4. AloneInv
  BY DEF Init, AloneInv, Quiet, Idle
<1>5. SettingsKept
  BY DEF Init, SettingsKept, Saved, Senders
<1> QED
  BY <1>1, <1>2, <1>3, <1>4, <1>5 DEF IInv

\* A step of one send() that changes no file: it was under way before, and it
\* was past its own save then if it is now.
LEMMA ProgressInv ==
  ASSUME IInv, NEW o \in Senders, ~Idle(o), NEW s \in Steps \ {"unused", "saving", "writing"},
         Goto(o, s), UNCHANGED <<file, gateway, command>>,
         \A q \in Senders \ {o} : result'[q] = result[q] /\ config'[q] = config[q],
         s # "done" => result'[o] = result[o],
         o \in Sends /\ Saved(o)' => Saved(o)
  PROVE  CommandInv' /\ AloneInv' /\ WriterInv' /\ (SerialSends => SettingsKept)'
<1> USE DEF Goto
<1>1. /\ \A q \in Senders : step'[q] = IF q = o THEN s ELSE step[q]
      /\ step[o] \notin {"unused", "done"} /\ Sends \subseteq Senders
  BY DEF IInv, TypeOK, Idle, Senders
<1>2. CommandInv'
  BY <1>1 DEF IInv, CommandInv
<1>3. AloneInv'
  BY <1>1 DEF IInv, AloneInv, Quiet, Idle
<1>4. \A q \in Sends : Saved(q)' => Saved(q)
  BY <1>1 DEF Saved
<1>5. WriterInv'
  BY <1>1, <1>4 DEF IInv, WriterInv
<1>6. (SerialSends => SettingsKept)'
  BY <1>4 DEF IInv, SettingsKept
<1> QED
  BY <1>2, <1>3, <1>5, <1>6

LEMMA FinishInv ==
  ASSUME IInv, NEW o \in Senders, NEW r \in {"ok", "refused", "failed", "threw"}, Finish(o, r),
         ~Idle(o), UNCHANGED <<file, gateway, command>>,
         r \in {"refused", "threw"} \/ step[o] \notin {"loading", "saving", "writing"}
  PROVE  /\ CommandInv' /\ ListInv' /\ AloneInv' /\ WriterInv'
         /\ (SerialSends => SettingsKept)'
<1>1. /\ Goto(o, "done")
      /\ \A q \in Senders \ {o} : result'[q] = result[q] /\ config'[q] = config[q]
      /\ result'[o] = r /\ step'[o] = "done"
  BY DEF Finish, Goto, IInv, TypeOK
<1>2. Saved(o)' => Saved(o)
  BY <1>1 DEF Saved, Idle, IInv, TypeOK
<1>3. ListInv'
  BY DEF Finish, IInv, ListInv, TypeOK
<1> QED
  BY <1>1, <1>2, <1>3, ProgressInv DEF Steps

LEMMA RefusedInv ==
  ASSUME IInv, NEW o \in Sends, Refused(o)
  PROVE  CommandInv' /\ ListInv' /\ AloneInv' /\ WriterInv' /\ (SerialSends => SettingsKept)'
<1>1. /\ step[o] = "loading" /\ ~Idle(o) /\ o \in Senders /\ Finish(o, "refused")
      /\ UNCHANGED <<file, gateway, command>>
  BY DEF Refused, Idle, Senders, diskVars, managerVars
<1> QED
  BY <1>1, FinishInv

LEMMA LoadInv ==
  ASSUME IInv, NEW o \in Sends, Load(o)
  PROVE  CommandInv' /\ ListInv' /\ AloneInv' /\ WriterInv' /\ (SerialSends => SettingsKept)'
<1>1. /\ step[o] = "loading" /\ ~Idle(o) /\ o \in Senders
      /\ UNCHANGED <<file, gateway, command>>
  BY DEF Load, Idle, Senders, diskVars, managerVars
<1>2. CASE Finish(o, "threw")
  BY <1>1, <1>2, FinishInv
<1>3. CASE /\ file.kind = "config" /\ config' = [config EXCEPT ![o] = Changed(file.config, o)]
           /\ Goto(o, "saving") /\ UNCHANGED <<list, result, call>>
  <2>1. \A q \in Senders : step'[q] = IF q = o THEN "saving" ELSE step[q]
    BY <1>3 DEF Goto, IInv, TypeOK
  <2>2. Sends \subseteq Senders
    BY DEF Senders
  <2>3. CommandInv'
    BY <1>1, <1>3, <2>1, <2>2 DEF IInv, CommandInv
  <2>4. AloneInv' /\ ListInv'
    BY <1>1, <1>3, <2>1 DEF IInv, AloneInv, ListInv, Quiet, Idle
  <2>5. \A q \in Sends : Saved(q)' => Saved(q)
    BY <1>3, <2>1, <2>2 DEF Saved
  <2>6. (SerialSends => SettingsKept)'
    BY <1>1, <2>5 DEF IInv, SettingsKept
  <2>7. WriterInv'
    <3> SUFFICES ASSUME SerialSends, NEW q \in Sends, step'[q] \in {"saving", "writing"}
                 PROVE  /\ step'[q] = "writing" => file'.kind = "empty"
                        /\ \A x \in Sends : (Saved(x)' \/ x = q) /\ command'[x].settings
                                  => x \in config'[q][command'[x].transport].settings
      BY DEF WriterInv
    <3>1. q = o
      BY <1>1, <2>1, <2>2 DEF IInv, AloneInv, Idle
    <3>2. step'[q] = "saving"
      BY <2>1, <2>2, <3>1
    <3>3. command[o] \in Command /\ file.config \in Config
      BY <1>1 DEF IInv, CommandInv, TypeOK, File
    <3>4. config'[o] = Changed(file.config, o)
      BY <1>1, <1>3 DEF IInv, TypeOK
    <3>5. ASSUME NEW x \in Sends, Saved(x)' \/ x = o, command[x].settings
          PROVE  x \in config'[o][command[x].transport].settings
      <4>1. CASE x = o
        BY <3>3, <3>4, <3>5, <4>1, ChangedIsConfig
      <4>2. CASE Saved(x)
        <5>1. x \in file.config[command[x].transport].settings
          BY <1>3, <3>5, <4>2 DEF IInv, SettingsKept
        <5>2. command[x] \in Command
          BY <4>2 DEF IInv, CommandInv, Saved
        <5>3. command[x].transport \in Names
          BY <5>2 DEF Command
        <5> QED
          BY <3>3, <3>4, <5>1, <5>3, ChangedIsConfig
      <4> QED
        BY <2>5, <3>5, <4>1, <4>2
    <3> QED
      BY <1>1, <3>1, <3>2, <3>5
  <2> QED
    BY <2>3, <2>4, <2>6, <2>7
<1> QED
  BY <1>2, <1>3 DEF Load

LEMMA FileInv ==
  ASSUME IInv, NEW o \in Sends, OpenFile(o) \/ WriteFile(o)
  PROVE  CommandInv' /\ ListInv' /\ AloneInv' /\ WriterInv' /\ (SerialSends => SettingsKept)'
<1>1. /\ step[o] \in {"saving", "writing"} /\ ~Idle(o) /\ o \in Senders
      /\ UNCHANGED <<gateway, command, config, list, result>>
  BY DEF OpenFile, WriteFile, Idle, Senders, managerVars
<1>2. PICK s \in {"writing", "securing", "reloading"} : Goto(o, s)
  BY DEF OpenFile, WriteFile
<1>3. \A q \in Senders : step'[q] = IF q = o THEN s ELSE step[q]
  BY <1>2 DEF Goto, IInv, TypeOK
<1>4. Sends \subseteq Senders
  BY DEF Senders
<1>5. CommandInv'
  BY <1>1, <1>3, <1>4 DEF IInv, CommandInv
<1>6. AloneInv' /\ ListInv'
  BY <1>1, <1>2, <1>3 DEF IInv, AloneInv, ListInv, Quiet, Idle
<1>7. \A q \in Sends : Saved(q)' => Saved(q) \/ q = o
  BY <1>1, <1>3, <1>4 DEF Saved
<1>8. SerialSends => \A q \in Sends : step'[q] \in {"saving", "writing"} => q = o
  BY <1>1, <1>3, <1>4 DEF IInv, AloneInv, Idle
<1>9. CASE OpenFile(o)
  <2>1. file'.kind = "empty"
    BY <1>9 DEF OpenFile, IInv, TypeOK, File
  <2>2. WriterInv'
    BY <1>1, <1>7, <1>8, <2>1 DEF IInv, WriterInv
  <2>3. SettingsKept'
    BY <2>1 DEF SettingsKept
  <2> QED
    BY <1>5, <1>6, <2>2, <2>3
<1>10. CASE WriteFile(o)
  <2>1. step[o] = "writing" /\ s # "writing"
    <3>1. step[o] = "writing" /\ (Goto(o, "securing") \/ Goto(o, "reloading"))
      BY <1>10 DEF WriteFile
    <3>2. step'[o] \in {"securing", "reloading"}
      BY <1>1, <3>1 DEF Goto, IInv, TypeOK
    <3> QED
      BY <1>1, <1>3, <3>1, <3>2
  <2>2. WriterInv'
    BY <1>3, <1>4, <1>8, <2>1 DEF WriterInv
  <2>3. file'.config = config[o]
    BY <1>10 DEF WriteFile
  <2>4. SerialSends => SettingsKept'
    BY <1>1, <1>7, <2>1, <2>3 DEF IInv, WriterInv, SettingsKept
  <2> QED
    BY <1>5, <1>6, <2>2, <2>4
<1> QED
  BY <1>9, <1>10

LEMMA AdminInv ==
  ASSUME IInv, NEW o \in Sends, AdminStep(o)
  PROVE  IInv'
<1>1. TypeOK'
  BY AdminType DEF IInv
<1>2. GenerationInv'
  BY DEF IInv, GenerationInv, AdminStep, Load, Refused, OpenFile, WriteFile, OpenToken, WriteToken, managerVars
<1>3. CASE Load(o) \/ Refused(o) \/ OpenFile(o) \/ WriteFile(o)
  BY <1>1, <1>2, <1>3, LoadInv, RefusedInv, FileInv DEF IInv
<1>4. CASE OpenToken(o) \/ WriteToken(o)
  <2>1. /\ UNCHANGED <<file, gateway, command, config, list, result>> /\ o \in Senders
        /\ step[o] \in {"securing", "filling"} /\ ~Idle(o)
    BY <1>4 DEF OpenToken, WriteToken, managerVars, Senders, Idle
  <2>2. PICK s \in {"filling", "reloading"} : Goto(o, s)
    BY <1>4 DEF OpenToken, WriteToken
  <2>3. Saved(o)
    BY <2>1 DEF Saved, Steps
  <2>4. CommandInv' /\ AloneInv' /\ WriterInv' /\ (SerialSends => SettingsKept)'
    BY <2>1, <2>2, <2>3, ProgressInv DEF Steps
  <2>5. ListInv'
    BY <2>1 DEF IInv, ListInv
  <2> QED
    BY <1>1, <1>2, <2>4, <2>5 DEF IInv
<1> QED
  BY <1>3, <1>4 DEF AdminStep

LEMMA ReloadInv ==
  ASSUME IInv, NEW o \in Senders, ReloadStep(o)
  PROVE  IInv'
<1> USE DEF diskVars, managerVars, providerVars
<1>1. TypeOK'
  BY ReloadType DEF IInv
<1>2. /\ step[o] \in {"reloading", "creating", "replacing", "disconnecting", "connecting", "waiting"}
      /\ ~Idle(o) /\ Saved(o) /\ UNCHANGED <<file, gateway, command>>
  BY DEF ReloadStep, Reload, Create, DisconnectAll, ReplaceTransports, ConnectAll, AllConnected,
         ConnectFailed, Idle, Saved, Steps
<1>3. GenerationInv'
  <2>1. CASE ReplaceTransports(o)
    BY <2>1 DEF ReplaceTransports, Replaced, IInv, ListInv, GenerationInv
  <2>2. CASE UNCHANGED transports
    BY <2>2 DEF IInv, GenerationInv
  <2> QED
    BY <2>1, <2>2 DEF ReloadStep, Reload, Create, DisconnectAll, ConnectAll, AllConnected, ConnectFailed
<1>4. CASE \E r \in {"ok", "failed"} : Finish(o, r)
  BY <1>1, <1>2, <1>3, <1>4, FinishInv DEF IInv
<1>5. CASE \E s \in {"creating", "replacing", "disconnecting", "connecting", "waiting"} :
             /\ Goto(o, s) /\ result' = result
             /\ \A q \in Senders \ {o} : config'[q] = config[q]
             /\ \A q \in Senders : list'[q] = list[q] \/ list'[q] \subseteq {q} \X Names
  <2>1. PICK s \in {"creating", "replacing", "disconnecting", "connecting", "waiting"} : Goto(o, s)
    BY <1>5
  <2>2. CommandInv' /\ AloneInv' /\ WriterInv' /\ (SerialSends => SettingsKept)'
    BY <1>2, <1>5, <2>1, ProgressInv DEF Steps
  <2>3. ListInv'
    BY <1>5 DEF IInv, ListInv
  <2> QED
    BY <1>1, <1>3, <2>2, <2>3 DEF IInv
<1>6. CASE Reload(o)
  <2>1. Finish(o, "failed") \/ (/\ config' = [config EXCEPT ![o] = Reloaded(o)]
                                /\ Goto(o, "creating") /\ UNCHANGED <<list, result, call>>)
    BY <1>6 DEF Reload
  <2>2. CASE config' = [config EXCEPT ![o] = Reloaded(o)] /\ Goto(o, "creating")
             /\ UNCHANGED <<list, result, call>>
    <3>1. \A q \in Senders \ {o} : config'[q] = config[q]
      BY <2>2 DEF IInv, TypeOK
    <3> QED
      BY <1>5, <2>2, <3>1
  <2> QED
    BY <1>4, <2>1, <2>2
<1>7. CASE Create(o)
  <2>1. CASE Finish(o, "failed")
    BY <1>4, <2>1
  <2>2. CASE /\ Build(o, config[o]) /\ list' = [list EXCEPT ![o] = ProvidersOf(o, config[o])]
             /\ Goto(o, "replacing") /\ UNCHANGED <<config, result, call>>
    <3>1. ProvidersOf(o, config[o]) \subseteq {o} \X Names
      BY DEF ProvidersOf, Enabled
    <3>2. \A q \in Senders : list'[q] = list[q] \/ list'[q] \subseteq {q} \X Names
      BY <2>2, <3>1 DEF IInv, TypeOK
    <3> QED
      BY <1>5, <2>2, <3>2
  <2> QED
    BY <1>7, <2>1, <2>2 DEF Create
<1>8. CASE DisconnectAll(o) \/ ReplaceTransports(o) \/ ConnectAll(o)
  BY <1>5, <1>8 DEF DisconnectAll, ReplaceTransports, ConnectAll
<1>9. CASE AllConnected(o) \/ ConnectFailed(o)
  BY <1>4, <1>9 DEF AllConnected, ConnectFailed
<1> QED
  BY <1>6, <1>7, <1>8, <1>9 DEF ReloadStep

LEMMA GatewayInv ==
  ASSUME IInv, Start \/ ProcessEnds \/ (\E o \in Sends : Send(o))
  PROVE  IInv'
<1> USE DEF diskVars, managerVars, providerVars
<1>1. TypeOK'
  BY GatewayType DEF IInv
<1>2. Sends \subseteq Senders /\ Boot \in Senders /\ Boot \notin Sends
  BY SenderAssumption DEF Senders
<1>3. CASE Start
  <2>1. \A q \in Senders : step'[q] = IF q = Boot THEN "connecting" ELSE step[q]
    BY <1>2, <1>3 DEF Start, Goto, IInv, TypeOK
  <2>2. \A q \in Sends : step'[q] = step[q] /\ result'[q] = result[q]
    BY <1>2, <1>3, <2>1 DEF Start, IInv, TypeOK
  <2>3. CommandInv' /\ ListInv'
    BY <1>3, <2>2 DEF Start, IInv, CommandInv, ListInv
  <2>4. GenerationInv'
    BY <1>2, <1>3 DEF Start, ProvidersOf, Enabled, GenerationInv
  <2>5. AloneInv'
    BY <1>3, <2>1 DEF Start, IInv, AloneInv, Quiet, Idle
  <2>6. WriterInv' /\ (SerialSends => SettingsKept)'
    BY <1>3, <2>2 DEF Start, IInv, WriterInv, SettingsKept, Saved
  <2> QED
    BY <1>1, <2>3, <2>4, <2>5, <2>6 DEF IInv
<1>4. CASE ProcessEnds
  <2>1. /\ \A q \in Senders : step'[q] \in {"unused", "done"} /\ (step'[q] = "unused" <=> step[q] = "unused")
        /\ \A q \in Senders : (result'[q] = result[q] \/ (result'[q] = "lost" /\ step'[q] = "done"))
    <3> SUFFICES ASSUME NEW q \in Senders
                 PROVE  /\ step'[q] \in {"unused", "done"} /\ (step'[q] = "unused" <=> step[q] = "unused")
                        /\ (result'[q] = result[q] \/ (result'[q] = "lost" /\ step'[q] = "done"))
      OBVIOUS
    <3>1. /\ step'[q] = IF step[q] = "unused" THEN "unused" ELSE "done"
          /\ result'[q] = IF Idle(q) THEN result[q] ELSE "lost"
      BY <1>4 DEF ProcessEnds
    <3> QED
      BY <3>1 DEF Idle
  <2>2. CommandInv'
    BY <1>2, <1>4, <2>1 DEF ProcessEnds, IInv, CommandInv
  <2>3. ListInv' /\ GenerationInv'
    BY <1>4 DEF ProcessEnds, IInv, ListInv, GenerationInv
  <2>4. AloneInv'
    BY <2>1 DEF AloneInv, Quiet, Idle
  <2>5. WriterInv'
    BY <1>2, <2>1 DEF WriterInv
  <2>6. \A q \in Sends : Saved(q)' => Saved(q)
    BY <1>2, <2>1 DEF Saved, Steps
  <2>7. (SerialSends => SettingsKept)'
    BY <1>4, <2>6 DEF ProcessEnds, IInv, SettingsKept
  <2> QED
    BY <1>1, <2>2, <2>3, <2>4, <2>5, <2>7 DEF IInv
<1>5. ASSUME NEW o \in Sends, Send(o)
      PROVE  IInv'
  <2>1. /\ \A q \in Senders : step'[q] = IF q = o THEN "loading" ELSE step[q]
        /\ step[o] = "unused" /\ gateway = "up" /\ (SerialSends => Quiet)
        /\ UNCHANGED <<file, gateway, result, list, transports, config>>
    BY <1>2, <1>5 DEF Send, Goto, IInv, TypeOK
  <2>2. /\ command'[o] \in Command
        /\ \A q \in Sends \ {o} : command'[q] = command[q]
    BY <1>5, InputAssumption DEF Send, IInv, TypeOK
  <2>3. CommandInv'
    BY <1>2, <2>1, <2>2 DEF IInv, CommandInv
  <2>4. ListInv' /\ GenerationInv'
    BY <2>1 DEF IInv, ListInv, GenerationInv
  <2>5. AloneInv'
    BY <2>1 DEF IInv, AloneInv, Quiet, Idle
  <2>6. result[o] = "none"
    BY <2>1 DEF IInv, CommandInv
  <2>7. \A q \in Sends : Saved(q)' => Saved(q) /\ q # o
    BY <1>2, <2>1, <2>6 DEF Saved
  <2>8. WriterInv'
    BY <1>2, <2>1 DEF WriterInv, Quiet, Idle
  <2>9. (SerialSends => SettingsKept)'
    BY <2>1, <2>2, <2>7 DEF IInv, SettingsKept
  <2> QED
    BY <1>1, <2>3, <2>4, <2>5, <2>8, <2>9 DEF IInv
<1> QED
  BY <1>3, <1>4, <1>5

\* The calls of the providers, and steps that change nothing.
LEMMA QuietInv ==
  ASSUME IInv, TypeOK', UNCHANGED <<file, gateway, transports, step, command, config, list, result>>
  PROVE  IInv'
BY DEF IInv, CommandInv, ListInv, GenerationInv, AloneInv, Quiet, Idle, WriterInv, SettingsKept, Saved

\* Every reachable state has the types and the facts above.
THEOREM Inductive == Spec => []IInv
<1>1. IInv /\ [Next]_vars => IInv'
  <2> SUFFICES ASSUME IInv, [Next]_vars
               PROVE  IInv'
    OBVIOUS
  <2>1. CASE Start \/ ProcessEnds \/ (\E o \in Sends : Send(o))
    BY <2>1, GatewayInv
  <2>2. ASSUME NEW o \in Sends, AdminStep(o)
        PROVE  IInv'
    BY <2>2, AdminInv
  <2>3. ASSUME NEW o \in Senders, ReloadStep(o)
        PROVE  IInv'
    BY <2>3, ReloadInv
  <2>4. ASSUME NEW o \in Senders, NEW p \in Providers, ProviderStep(o, p)
        PROVE  IInv'
    <3>1. TypeOK'
      BY <2>4, ProviderType DEF IInv
    <3>2. UNCHANGED <<file, gateway, transports, step, command, config, list, result>>
      BY <2>4 DEF ProviderStep, Spawn, Connected, FailsToConnect, Disconnected, diskVars, managerVars,
                  sendVars
    <3> QED
      BY <3>1, <3>2, QuietInv
  <2>6. ASSUME NEW o \in Senders, NEW p \in Providers, ChildExits(p, o)
        PROVE  IInv'
    <3>1. TypeOK'
      BY <2>6, ExitType DEF IInv
    <3> QED
      BY <2>6, <3>1, QuietInv DEF ChildExits, diskVars, managerVars, sendVars
  <2>5. CASE UNCHANGED vars
    <3>1. TypeOK'
      BY <2>5 DEF IInv, TypeOK, vars
    <3> QED
      BY <2>5, <3>1, QuietInv DEF vars
  <2> QED
    BY <2>1, <2>2, <2>3, <2>4, <2>5, <2>6 DEF Next
<1> QED
  BY InitInv, <1>1, PTL DEF Spec

\* Every variable keeps its type, however sends overlap.
THEOREM TypeCorrect == Spec => []TypeOK
BY Inductive, PTL DEF IInv

\* Where each send() is awaited before the next, settings that were saved stay
\* saved, whatever is changed later and wherever the process ends.
THEOREM SettingsAreKept ==
  ASSUME SerialSends
  PROVE  Spec => []SettingsKept
<1>1. IInv => SettingsKept
  BY DEF IInv
<1> QED
  BY <1>1, Inductive, PTL

-----------------------------------------------------------------------------
(* Sends awaited one at a time.                                             *)

\* One send() at a time.
LEMMA OthersIdle ==
  ASSUME IInv, SerialSends, NEW o \in Senders, ~Idle(o)
  PROVE  gateway = "up" /\ \A q \in Senders \ {o} : step[q] \in {"unused", "done"}
BY DEF IInv, AloneInv, Quiet, Idle, TypeOK

-----------------------------------------------------------------------------
(* What runs is what is saved.                                              *)

LEMMA BuildApplies ==
  ASSUME TypeOK, NEW o \in Senders, NEW c \in Config, Build(o, c)
  PROVE  /\ \A p \in ProvidersOf(o, c) : built'[p] = [entry |-> c[p[2]], token |-> token]
         /\ {p[2] : p \in ProvidersOf(o, c)} = Enabled(c)
<1>1. ProvidersOf(o, c) \subseteq Providers
  BY BuildType
<1>2. \A p \in ProvidersOf(o, c) : built'[p] = [entry |-> c[p[2]], token |-> token]
  BY <1>1 DEF Build
<1>3. \A n \in Enabled(c) : <<o, n>> \in ProvidersOf(o, c) /\ <<o, n>>[2] = n
  BY DEF ProvidersOf
<1>4. \A p \in ProvidersOf(o, c) : p[2] \in Enabled(c)
  BY DEF ProvidersOf
<1>5. {p[2] : p \in ProvidersOf(o, c)} = Enabled(c)
  BY <1>3, <1>4
<1> QED
  BY <1>2, <1>5

\* Steps before the file is opened, and those after the map was replaced.
LEMMA RestConfig ==
  ASSUME ConfigInv, UNCHANGED <<file, token, gateway, transports, built>>,
         \A q \in Senders : step[q] \in {"unused", "loading", "saving", "connecting", "waiting", "done"},
         \A q \in Senders : step'[q] \in {"unused", "loading", "saving", "connecting", "waiting", "done"}
  PROVE  ConfigInv'
BY DEF ConfigInv, ReloadedInv, AppliedInv, Applied, CanStart, Creatable, Enabled

LEMMA AdminConfig ==
  ASSUME IInv, SerialSends, ConfigInv, NEW o \in Sends, AdminStep(o)
  PROVE  ConfigInv'
<1> USE DEF diskVars, managerVars
<1>1. o \in Senders
  BY DEF Senders
<1>2. step[o] \in {"loading", "saving", "writing", "securing", "filling"}
  BY DEF AdminStep, Load, Refused, OpenFile, WriteFile, OpenToken, WriteToken
<1>3. \A q \in Senders \ {o} : step[q] \in {"unused", "done"}
  BY <1>1, <1>2, OthersIdle DEF Idle
<1>4. CASE Load(o)
  <2>1. step[o] = "loading" /\ \A q \in Senders : step'[q] = IF q = o THEN step'[o] ELSE step[q]
    BY <1>1, <1>4 DEF Load, Finish, Goto, IInv, TypeOK
  <2>2. step'[o] \in {"saving", "done"}
    BY <1>1, <1>4 DEF Load, Finish, Goto, IInv, TypeOK
  <2> QED
    BY <1>3, <1>4, <2>1, <2>2, RestConfig DEF Load
<1>6. CASE Refused(o)
  <2>1. step[o] = "loading" /\ \A q \in Senders : step'[q] = IF q = o THEN "done" ELSE step[q]
    BY <1>1, <1>6 DEF Refused, Finish, Goto, IInv, TypeOK
  <2> QED
    BY <1>3, <1>6, <2>1, RestConfig DEF Refused
<1>5. CASE OpenFile(o) \/ WriteFile(o) \/ OpenToken(o) \/ WriteToken(o)
  <2>1. PICK s \in {"writing", "securing", "filling", "reloading"} : Goto(o, s)
    BY <1>5 DEF OpenFile, WriteFile, OpenToken, WriteToken
  <2>2. \A q \in Senders : step'[q] = IF q = o THEN s ELSE step[q]
    BY <1>1, <2>1 DEF Goto, IInv, TypeOK
  <2>3. \A q \in Senders : step'[q] \notin {"creating", "replacing", "disconnecting"}
    BY <1>3, <2>2
  <2>4. step'[o] \in {"writing", "securing", "filling", "reloading"}
    BY <1>1, <2>2
  <2> QED
    BY <1>1, <2>3, <2>4 DEF ConfigInv, ReloadedInv, AppliedInv
<1> QED
  BY <1>4, <1>5, <1>6 DEF AdminStep

LEMMA ReloadConfig ==
  ASSUME IInv, SerialSends, ConfigInv, NEW o \in Senders, ReloadStep(o)
  PROVE  ConfigInv'
<1> USE DEF diskVars, managerVars
<1>1. /\ step[o] \in {"reloading", "creating", "replacing", "disconnecting", "connecting", "waiting"}
      /\ UNCHANGED <<file, token, gateway>>
  BY DEF ReloadStep, Reload, Create, DisconnectAll, ReplaceTransports, ConnectAll, AllConnected,
         ConnectFailed
<1>2. \A q \in Senders \ {o} : step[q] \in {"unused", "done"}
  BY <1>1, OthersIdle DEF Idle
<1>3. ASSUME NEW s, Goto(o, s)
      PROVE  \A q \in Senders : step'[q] = IF q = o THEN s ELSE step[q]
  BY <1>3 DEF Goto, IInv, TypeOK
<1>4. ASSUME NEW r, Finish(o, r)
      PROVE  /\ step'[o] = "done"
             /\ \A q \in Senders : step'[q] \in {"unused", "done"}
  <2>1. Goto(o, "done")
    BY <1>4 DEF Finish
  <2> QED
    BY <1>2, <1>3, <2>1
<1>5. CASE Reload(o)
  <2>1. CASE config' = [config EXCEPT ![o] = Reloaded(o)] /\ Goto(o, "creating")
             /\ file.kind = "config"
    <3>1. config'[o] = file.config
      BY <2>1 DEF Reloaded, IInv, TypeOK
    <3>2. \A q \in Senders : step'[q] = IF q = o THEN "creating" ELSE step[q]
      BY <1>3, <2>1
    <3> QED
      BY <1>1, <1>2, <2>1, <3>1, <3>2 DEF ConfigInv, ReloadedInv, AppliedInv
  <2>2. CASE file.kind # "config" /\ Finish(o, "failed")
    <3>1. ~CanStart'
      BY <1>1, <2>2 DEF CanStart
    <3> QED
      BY <1>4, <2>2, <3>1 DEF ConfigInv, ReloadedInv, AppliedInv
  <2> QED
    BY <1>5, <2>1, <2>2 DEF Reload
<1>6. CASE Create(o)
  <2>1. config[o] = file.config /\ file.kind = "config" /\ step[o] = "creating" /\ config[o] \in Config
    BY <1>6 DEF Create, ConfigInv, ReloadedInv, IInv, TypeOK
  <2>2. CASE /\ Build(o, config[o]) /\ list' = [list EXCEPT ![o] = ProvidersOf(o, config[o])]
             /\ Goto(o, "replacing") /\ UNCHANGED config
    <3>1. \A p \in ProvidersOf(o, config[o]) : built'[p] = [entry |-> config[o][p[2]], token |-> token]
      BY <2>1, <2>2, BuildApplies DEF IInv
    <3>2. list'[o] = ProvidersOf(o, config[o])
      BY <2>2 DEF IInv, TypeOK
    <3>3. \A q \in Senders : step'[q] = IF q = o THEN "replacing" ELSE step[q]
      BY <1>3, <2>2
    <3>4. ProvidersOf(o, config[o])' = ProvidersOf(o, config[o])
      BY <2>2 DEF ProvidersOf, Enabled
    <3>5. ReloadedInv'
      BY <1>1, <1>2, <2>1, <2>2, <3>1, <3>2, <3>3, <3>4 DEF ReloadedInv
    <3>6. AppliedInv'
      BY <3>3 DEF AppliedInv
    <3> QED
      BY <3>5, <3>6 DEF ConfigInv
  <2>3. CASE ~Creatable(config[o]) /\ Finish(o, "failed")
    <3>1. ~CanStart'
      BY <1>1, <2>1, <2>3 DEF CanStart, Creatable, Enabled
    <3> QED
      BY <1>4, <2>3, <3>1 DEF ConfigInv, ReloadedInv, AppliedInv
  <2> QED
    BY <1>6, <2>2, <2>3 DEF Create
<1>7. CASE DisconnectAll(o)
  <2>1. \A q \in Senders : step'[q] = IF q = o THEN "disconnecting" ELSE step[q]
    BY <1>3, <1>7 DEF DisconnectAll
  <2>2. step[o] = "replacing" /\ UNCHANGED <<config, list, built>>
    BY <1>7 DEF DisconnectAll
  <2>3. ReloadedInv'
    BY <1>1, <1>2, <2>1, <2>2 DEF ConfigInv, ReloadedInv, ProvidersOf, Enabled
  <2>4. AppliedInv'
    BY <2>1 DEF AppliedInv
  <2> QED
    BY <2>3, <2>4 DEF ConfigInv
<1>8. CASE ReplaceTransports(o)
  <2>1. \A q \in Senders : step'[q] = IF q = o THEN "connecting" ELSE step[q]
    BY <1>3, <1>8 DEF ReplaceTransports
  <2>2. step[o] = "disconnecting" /\ transports' = list[o] /\ UNCHANGED built
    BY <1>8 DEF ReplaceTransports, Replaced
  <2>3. /\ file.kind = "config" /\ list[o] = ProvidersOf(o, file.config)
        /\ \A p \in list[o] : built[p] = [entry |-> file.config[p[2]], token |-> token]
    BY <2>2 DEF ConfigInv, ReloadedInv
  <2>4. {p[2] : p \in list[o]} = Enabled(file.config)
    <3>1. \A n \in Enabled(file.config) : <<o, n>> \in list[o] /\ <<o, n>>[2] = n
      BY <2>3 DEF ProvidersOf
    <3>2. \A p \in list[o] : p[2] \in Enabled(file.config)
      BY <2>3 DEF ProvidersOf
    <3> QED
      BY <3>1, <3>2
  <2>5. Applied'
    BY <1>1, <2>2, <2>3, <2>4 DEF Applied, Enabled
  <2>6. ReloadedInv'
    BY <1>2, <2>1 DEF ReloadedInv
  <2> QED
    BY <2>5, <2>6 DEF ConfigInv, AppliedInv
<1>9. CASE ConnectAll(o) \/ AllConnected(o) \/ ConnectFailed(o)
  <2>1. step[o] \in {"connecting", "waiting"} /\ UNCHANGED <<transports, built>>
    BY <1>9 DEF ConnectAll, AllConnected, ConnectFailed
  <2>2. CASE ConnectAll(o)
    <3>1. \A q \in Senders : step'[q] = IF q = o THEN "waiting" ELSE step[q]
      BY <1>3, <2>2 DEF ConnectAll
    <3> QED
      BY <1>1, <1>2, <2>1, <3>1, RestConfig
  <2>3. CASE AllConnected(o) \/ ConnectFailed(o)
    <3>1. \A q \in Senders : step'[q] \in {"unused", "done"}
      BY <1>4, <2>3 DEF AllConnected, ConnectFailed
    <3> QED
      BY <1>1, <1>2, <2>1, <3>1, RestConfig
  <2> QED
    BY <1>9, <2>2, <2>3
<1> QED
  BY <1>5, <1>6, <1>7, <1>8, <1>9 DEF ReloadStep

LEMMA GatewayConfig ==
  ASSUME IInv, SerialSends, ConfigInv, Start \/ ProcessEnds \/ (\E o \in Sends : Send(o))
  PROVE  ConfigInv'
<1> USE DEF diskVars, managerVars
<1>1. CASE Start
  <2>1. Boot \in Senders /\ file.config \in Config
    BY DEF Senders, IInv, TypeOK, File
  <2>2. \A q \in Senders : step'[q] \in {"unused", "connecting", "done"}
    BY <1>1 DEF Start, Goto, IInv, AloneInv, Quiet, Idle, TypeOK
  <2>3. Applied'
    BY <1>1, <2>1, BuildApplies DEF Start, Applied, Enabled, IInv
  <2> QED
    BY <2>2, <2>3 DEF ConfigInv, ReloadedInv, AppliedInv
<1>2. CASE ProcessEnds
  <2>1. \A q \in Senders : step'[q] \in {"unused", "done"}
    BY <1>2 DEF ProcessEnds
  <2>2. gateway' # "up"
    BY <1>2 DEF ProcessEnds
  <2> QED
    BY <2>1, <2>2 DEF ConfigInv, ReloadedInv, AppliedInv
<1>3. ASSUME NEW o \in Sends, Send(o)
      PROVE  ConfigInv'
  <2>1. /\ \A q \in Senders : step[q] \in {"unused", "done"}
        /\ \A q \in Senders : step'[q] \in {"unused", "done", "loading"}
    BY <1>3 DEF Send, Goto, Quiet, Idle, IInv, TypeOK
  <2> QED
    BY <1>3, <2>1, RestConfig DEF Send
<1> QED
  BY <1>1, <1>2, <1>3

LEMMA UnchangedConfig ==
  ASSUME ConfigInv, UNCHANGED <<file, token, gateway, transports, built, step, config, list>>
  PROVE  ConfigInv'
BY DEF ConfigInv, ReloadedInv, AppliedInv, Applied, CanStart, Creatable, Enabled, ProvidersOf

LEMMA ConfigInductive ==
  ASSUME SerialSends
  PROVE  Spec => []ConfigInv
<1>1. Init => ConfigInv
  BY DEF Init, ConfigInv, ReloadedInv, AppliedInv
<1>2. IInv /\ ConfigInv /\ [Next]_vars => ConfigInv'
  <2> SUFFICES ASSUME IInv, ConfigInv, [Next]_vars
               PROVE  ConfigInv'
    OBVIOUS
  <2>1. CASE Start \/ ProcessEnds \/ (\E o \in Sends : Send(o))
    BY <2>1, GatewayConfig
  <2>2. ASSUME NEW o \in Sends, AdminStep(o)
        PROVE  ConfigInv'
    BY <2>2, AdminConfig
  <2>3. ASSUME NEW o \in Senders, ReloadStep(o)
        PROVE  ConfigInv'
    BY <2>3, ReloadConfig
  <2>4. ASSUME NEW o \in Senders, NEW p \in Providers, ProviderStep(o, p)
        PROVE  ConfigInv'
    BY <2>4, UnchangedConfig DEF ProviderStep, Spawn, Connected, FailsToConnect, Disconnected,
                                 diskVars, managerVars, sendVars
  <2>6. ASSUME NEW o \in Senders, NEW p \in Providers, ChildExits(p, o)
        PROVE  ConfigInv'
    BY <2>6, UnchangedConfig DEF ChildExits, diskVars, managerVars, sendVars
  <2>5. CASE UNCHANGED vars
    BY <2>5, UnchangedConfig DEF vars
  <2> QED
    BY <2>1, <2>2, <2>3, <2>4, <2>5, <2>6 DEF Next
<1> QED
  BY <1>1, <1>2, Inductive, PTL DEF Spec

\* When no send() is under way and the saved configuration can be created, the
\* manager holds exactly its providers, created from what the disk holds
\* (gateway-client.ts reloads after every command that exits with 0), also after
\* crashes and failed commands.
THEOREM SavedIsApplied ==
  ASSUME SerialSends
  PROVE  Spec => []AppliedIsSaved
<1>1. ConfigInv => AppliedIsSaved
  BY DEF ConfigInv, AppliedInv, AppliedIsSaved, Quiet, Idle
<1> QED
  BY <1>1, ConfigInductive, PTL

-----------------------------------------------------------------------------
(* No child is left behind.                                                 *)

\* Steps of a send() that calls no provider, when none is called.
LEMMA RestChild ==
  ASSUME IInv, ChildInv, FactoryInv',
         UNCHANGED <<gateway, transports, process, connected, alive, exited>>,
         \A q \in Senders : step[q] \notin {"disconnecting", "connecting", "waiting"},
         \A q \in Senders : step'[q] \notin {"disconnecting", "connecting", "waiting"},
         \A q \in Senders : result'[q] = "ok" => result[q] = "ok" /\ step'[q] = "done",
         \A c \in Calls : call[c] = "none" => call'[c] = "none"
  PROVE  ChildInv'
<1>1. \A q \in Senders, p \in Providers : call[<<q, p>>] = "none"
  <2> SUFFICES ASSUME NEW q \in Senders, NEW p \in Providers
               PROVE  call[<<q, p>>] = "none"
    OBVIOUS
  <2>1. CallAt(q, p)
    BY DEF ChildInv, CallInv
  <2> QED
    BY <2>1 DEF CallAt
<1>2. \A q \in Senders, p \in Providers : call'[<<q, p>>] = "none"
  <2>1. \A q \in Senders, p \in Providers : <<q, p>> \in Calls
    BY DEF Calls
  <2> QED
    BY <1>1, <2>1
<1>3. CallInv'
  BY <1>2 DEF CallInv, CallAt
<1>4. ProcessInv' /\ NoStray'
  BY DEF ChildInv, ProcessInv, NoStray
<1>5. ResultInv'
  BY DEF ResultInv
<1>6. StaysInv'
  <2>1. \A p \in transports : p[1] \in Senders
    BY DEF ChildInv, FactoryInv
  <2> QED
    BY <2>1 DEF ChildInv, StaysInv
<1> QED
  BY <1>3, <1>4, <1>5, <1>6 DEF ChildInv

LEMMA FinishFacts ==
  ASSUME TypeOK, NEW o \in Senders, NEW r \in {"ok", "refused", "failed", "threw"}, Finish(o, r)
  PROVE  /\ \A q \in Senders : step'[q] = IF q = o THEN "done" ELSE step[q]
         /\ \A q \in Senders : result'[q] = IF q = o THEN r ELSE result[q]
         /\ \A q \in Senders : list'[q] = IF q = o THEN {} ELSE list[q]
         /\ \A c \in Calls : call'[c] = IF c[1] = o /\ call[c] \in {"ok", "failed"} THEN "none" ELSE call[c]
BY DEF Finish, Goto, TypeOK

LEMMA AdminChild ==
  ASSUME IInv, SerialSends, ChildInv, NEW o \in Sends, AdminStep(o)
  PROVE  ChildInv'
<1> USE DEF diskVars, managerVars, providerVars
<1>1. o \in Senders /\ TypeOK
  BY DEF Senders, IInv
<1>2. step[o] \in {"loading", "saving", "writing", "securing", "filling"}
  BY DEF AdminStep, Load, Refused, OpenFile, WriteFile, OpenToken, WriteToken
<1>3. \A q \in Senders \ {o} : step[q] \in {"unused", "done"}
  BY <1>1, <1>2, OthersIdle DEF Idle
<1>4. UNCHANGED <<gateway, transports, process, connected, alive, exited>>
  BY DEF AdminStep, Load, Refused, OpenFile, WriteFile, OpenToken, WriteToken
<1>5. ASSUME NEW r \in {"refused", "threw"}, Finish(o, r)
      PROVE  ChildInv'
  <2>1. /\ \A q \in Senders : step'[q] = IF q = o THEN "done" ELSE step[q]
        /\ \A q \in Senders : result'[q] = IF q = o THEN r ELSE result[q]
        /\ \A q \in Senders : list'[q] = IF q = o THEN {} ELSE list[q]
        /\ \A c \in Calls : call[c] = "none" => call'[c] = "none"
    BY <1>1, <1>5, FinishFacts
  <2>2. FactoryInv'
    BY <1>4, <2>1 DEF ChildInv, FactoryInv
  <2>3. \A q \in Senders : result'[q] = "ok" => result[q] = "ok" /\ step'[q] = "done"
    BY <2>1 DEF ChildInv, ResultInv
  <2> QED
    BY <1>2, <1>3, <1>4, <2>1, <2>2, <2>3, RestChild
<1>6. CASE \E s \in {"saving", "writing", "securing", "filling", "reloading"} :
             Goto(o, s) /\ UNCHANGED <<list, result, call>>
  <2>1. PICK s \in {"saving", "writing", "securing", "filling", "reloading"} : Goto(o, s)
    BY <1>6
  <2>2. \A q \in Senders : step'[q] = IF q = o THEN s ELSE step[q]
    BY <1>1, <2>1 DEF Goto, TypeOK
  <2>3. FactoryInv'
    BY <1>4, <1>6 DEF ChildInv, FactoryInv
  <2>4. \A q \in Senders : result'[q] = "ok" => result[q] = "ok" /\ step'[q] = "done"
    BY <1>2, <1>6, <2>2 DEF ChildInv, ResultInv
  <2> QED
    BY <1>2, <1>3, <1>4, <1>6, <2>2, <2>3, <2>4, RestChild
<1> QED
  BY <1>5, <1>6 DEF AdminStep, Load, Refused, OpenFile, WriteFile, OpenToken, WriteToken

LEMMA PreparationChild ==
  ASSUME IInv, SerialSends, ChildInv, NEW o \in Senders, Reload(o) \/ Create(o)
  PROVE  ChildInv'
<1> USE DEF diskVars, managerVars
<1>1. TypeOK /\ step[o] \in {"reloading", "creating"}
      /\ UNCHANGED <<gateway, transports, process, connected, alive, exited>>
  BY DEF Reload, Create, IInv
<1>2. \A q \in Senders \ {o} : step[q] \in {"unused", "done"}
  BY <1>1, OthersIdle DEF Idle
<1>3. CASE Finish(o, "failed")
  <2>1. /\ \A q \in Senders : step'[q] = IF q = o THEN "done" ELSE step[q]
        /\ \A q \in Senders : result'[q] = IF q = o THEN "failed" ELSE result[q]
        /\ \A q \in Senders : list'[q] = IF q = o THEN {} ELSE list[q]
        /\ \A c \in Calls : call[c] = "none" => call'[c] = "none"
    BY <1>1, <1>3, FinishFacts
  <2>2. FactoryInv'
    BY <1>1, <2>1 DEF ChildInv, FactoryInv
  <2>3. \A q \in Senders : result'[q] = "ok" => result[q] = "ok" /\ step'[q] = "done"
    BY <2>1 DEF ChildInv, ResultInv
  <2> QED
    BY <1>1, <1>2, <2>1, <2>2, <2>3, RestChild
<1>4. CASE \E s \in {"creating", "replacing"} :
             /\ Goto(o, s) /\ UNCHANGED <<result, call>>
             /\ \/ UNCHANGED list
                \/ Creatable(config[o]) /\ list' = [list EXCEPT ![o] = ProvidersOf(o, config[o])]
  <2>1. PICK s \in {"creating", "replacing"} : Goto(o, s)
    BY <1>4
  <2>2. \A q \in Senders : step'[q] = IF q = o THEN s ELSE step[q]
    BY <1>1, <2>1 DEF Goto, TypeOK
  <2>3. Creatable(config[o]) => ProvidersOf(o, config[o]) \subseteq Senders \X Available
    BY DEF Creatable, ProvidersOf
  <2>4. FactoryInv'
    <3>1. CASE UNCHANGED list
      BY <1>1, <3>1 DEF ChildInv, FactoryInv
    <3>2. CASE Creatable(config[o]) /\ list' = [list EXCEPT ![o] = ProvidersOf(o, config[o])]
      <4>1. \A q \in Senders : list'[q] = IF q = o THEN ProvidersOf(o, config[o]) ELSE list[q]
        BY <1>1, <3>2 DEF TypeOK
      <4> QED
        BY <1>1, <2>3, <3>2, <4>1 DEF ChildInv, FactoryInv
    <3> QED
      BY <1>4, <3>1, <3>2
  <2>5. \A q \in Senders : result'[q] = "ok" => result[q] = "ok" /\ step'[q] = "done"
    BY <1>1, <1>4, <2>2 DEF ChildInv, ResultInv
  <2> QED
    BY <1>1, <1>2, <1>4, <2>2, <2>4, <2>5, RestChild
<1> QED
  BY <1>3, <1>4 DEF Reload, Create

LEMMA DisconnectChild ==
  ASSUME IInv, SerialSends, ChildInv, NEW o \in Senders, DisconnectAll(o)
  PROVE  ChildInv'
<1> USE DEF diskVars, managerVars
<1>1. TypeOK /\ step[o] = "replacing"
      /\ UNCHANGED <<gateway, transports, list, result, process, alive, exited>>
  BY DEF DisconnectAll, IInv
<1>2. \A q \in Senders \ {o} : step[q] \in {"unused", "done"}
  BY <1>1, OthersIdle DEF Idle
<1>3. \A q \in Senders : step'[q] = IF q = o THEN "disconnecting" ELSE step[q]
  BY <1>1 DEF DisconnectAll, Goto, TypeOK
<1>4. \A q \in Senders, p \in Providers : call[<<q, p>>] = "none"
  BY <1>1, <1>2 DEF ChildInv, CallInv, CallAt
<1>5. CallInv'
  <2> SUFFICES ASSUME NEW q \in Senders, NEW p \in Providers
               PROVE  CallAt(q, p)'
    BY DEF CallInv
  <2>1. <<q, p>> \in Calls /\ call[<<q, p>>] = "none"
    BY <1>4 DEF Calls
  <2>2. /\ call'[<<q, p>>] = IF q = o /\ p \in transports
                             THEN IF process[p] = Nobody THEN "closed" ELSE "closing"
                             ELSE "none"
        /\ q = o /\ p \in transports => victim'[<<q, p>>] = process[p]
    BY <2>1 DEF DisconnectAll
  <2> QED
    BY <1>1, <1>2, <1>3, <2>2 DEF CallAt
<1>6. ProcessInv'
  <2>1. \A p \in Providers : connected'[p] => connected[p]
    BY DEF DisconnectAll
  <2> QED
    BY <1>1, <1>2, <1>3, <2>1 DEF ChildInv, ProcessInv
<1>7. NoStray' /\ FactoryInv'
  BY <1>1 DEF ChildInv, NoStray, FactoryInv
<1>8. ResultInv' /\ StaysInv'
  BY <1>1, <1>2, <1>3 DEF ChildInv, ResultInv, StaysInv
<1> QED
  BY <1>5, <1>6, <1>7, <1>8 DEF ChildInv

LEMMA ReplaceChild ==
  ASSUME IInv, SerialSends, ChildInv, NEW o \in Senders, ReplaceTransports(o)
  PROVE  ChildInv'
<1> USE DEF diskVars
<1>1. TypeOK /\ step[o] = "disconnecting" /\ transports' = list[o]
      /\ UNCHANGED <<gateway, list, result, process, connected, alive, exited>>
  BY DEF ReplaceTransports, Replaced, IInv
<1>2. gateway = "up" /\ \A q \in Senders \ {o} : step[q] \in {"unused", "done"}
  BY <1>1, OthersIdle DEF Idle
<1>3. \A q \in Senders : step'[q] = IF q = o THEN "connecting" ELSE step[q]
  BY <1>1 DEF ReplaceTransports, Goto, TypeOK
<1>4. \A p \in Providers : process[p] = Nobody /\ ~connected[p]
  BY <1>1 DEF ReplaceTransports, ChildInv, CallInv, CallAt, ProcessInv
<1>5. alive = {}
  <2> SUFFICES ASSUME NEW child \in alive
               PROVE  FALSE
    OBVIOUS
  <2>1. child[1] \in Providers /\ child[2] \in Senders
    BY <1>1 DEF TypeOK, Children
  <2> QED
    BY <1>4, <2>1, SenderAssumption DEF ChildInv, NoStray
<1>6. CallInv'
  <2>1. \A q \in Senders, p \in Providers : call'[<<q, p>>] = "none"
    <3> SUFFICES ASSUME NEW q \in Senders, NEW p \in Providers
                 PROVE  call'[<<q, p>>] = "none"
      OBVIOUS
    <3>1. <<q, p>> \in Calls
      BY DEF Calls
    <3>2. q # o => call[<<q, p>>] = "none"
      BY <1>2 DEF ChildInv, CallInv, CallAt
    <3> QED
      BY <3>1, <3>2 DEF ReplaceTransports
  <2> QED
    BY <1>2, <1>3, <2>1 DEF CallInv, CallAt
<1>7. ProcessInv' /\ NoStray'
  BY <1>1, <1>2, <1>4, <1>5 DEF ProcessInv, NoStray
<1>8. transports' \subseteq {o} \X Names /\ FactoryInv'
  BY <1>1 DEF IInv, ListInv, ChildInv, FactoryInv
<1>9. result[o] # "ok"
  BY <1>1 DEF ChildInv, ResultInv
<1>10. ResultInv'
  BY <1>1, <1>2, <1>3, <1>8, <1>9 DEF ChildInv, ResultInv
<1>11. StaysInv'
  BY <1>1, <1>8, <1>9 DEF StaysInv
<1> QED
  BY <1>6, <1>7, <1>8, <1>10, <1>11 DEF ChildInv

LEMMA ConnectChild ==
  ASSUME IInv, SerialSends, ChildInv, NEW o \in Senders, ConnectAll(o)
  PROVE  ChildInv'
<1> USE DEF diskVars, managerVars
<1>1. TypeOK /\ step[o] = "connecting"
      /\ UNCHANGED <<gateway, transports, list, result, process, connected, alive, exited>>
  BY DEF ConnectAll, IInv
<1>2. \A q \in Senders \ {o} : step[q] \in {"unused", "done"}
  BY <1>1, OthersIdle DEF Idle
<1>3. \A q \in Senders : step'[q] = IF q = o THEN "waiting" ELSE step[q]
  BY <1>1 DEF ConnectAll, Goto, TypeOK
<1>4. \A p \in Providers : process[p] = Nobody /\ ~connected[p]
  BY <1>1 DEF ChildInv, ProcessInv
<1>5. CallInv'
  <2> SUFFICES ASSUME NEW q \in Senders, NEW p \in Providers
               PROVE  CallAt(q, p)'
    BY DEF CallInv
  <2>1. <<q, p>> \in Calls /\ call[<<q, p>>] = "none"
    BY <1>1, <1>2 DEF Calls, ChildInv, CallInv, CallAt
  <2>2. call'[<<q, p>>] = IF q = o /\ p \in transports
                          THEN IF connected[p] THEN "ok" ELSE "looking" ELSE "none"
    BY <2>1 DEF ConnectAll
  <2> QED
    BY <1>1, <1>2, <1>3, <1>4, <2>2 DEF CallAt
<1>6. ProcessInv' /\ NoStray' /\ FactoryInv'
  BY <1>1, <1>2, <1>3 DEF ChildInv, ProcessInv, NoStray, FactoryInv
<1>7. ResultInv' /\ StaysInv'
  BY <1>1, <1>2, <1>3 DEF ChildInv, ResultInv, StaysInv
<1> QED
  BY <1>5, <1>6, <1>7 DEF ChildInv

\* One provider is in the map, so nothing is still connecting when connectAll()
\* has failed.
LEMMA EndChild ==
  ASSUME IInv, SerialSends, OneFactory, ChildInv, NEW o \in Senders, AllConnected(o) \/ ConnectFailed(o)
  PROVE  ChildInv'
<1> USE DEF diskVars, managerVars
<1>1. TypeOK /\ step[o] = "waiting"
      /\ UNCHANGED <<gateway, transports, process, connected, alive, exited>>
  BY DEF AllConnected, ConnectFailed, IInv
<1>2. \A q \in Senders \ {o} : step[q] \in {"unused", "done"}
  BY <1>1, OthersIdle DEF Idle
<1>3. transports \subseteq Providers /\ transports \subseteq {o} \X Names
  BY <1>1 DEF TypeOK, ChildInv, ResultInv
<1>4. \A p, q \in transports : p = q
  BY <1>3 DEF ChildInv, FactoryInv, OneFactory
<1>5. \A p \in Providers : call[<<o, p>>] \in {"none", "ok", "failed"}
  <2>1. CASE AllConnected(o)
    BY <2>1 DEF AllConnected
  <2>2. CASE ConnectFailed(o)
    <3>1. PICK f \in Providers : call[<<o, f>>] = "failed"
      BY <2>2 DEF ConnectFailed
    <3>2. \A p \in Providers : call[<<o, p>>] # "none" => p = f
      BY <1>4, <3>1 DEF ChildInv, CallInv, CallAt
    <3> QED
      BY <3>1, <3>2
  <2> QED
    BY <2>1, <2>2
<1>6. (Finish(o, "ok") /\ AllConnected(o)) \/ Finish(o, "failed")
  BY DEF AllConnected, ConnectFailed
<1>7. /\ \A q \in Senders : step'[q] = IF q = o THEN "done" ELSE step[q]
      /\ \A q \in Senders \ {o} : result'[q] = result[q]
      /\ result'[o] = "ok" => AllConnected(o)
      /\ \A q \in Senders : list'[q] = IF q = o THEN {} ELSE list[q]
      /\ \A c \in Calls : call'[c] = IF c[1] = o /\ call[c] \in {"ok", "failed"} THEN "none" ELSE call[c]
  <2>1. CASE Finish(o, "ok") /\ AllConnected(o)
    BY <1>1, <2>1, FinishFacts
  <2>2. CASE Finish(o, "failed")
    BY <1>1, <2>2, FinishFacts
  <2> QED
    BY <1>6, <2>1, <2>2
<1>8. CallInv'
  <2> SUFFICES ASSUME NEW q \in Senders, NEW p \in Providers
               PROVE  call'[<<q, p>>] = "none"
    BY <1>2, <1>7 DEF CallInv, CallAt
  <2>1. <<q, p>> \in Calls
    BY DEF Calls
  <2>2. q # o => call[<<q, p>>] = "none"
    BY <1>2 DEF ChildInv, CallInv, CallAt
  <2> QED
    BY <1>5, <1>7, <2>1, <2>2
<1>9. ProcessInv' /\ NoStray' /\ FactoryInv'
  BY <1>1, <1>2, <1>7 DEF ChildInv, ProcessInv, NoStray, FactoryInv
<1>10. ResultInv'
  BY <1>1, <1>2, <1>7 DEF ChildInv, ResultInv
<1>11. StaysInv'
  <2> SUFFICES ASSUME NEW p \in transports, result'[p[1]] = "ok"
               PROVE  connected[p] \/ p \in exited
    BY <1>1 DEF StaysInv
  <2>1. p[1] = o /\ p \in Providers
    BY <1>3
  <2>2. AllConnected(o)
    BY <1>7, <2>1
  <2>3. call[<<o, p>>] \in {"none", "ok"}
    BY <2>1, <2>2 DEF AllConnected
  <2> QED
    BY <1>1, <2>1, <2>3 DEF ChildInv, CallInv, CallAt
<1> QED
  BY <1>8, <1>9, <1>10, <1>11 DEF ChildInv

LEMMA ProviderChild ==
  ASSUME IInv, SerialSends, ChildInv, NEW o \in Senders, NEW p \in Providers, ProviderStep(o, p)
  PROVE  ChildInv'
<1> USE DEF diskVars, managerVars, sendVars
<1>1. TypeOK /\ <<o, p>> \in Calls
      /\ UNCHANGED <<gateway, transports, step, list, result>>
  BY DEF ProviderStep, Spawn, Connected, FailsToConnect, Disconnected, IInv, Calls
<1>2. call[<<o, p>>] \in {"looking", "handshake", "rejected", "closing"}
  BY DEF ProviderStep, Spawn, Connected, FailsToConnect, Disconnected
<1>3. p \in transports /\ step[o] \in {"disconnecting", "waiting"}
  BY <1>2 DEF ChildInv, CallInv, CallAt
<1>4. gateway = "up" /\ \A q \in Senders \ {o} : step[q] \in {"unused", "done"}
  BY <1>3, OthersIdle DEF Idle
<1>5. \A q \in Senders, x \in Providers : q # o => call[<<q, x>>] = "none"
  BY <1>4 DEF ChildInv, CallInv, CallAt
<1>6. FactoryInv' /\ ResultInv'
  BY <1>1 DEF ChildInv, FactoryInv, ResultInv
<1>7. \A child \in alive : child[1] \in Providers /\ child[2] \in Senders /\ child = <<child[1], child[2]>>
  BY <1>1 DEF TypeOK, Children
<1>8. Nobody \notin Senders /\ o # Nobody
  BY SenderAssumption
<1>9. \A c \in Calls : Rejected(p)[c] = IF c[2] = p /\ call[c] = "handshake" THEN "rejected" ELSE call[c]
  BY DEF Rejected
<1>10. ASSUME NEW r, call' = [Rejected(p) EXCEPT ![<<o, p>>] = r]
       PROVE  /\ call'[<<o, p>>] = r
              /\ \A q \in Senders, x \in Providers :
                   <<q, x>> # <<o, p>> => call'[<<q, x>>] = call[<<q, x>>]
  <2>1. DOMAIN Rejected(p) = Calls
    BY DEF Rejected
  <2>2. \A q \in Senders, x \in Providers : <<q, x>> \in Calls
    BY DEF Calls
  <2> HIDE DEF Rejected
  <2>3. call'[<<o, p>>] = r
    BY <1>1, <1>10, <2>1
  <2>4. ASSUME NEW q \in Senders, NEW x \in Providers, <<q, x>> # <<o, p>>
        PROVE  call'[<<q, x>>] = call[<<q, x>>]
    <3>1. call'[<<q, x>>] = Rejected(p)[<<q, x>>]
      BY <1>10, <2>1, <2>2, <2>4
    <3>2. x = p => call[<<q, x>>] = "none"
      BY <1>5, <2>4
    <3> QED
      BY <1>9, <2>2, <3>1, <3>2
  <2> QED
    BY <2>3, <2>4
<1>11. CASE Spawn(o, p)
  <2>1. /\ step[o] = "waiting" /\ process[p] = Nobody
        /\ UNCHANGED <<connected, exited, victim>>
    BY <1>3, <1>11 DEF Spawn, ChildInv, CallInv, CallAt
  <2>2. \A x \in Providers : process'[x] = IF x = p THEN o ELSE process[x]
    BY <1>1, <1>11 DEF Spawn, TypeOK
  <2>3. \A q \in Senders, x \in Providers :
          call'[<<q, x>>] = IF q = o /\ x = p THEN "handshake" ELSE call[<<q, x>>]
    BY <1>1, <1>11 DEF Spawn, TypeOK, Calls
  <2>4. CallInv'
    <3> SUFFICES ASSUME NEW q \in Senders, NEW x \in Providers
                 PROVE  CallAt(q, x)'
      BY DEF CallInv
    <3>1. CallAt(q, x)
      BY DEF ChildInv, CallInv
    <3>2. CASE q = o /\ x = p
      BY <1>1, <1>3, <2>1, <2>2, <2>3, <3>1, <3>2 DEF CallAt
    <3>3. CASE q = o /\ x # p
      BY <1>1, <2>1, <2>2, <2>3, <3>1, <3>3 DEF CallAt
    <3>4. CASE q # o
      BY <1>1, <1>4, <1>5, <2>3, <3>4 DEF CallAt
    <3> QED
      BY <3>2, <3>3, <3>4
  <2>5. ProcessInv'
    BY <1>1, <1>3, <1>4, <1>8, <2>1, <2>2 DEF ChildInv, ProcessInv
  <2>6. NoStray'
    <3> SUFFICES ASSUME NEW child \in alive'
                 PROVE  child[1] \in transports /\ process'[child[1]] = child[2]
      BY <1>1 DEF NoStray
    <3>1. CASE child = <<p, o>>
      BY <1>3, <2>2, <3>1
    <3>2. CASE child \in alive
      BY <1>7, <1>8, <2>1, <2>2, <3>2 DEF ChildInv, NoStray
    <3> QED
      BY <1>11, <3>1, <3>2 DEF Spawn
  <2>7. StaysInv'
    BY <1>1, <2>1 DEF ChildInv, StaysInv
  <2> QED
    BY <1>6, <2>4, <2>5, <2>6, <2>7 DEF ChildInv
<1>12. CASE Connected(o, p)
  <2>1. /\ step[o] = "waiting" /\ process[p] = o
        /\ UNCHANGED <<process, alive, victim>> /\ exited' = exited \ {p}
    BY <1>3, <1>12 DEF Connected, ChildInv, CallInv, CallAt
  <2>2. \A x \in Providers : connected'[x] = IF x = p THEN TRUE ELSE connected[x]
    BY <1>1, <1>12 DEF Connected, TypeOK
  <2>3. \A q \in Senders, x \in Providers :
          call'[<<q, x>>] = IF q = o /\ x = p THEN "ok" ELSE call[<<q, x>>]
    BY <1>1, <1>12 DEF Connected, TypeOK, Calls
  <2>4. CallInv'
    <3> SUFFICES ASSUME NEW q \in Senders, NEW x \in Providers
                 PROVE  CallAt(q, x)'
      BY DEF CallInv
    <3>1. CallAt(q, x)
      BY DEF ChildInv, CallInv
    <3>2. CASE q = o /\ x = p
      BY <1>1, <1>3, <2>1, <2>2, <2>3, <3>1, <3>2 DEF CallAt
    <3>3. CASE q = o /\ x # p
      BY <1>1, <2>1, <2>2, <2>3, <3>1, <3>3 DEF CallAt
    <3>4. CASE q # o
      BY <1>1, <1>4, <1>5, <2>3, <3>4 DEF CallAt
    <3> QED
      BY <3>2, <3>3, <3>4
  <2>5. ProcessInv' /\ NoStray'
    BY <1>1, <1>4, <1>8, <2>1, <2>2 DEF ChildInv, ProcessInv, NoStray
  <2>6. StaysInv'
    <3>1. transports \subseteq Providers
      BY <1>1 DEF TypeOK
    <3>2. \A x \in Providers : connected[x] \/ x \in exited => connected'[x] \/ x \in exited'
      BY <2>1, <2>2
    <3> QED
      BY <1>1, <3>1, <3>2 DEF ChildInv, StaysInv
  <2> QED
    BY <1>6, <2>4, <2>5, <2>6 DEF ChildInv
<1>13. CASE FailsToConnect(o, p)
  <2>1. /\ step[o] = "waiting" /\ process[p] \in {o, Nobody} /\ UNCHANGED <<exited, victim>>
    BY <1>3, <1>13 DEF FailsToConnect, ChildInv, CallInv, CallAt
  <2>2. \A x \in Providers : /\ process'[x] = IF x = p THEN Nobody ELSE process[x]
                             /\ connected'[x] = IF x = p THEN FALSE ELSE connected[x]
    BY <1>1, <1>13, <2>1 DEF FailsToConnect, TypeOK
  <2>3. \A q \in Senders, x \in Providers :
          call'[<<q, x>>] = IF q = o /\ x = p THEN "failed" ELSE call[<<q, x>>]
    <3>1. call' = [Rejected(p) EXCEPT ![<<o, p>>] = "failed"]
      BY <1>13 DEF FailsToConnect
    <3>2. /\ call'[<<o, p>>] = "failed"
          /\ \A q \in Senders, x \in Providers :
               <<q, x>> # <<o, p>> => call'[<<q, x>>] = call[<<q, x>>]
      BY <1>10, <3>1
    <3> QED
      BY <3>2
  <2>4. CallInv'
    <3> SUFFICES ASSUME NEW q \in Senders, NEW x \in Providers
                 PROVE  CallAt(q, x)'
      BY DEF CallInv
    <3>1. CallAt(q, x)
      BY DEF ChildInv, CallInv
    <3>2. CASE q = o /\ x = p
      BY <1>1, <1>3, <2>1, <2>2, <2>3, <3>1, <3>2 DEF CallAt
    <3>3. CASE q = o /\ x # p
      BY <1>1, <2>1, <2>2, <2>3, <3>1, <3>3 DEF CallAt
    <3>4. CASE q # o
      BY <1>1, <1>4, <1>5, <2>3, <3>4 DEF CallAt
    <3> QED
      BY <3>2, <3>3, <3>4
  <2>5. ProcessInv'
    BY <1>1, <1>4, <2>1, <2>2 DEF ChildInv, ProcessInv
  <2>6. NoStray'
    <3> SUFFICES ASSUME NEW child \in alive, child # <<p, o>>
                 PROVE  child[1] \in transports /\ process'[child[1]] = child[2]
      BY <1>1, <1>13 DEF NoStray, FailsToConnect
    <3>1. process[child[1]] = child[2] /\ child[1] \in transports /\ child[1] \in Providers
      BY <1>7 DEF ChildInv, NoStray
    <3>2. child[1] # p
      BY <1>7, <1>8, <2>1, <3>1
    <3> QED
      BY <2>2, <3>1, <3>2
  <2>7. StaysInv'
    <3>1. transports \subseteq {o} \X Names /\ result[o] # "ok" /\ transports \subseteq Providers
      BY <1>1, <2>1 DEF ChildInv, ResultInv, TypeOK
    <3> QED
      BY <1>1, <3>1 DEF StaysInv
  <2> QED
    BY <1>6, <2>4, <2>5, <2>6, <2>7 DEF ChildInv
<1>14. CASE Disconnected(o, p)
  <2>1. /\ step[o] = "disconnecting" /\ process[p] \in {victim[<<o, p>>], Nobody} /\ UNCHANGED <<exited, victim>>
    BY <1>3, <1>14 DEF Disconnected, ChildInv, CallInv, CallAt
  <2>2. \A x \in Providers : /\ process'[x] = IF x = p THEN Nobody ELSE process[x]
                             /\ connected'[x] = IF x = p THEN FALSE ELSE connected[x]
    BY <1>1, <1>14 DEF Disconnected, TypeOK
  <2>3. \A q \in Senders, x \in Providers :
          call'[<<q, x>>] = IF q = o /\ x = p THEN "closed" ELSE call[<<q, x>>]
    <3>1. call' = [Rejected(p) EXCEPT ![<<o, p>>] = "closed"]
      BY <1>14 DEF Disconnected
    <3>2. /\ call'[<<o, p>>] = "closed"
          /\ \A q \in Senders, x \in Providers :
               <<q, x>> # <<o, p>> => call'[<<q, x>>] = call[<<q, x>>]
      BY <1>10, <3>1
    <3> QED
      BY <3>2
  <2>4. CallInv'
    <3> SUFFICES ASSUME NEW q \in Senders, NEW x \in Providers
                 PROVE  CallAt(q, x)'
      BY DEF CallInv
    <3>1. CallAt(q, x)
      BY DEF ChildInv, CallInv
    <3>2. CASE q = o /\ x = p
      BY <1>1, <1>3, <2>1, <2>2, <2>3, <3>1, <3>2 DEF CallAt
    <3>3. CASE q = o /\ x # p
      BY <1>1, <2>1, <2>2, <2>3, <3>1, <3>3 DEF CallAt
    <3>4. CASE q # o
      BY <1>1, <1>4, <1>5, <2>3, <3>4 DEF CallAt
    <3> QED
      BY <3>2, <3>3, <3>4
  <2>5. ProcessInv'
    BY <1>1, <1>4, <2>1, <2>2 DEF ChildInv, ProcessInv
  <2>6. NoStray'
    <3> SUFFICES ASSUME NEW child \in alive, child # <<p, victim[<<o, p>>]>>
                 PROVE  child[1] \in transports /\ process'[child[1]] = child[2]
      BY <1>1, <1>14 DEF NoStray, Disconnected
    <3>1. process[child[1]] = child[2] /\ child[1] \in transports /\ child[1] \in Providers
      BY <1>7 DEF ChildInv, NoStray
    <3>2. child[1] # p
      BY <1>7, <1>8, <2>1, <3>1
    <3> QED
      BY <2>2, <3>1, <3>2
  <2>7. StaysInv'
    BY <1>1, <2>1 DEF StaysInv
  <2> QED
    BY <1>6, <2>4, <2>5, <2>6, <2>7 DEF ChildInv
<1> QED
  BY <1>11, <1>12, <1>13, <1>14 DEF ProviderStep

\* A child that exits is #process of a provider in the map, which has then none.
LEMMA ExitChild ==
  ASSUME IInv, SerialSends, ChildInv, NEW o \in Senders, NEW p \in Providers, ChildExits(p, o)
  PROVE  ChildInv'
<1> USE DEF diskVars, managerVars, sendVars
<1>1. TypeOK /\ <<p, o>> \in alive /\ UNCHANGED <<gateway, transports, step, list, result, victim>>
  BY DEF ChildExits, IInv
<1>2. p \in transports /\ process[p] = o
  BY <1>1 DEF ChildInv, NoStray
<1>3. o # Nobody /\ Nobody \notin Senders
  BY SenderAssumption
<1>4. \A x \in Providers : /\ process'[x] = IF x = p THEN Nobody ELSE process[x]
                           /\ connected'[x] = IF x = p THEN FALSE ELSE connected[x]
  BY <1>1, <1>2 DEF ChildExits, TypeOK
<1>5. /\ exited \subseteq exited'
      /\ connected[p] => p \in exited'
  BY <1>2 DEF ChildExits
<1>6. \A q \in Senders, x \in Providers :
        call'[<<q, x>>] = IF x = p /\ call[<<q, x>>] = "handshake" THEN "rejected" ELSE call[<<q, x>>]
  BY <1>2 DEF ChildExits, Rejected, Calls
<1>7. CallInv'
  <2> SUFFICES ASSUME NEW q \in Senders, NEW x \in Providers
               PROVE  CallAt(q, x)'
    BY DEF CallInv
  <2>1. CallAt(q, x)
    BY DEF ChildInv, CallInv
  <2>2. CASE x = p
    BY <1>1, <1>2, <1>3, <1>4, <1>5, <1>6, <2>1, <2>2 DEF CallAt
  <2>3. CASE x # p
    BY <1>1, <1>4, <1>5, <1>6, <2>1, <2>3 DEF CallAt
  <2> QED
    BY <2>2, <2>3
<1>8. ProcessInv'
  <2> SUFFICES ASSUME NEW x \in Providers
               PROVE  /\ process'[x] # Nobody => x \in transports
                      /\ connected'[x] => process'[x] # Nobody
                      /\ (\E q \in Senders : step[q] = "connecting") => process'[x] = Nobody
    BY <1>1 DEF ChildInv, ProcessInv
  <2>1. /\ process[x] # Nobody => x \in transports
        /\ connected[x] => process[x] # Nobody
        /\ (\E q \in Senders : step[q] = "connecting") => process[x] = Nobody
    BY DEF ChildInv, ProcessInv
  <2>2. CASE x = p
    BY <1>4, <2>2
  <2>3. CASE x # p
    <3>1. process'[x] = process[x] /\ connected'[x] = connected[x]
      BY <1>4, <2>3
    <3> QED
      BY <2>1, <3>1
  <2> QED
    BY <2>2, <2>3
<1>9. NoStray'
  <2> SUFFICES ASSUME NEW child \in alive, child # <<p, o>>
               PROVE  child[1] \in transports /\ process'[child[1]] = child[2]
    BY <1>1 DEF NoStray, ChildExits
  <2>1. child[1] \in Providers /\ child = <<child[1], child[2]>>
    BY <1>1 DEF TypeOK, Children
  <2>2. process[child[1]] = child[2] /\ child[1] \in transports
    BY DEF ChildInv, NoStray
  <2>3. child[1] # p
    BY <1>2, <2>1, <2>2
  <2> QED
    BY <1>4, <2>1, <2>2, <2>3
<1>10. StaysInv'
  <2> SUFFICES ASSUME NEW x \in transports, result[x[1]] = "ok",
                      \A q \in Senders : step[q] # "disconnecting"
               PROVE  connected'[x] \/ x \in exited'
    BY <1>1 DEF StaysInv
  <2>1. x \in Providers /\ (connected[x] \/ x \in exited)
    BY <1>1 DEF TypeOK, ChildInv, StaysInv
  <2> QED
    BY <1>4, <1>5, <2>1
<1>11. FactoryInv' /\ ResultInv'
  BY <1>1 DEF ChildInv, FactoryInv, ResultInv
<1> QED
  BY <1>7, <1>8, <1>9, <1>10, <1>11 DEF ChildInv

LEMMA GatewayChild ==
  ASSUME IInv, SerialSends, ChildInv, Start \/ ProcessEnds \/ (\E o \in Sends : Send(o))
  PROVE  ChildInv'
<1> USE DEF diskVars, managerVars, providerVars
<1>1. TypeOK /\ Boot \in Senders /\ Nobody \notin Senders
  BY SenderAssumption DEF IInv, Senders
<1>2. CASE Start
  <2>1. /\ \A q \in Senders : step[q] \in {"unused", "done"}
        /\ \A q \in Senders : step'[q] = IF q = Boot THEN "connecting" ELSE step[q]
        /\ \A q \in Senders : result'[q] = IF q = Boot THEN "none" ELSE result[q]
    BY <1>1, <1>2 DEF Start, Goto, IInv, AloneInv, Quiet, Idle, TypeOK
  <2>2. /\ \A p \in Providers : process[p] = Nobody /\ ~connected[p]
        /\ alive = {}
    BY <1>2 DEF Start, ChildInv, ProcessInv, NoStray
  <2>3. \A q \in Senders, p \in Providers : call[<<q, p>>] = "none"
    BY <2>1 DEF ChildInv, CallInv, CallAt
  <2>4. transports' \subseteq {Boot} \X Names /\ FactoryInv'
    BY <1>1, <1>2 DEF Start, ProvidersOf, Enabled, CanStart, Creatable, ChildInv, FactoryInv
  <2>5. CallInv'
    <3>1. \A q \in Senders : step'[q] \notin {"disconnecting", "waiting"}
      BY <2>1
    <3>2. call' = call
      BY <1>2 DEF Start
    <3> QED
      BY <2>3, <3>1, <3>2 DEF CallInv, CallAt
  <2>6. ProcessInv' /\ NoStray'
    BY <1>2, <2>2 DEF Start, ProcessInv, NoStray
  <2>7. ResultInv' /\ StaysInv'
    BY <1>1, <2>1, <2>4 DEF ChildInv, ResultInv, StaysInv
  <2> QED
    BY <2>4, <2>5, <2>6, <2>7 DEF ChildInv
<1>3. CASE ProcessEnds
  <2>1. \A q \in Senders : step'[q] \in {"unused", "done"}
    BY <1>3 DEF ProcessEnds
  <2>2. transports' = {} /\ alive' = {} /\ \A q \in Senders : list'[q] = {}
    BY <1>3 DEF ProcessEnds
  <2>3. CallInv' /\ ProcessInv'
    BY <1>3, <2>1 DEF ProcessEnds, CallInv, CallAt, ProcessInv, Calls
  <2>4. FactoryInv' /\ NoStray' /\ StaysInv'
    BY <2>2 DEF FactoryInv, NoStray, StaysInv
  <2>5. ResultInv'
    <3> SUFFICES ASSUME NEW q \in Senders, result'[q] = "ok"
                 PROVE  step'[q] = "done"
      BY <2>1 DEF ResultInv
    <3>1. result[q] = "ok"
      BY <1>3 DEF ProcessEnds
    <3> QED
      BY <1>3, <3>1 DEF ProcessEnds, ChildInv, ResultInv
  <2> QED
    BY <2>3, <2>4, <2>5 DEF ChildInv
<1>4. ASSUME NEW o \in Sends, Send(o)
      PROVE  ChildInv'
  <2>1. o \in Senders /\ step[o] = "unused"
        /\ UNCHANGED <<gateway, transports, process, connected, alive, exited, list, result, call>>
    BY <1>4 DEF Send, Senders
  <2>2. /\ \A q \in Senders : step[q] \in {"unused", "done"}
        /\ \A q \in Senders : step'[q] = IF q = o THEN "loading" ELSE step[q]
    BY <1>1, <1>4, <2>1 DEF Send, Goto, Quiet, Idle, TypeOK
  <2>3. \A q \in Senders : result'[q] = "ok" => result[q] = "ok" /\ step'[q] = "done"
    BY <2>1, <2>2 DEF ChildInv, ResultInv
  <2>4. FactoryInv'
    BY <2>1 DEF ChildInv, FactoryInv
  <2> QED
    BY <2>1, <2>2, <2>3, <2>4, RestChild
<1> QED
  BY <1>2, <1>3, <1>4

LEMMA UnchangedChild ==
  ASSUME ChildInv, UNCHANGED vars
  PROVE  ChildInv'
BY DEF vars, ChildInv, FactoryInv, CallInv, CallAt, ProcessInv, NoStray, ResultInv, StaysInv

LEMMA InitChild == Init => ChildInv
<1> SUFFICES ASSUME Init
             PROVE  ChildInv
  OBVIOUS
<1>1. FactoryInv /\ NoStray /\ ResultInv /\ StaysInv
  BY DEF Init, FactoryInv, NoStray, ResultInv, StaysInv
<1>2. CallInv
  BY DEF Init, CallInv, CallAt, Calls
<1>3. ProcessInv
  BY DEF Init, ProcessInv
<1> QED
  BY <1>1, <1>2, <1>3 DEF ChildInv

LEMMA ChildInductive ==
  ASSUME SerialSends, OneFactory
  PROVE  Spec => []ChildInv
<1>1. IInv /\ ChildInv /\ [Next]_vars => ChildInv'
  <2> SUFFICES ASSUME IInv, ChildInv, [Next]_vars
               PROVE  ChildInv'
    OBVIOUS
  <2>1. CASE Start \/ ProcessEnds \/ (\E o \in Sends : Send(o))
    BY <2>1, GatewayChild
  <2>2. ASSUME NEW o \in Sends, AdminStep(o)
        PROVE  ChildInv'
    BY <2>2, AdminChild
  <2>3. ASSUME NEW o \in Senders, ReloadStep(o)
        PROVE  ChildInv'
    BY <2>3, PreparationChild, DisconnectChild, ReplaceChild, ConnectChild, EndChild DEF ReloadStep
  <2>4. ASSUME NEW o \in Senders, NEW p \in Providers, ProviderStep(o, p)
        PROVE  ChildInv'
    BY <2>4, ProviderChild
  <2>6. ASSUME NEW o \in Senders, NEW p \in Providers, ChildExits(p, o)
        PROVE  ChildInv'
    BY <2>6, ExitChild
  <2>5. CASE UNCHANGED vars
    BY <2>5, UnchangedChild
  <2> QED
    BY <2>1, <2>2, <2>3, <2>4, <2>5, <2>6 DEF Next
<1> QED
  BY InitChild, <1>1, Inductive, PTL DEF Spec

\* No sidecar runs that the manager could not disconnect.
THEOREM NoneAstray ==
  ASSUME SerialSends, OneFactory
  PROVE  Spec => []NoStray
<1>1. ChildInv => NoStray
  BY DEF ChildInv
<1> QED
  BY <1>1, ChildInductive, PTL

\* A provider whose reload succeeded stays connected, unless its child ends by
\* itself, until a send() has providers to put in its place: refused and failing
\* commands disturb nothing (gateway-client.ts reads the configuration and creates
\* the providers before the manager disconnects any).
THEOREM TransportsStay ==
  ASSUME SerialSends, OneFactory
  PROVE  Spec => []StaysConnected
<1>1. ChildInv => StaysConnected
  BY DEF ChildInv, StaysInv, StaysConnected, Replacing
<1> QED
  BY <1>1, ChildInductive, PTL
=============================================================================
