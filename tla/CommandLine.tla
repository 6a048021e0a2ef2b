----------------------------- MODULE CommandLine -----------------------------
(***************************************************************************)
(* The commands up, down and status (go/cmd).  A command is a process of   *)
(* its own that works through calls of the one daemon and through the file *)
(* with the user's active profile; between any two of its steps other      *)
(* commands run, and it may be interrupted.                                *)
(*                                                                         *)
(* External, modelled from the calls these commands make: the daemon, the  *)
(* profile manager and the login.  A call of the daemon takes effect or    *)
(* not, and its caller learns of a success only when it did.  The flags    *)
(* that are only copied into a request all behave like the MTU would       *)
(* without its check, like the DNS labels, or like the admin URL, which    *)
(* travels with SetConfig alone.                                           *)
(***************************************************************************)
EXTENDS Integers, Sequences

CONSTANTS
  Cmds,        \* processes, used again for one command after another
  Profiles,
  NoProfile,   \* no --profile given; the daemon runs no profile
  Labels,      \* DNS labels
  BadLabel,    \* the label that is no domain name
  ToPunycode,  \* the ASCII form of each label
  Urls,        \* admin URLs
  Unset,       \* the flag is not given, the field of the request nil
  Args         \* the arguments of up: see ArgsAssumption

MinMTU     == 576
MaxMTU     == 8192
DefaultMTU == 1280
UInt16     == 0..65535

\* What an element of --external-ip-map splits into at its slashes; the empty
\* string is <<>>.
Parts == {"ip", "iface", "other"}

ASSUME CmdsAssumption     == Cmds # {}
ASSUME ProfilesAssumption == NoProfile \notin Profiles /\ Profiles # {}
ASSUME UnsetAssumption    == /\ Unset \notin UInt16 \cup Urls
                             /\ \A S \in SUBSET Labels : Unset # S
ASSUME PunycodeAssumption == /\ ToPunycode \in [Labels -> Labels]
                             /\ \A l \in Labels : ToPunycode[ToPunycode[l]] = ToPunycode[l]
ASSUME ArgsAssumption ==
  \A a \in Args :
    /\ DOMAIN a = {"profile", "foreground", "nat", "labels", "dns", "mtu", "admin"}
    /\ a.profile \in Profiles \cup {NoProfile}
    /\ a.foreground \in BOOLEAN
    /\ a.nat \in Seq(Seq(Parts))
    /\ a.labels \in {Unset} \cup SUBSET Labels   \* {} clears them
    /\ a.dns \in BOOLEAN                         \* not given, or an address
    /\ a.mtu \in {Unset} \cup UInt16
    /\ a.admin \in {Unset} \cup Urls

VARIABLES
  pc, args,    \* what each command does next, and its arguments
  active,      \* the profile it read from the file (activeProf), or NoProfile
  said,        \* its last run was an up that said "Connected"
  local,       \* the profile in the file (ProfileManager)
  config,      \* the stored configuration of each profile
  running,     \* the profile and the configuration the daemon runs
  status,      \* the status the daemon reports
  \* History:
  clean,       \* clean[c]: since c's SetConfig nobody else changed the daemon
  skipped,     \* skipped[c]: that was Unavailable, and had to bring an admin URL
  stale,       \* stale[c]: since c read it, another command switched the profile
  doubt        \* see RunsActiveProfile

daemon  == <<config, running, status>>
owner   == <<clean, skipped>>
history == <<owner, stale, doubt>>
vars    == <<pc, args, active, said, local, daemon, history>>

PCs == {"idle", "validate", "switchDaemon", "switchLocal", "getActive", "status",
        "down", "setConfig", "login", "sso", "up", "setupConfig", "fgLogin", "fgRun",
        "downCmd", "statusCmd", "showProfile"}
\* The others (Idle, Connecting, NeedsLogin...) are only printed.
Statuses == {"Connected", "Other"}
Config   == [labels : SUBSET Labels, mtu : UInt16, admin : Urls \cup {Unset}]
Off      == [profile |-> NoProfile,
             config |-> [labels |-> {}, mtu |-> 0, admin |-> Unset]]
NoArgs   == [profile |-> NoProfile, foreground |-> FALSE, nat |-> <<>>,
             labels |-> Unset, dns |-> TRUE, mtu |-> Unset, admin |-> Unset]

TypeOK ==
  /\ pc \in [Cmds -> PCs]
  /\ args \in [Cmds -> Args \cup {NoArgs}]
  /\ active \in [Cmds -> Profiles \cup {NoProfile}]
  /\ said \in [Cmds -> BOOLEAN]
  /\ local \in Profiles
  /\ config \in [Profiles -> Config]
  /\ running \in [profile : Profiles, config : Config] \cup {Off}
  /\ status \in Statuses
  /\ (running = Off) => status = "Other"
  /\ clean \in [Cmds -> BOOLEAN]
  /\ skipped \in [Cmds -> BOOLEAN]
  /\ stale \in [Cmds -> BOOLEAN]
  /\ doubt \in BOOLEAN

-----------------------------------------------------------------------------
(* Arguments and requests.                                                 *)

\* An IP or the name of an interface of this machine, or two of them of which
\* one at most is an interface.
validateElement(part) == part \in {"ip", "iface"}

validateNATExternalIPs(list) ==
  \A i \in 1..Len(list) :
    LET parts == list[i] IN
      /\ Len(parts) \in {1, 2}
      /\ Len(parts) = 1 => parts[1] = "ip"
      /\ \A j \in 1..Len(parts) : validateElement(parts[j])
      /\ \E j \in 1..Len(parts) : parts[j] # "iface"

validateDnsLabels(labels) == labels # Unset => BadLabel \notin labels

ValidateMTU(mtu) == mtu # Unset => MinMTU <= mtu /\ mtu <= MaxMTU

\* Whoever gets a request keeps what is nil in it.
Apply(cfg, req) ==
  [labels |-> IF req.labels = Unset THEN cfg.labels ELSE req.labels,
   mtu    |-> IF req.mtu = Unset THEN cfg.mtu ELSE req.mtu,
   admin  |-> IF req.admin = Unset THEN cfg.admin ELSE req.admin]

\* domain.List.ToPunycodeList
ToPunycodeList(labels) ==
  IF labels = Unset THEN Unset ELSE {ToPunycode[l] : l \in labels}

\* The request for SetConfig has the labels in ASCII, the MTU as it is, and the
\* admin URL.
setupSetConfigReq(a) ==
  [labels |-> ToPunycodeList(a.labels), mtu |-> a.mtu, admin |-> a.admin]

\* Mutant of setupLoginRequest: the MTU is checked and then not put in.
setupLoginRequestNoMTU(a) == [labels |-> a.labels, mtu |-> Unset, admin |-> Unset]

\* The request for Login has the labels as they were typed, in place of those
\* that SetConfig has stored, and no admin URL.
setupLoginRequest(a) == [labels |-> a.labels, mtu |-> a.mtu, admin |-> Unset]

\* In the foreground no labels are nil, which should clear them and keeps them,
\* and the admin URL is not looked at.
setupConfig(a) ==
  [labels |-> IF a.labels = {} THEN Unset ELSE ToPunycodeList(a.labels),
   mtu    |-> a.mtu,
   admin  |-> Unset]

-----------------------------------------------------------------------------
(* Parts of the steps.                                                     *)

Goto(c, from, to) == pc[c] = from /\ pc' = [pc EXCEPT ![c] = to]

\* The command returns, and the process forgets all but a success of up.
Return(c, from) ==
  /\ Goto(c, from, "idle")
  /\ args' = [args EXCEPT ![c] = NoArgs]
  /\ active' = [active EXCEPT ![c] = NoProfile]
  /\ stale' = [stale EXCEPT ![c] = FALSE]
  /\ UNCHANGED said

Switches(c) == args[c].profile # NoProfile

\* A command that has switched the profile gives up before the daemon follows.
Switched(c) == Switches(c) /\ pc[c] \notin {"validate", "switchDaemon", "switchLocal"}
GivesUp(c)  == doubt' = (running # Off /\ (doubt \/ Switched(c)))

\* Nobody else can rely on the daemon being as that command left it; nor can a
\* command that has failed.
Disturbs(c) ==
  /\ clean' = [d \in Cmds |-> clean[d] /\ d = c /\ (pc'[c] # "idle" \/ said'[c])]
  /\ skipped' = [d \in Cmds |-> skipped[d] /\ clean'[d]]
Leaves(c) ==
  /\ clean' = [clean EXCEPT ![c] = FALSE]
  /\ skipped' = [skipped EXCEPT ![c] = FALSE]

\* The daemon's calls, for the command c.
Store(p, req) == config' = [config EXCEPT ![p] = Apply(@, req)]

Runs(p) ==
  /\ running' = [profile |-> p, config |-> config[p]]
  /\ status' \in Statuses
  /\ status' = "Connected" => ValidateMTU(config[p].mtu)

Downs == running' = Off /\ status' = "Other"

-----------------------------------------------------------------------------
(* upFunc.                                                                 *)

Begin(c, a) ==
  /\ Goto(c, "idle", "validate")
  /\ args' = [args EXCEPT ![c] = a]
  /\ said' = [said EXCEPT ![c] = FALSE]
  /\ Leaves(c)
  /\ active' = [active EXCEPT ![c] = NoProfile]
  /\ stale' = [stale EXCEPT ![c] = FALSE]
  /\ UNCHANGED <<local, daemon, doubt>>

Validates(c) ==
  validateNATExternalIPs(args[c].nat) /\ validateDnsLabels(args[c].labels)

Validate(c) ==
  /\ Validates(c)
  /\ Goto(c, "validate", IF Switches(c) THEN "switchDaemon" ELSE "getActive")
  /\ UNCHANGED <<args, active, said, local, daemon, history>>

\* Nothing has changed.
Rejected(c) ==
  /\ ~Validates(c)
  /\ Return(c, "validate")
  /\ UNCHANGED <<local, daemon, owner, doubt>>

\* switchProfile: the daemon's own record of the active profile.  The commands
\* name the profile in every later request, and nothing here reads it.
SwitchDaemon(c) ==
  /\ Goto(c, "switchDaemon", "switchLocal")
  /\ UNCHANGED <<args, active, said, local, daemon, history>>

SwitchDaemonFails(c) ==
  /\ Return(c, "switchDaemon")
  /\ UNCHANGED <<local, daemon, owner, doubt>>

\* ProfileManager.SwitchProfile
SwitchLocal(c) ==
  /\ Goto(c, "switchLocal", "getActive")
  /\ local' = args[c].profile
  /\ stale' = [d \in Cmds |-> d # c /\ active[d] # NoProfile /\ pc[d] # "idle"]
  /\ UNCHANGED <<args, active, said, daemon, owner, doubt>>

SwitchLocalFails(c) ==
  /\ Return(c, "switchLocal")
  /\ UNCHANGED <<local, daemon, owner, doubt>>

\* GetActiveProfile; then both modes parse --dns-resolver-address, when the
\* profile has been switched already.
GetActiveProfile(c) ==
  /\ args[c].dns
  /\ Goto(c, "getActive", IF args[c].foreground THEN "setupConfig" ELSE "status")
  /\ active' = [active EXCEPT ![c] = local]
  /\ stale' = [stale EXCEPT ![c] = FALSE]
  /\ UNCHANGED <<args, said, local, daemon, owner, doubt>>

parseCustomDNSAddressFails(c) ==
  /\ ~args[c].dns
  /\ Return(c, "getActive")
  /\ GivesUp(c)
  /\ UNCHANGED <<local, daemon, owner>>

-----------------------------------------------------------------------------
(* runInDaemonMode and doDaemonUp.                                         *)

\* A call fails: the command returns, whether the call took effect or not.
CallFails(c, at) ==
  /\ Return(c, at)
  /\ GivesUp(c)
  /\ Leaves(c)
  /\ UNCHANGED <<local, daemon>>

\* Mutant of AlreadyConnected: that the profile was switched is not looked at.
AlreadyConnectedSwitched(c) ==
  /\ status = "Connected"
  /\ Return(c, "status")
  /\ UNCHANGED <<local, daemon, owner, doubt>>

AlreadyConnected(c) ==
  /\ status = "Connected"
  /\ ~Switches(c)
  /\ Return(c, "status")
  /\ UNCHANGED <<local, daemon, owner, doubt>>

\* The other answers.  The status is what the daemon said: it may have changed
\* when the command acts on it.
StatusAnswers(c) ==
  /\ status # "Connected" \/ Switches(c)
  /\ Goto(c, "status", IF status = "Connected" THEN "down" ELSE "setConfig")
  /\ UNCHANGED <<args, active, said, local, daemon, history>>

\* client.Down.  When the call fails the daemon may be down all the same.
Down(c) ==
  /\ Goto(c, "down", "setConfig")
  /\ Downs
  /\ Disturbs(c)
  /\ doubt' = FALSE
  /\ UNCHANGED <<args, active, said, local, config, stale>>

DownLate(c, at) ==
  /\ Return(c, at)
  /\ Downs
  /\ Disturbs(c)
  /\ doubt' = FALSE
  /\ UNCHANGED <<local, config>>

\* SetConfig: from here on this command is the one that sets the daemon up.
Claims(c, skips) ==
  /\ clean' = [d \in Cmds |-> d = c]
  /\ skipped' = [d \in Cmds |-> d = c /\ skips]

SetConfig(c) ==
  /\ \/ /\ Goto(c, "setConfig", "login")
        /\ Claims(c, FALSE)
        /\ UNCHANGED <<args, active, said, stale, doubt>>
     \/ Return(c, "setConfig") /\ GivesUp(c) /\ Disturbs(c)
  /\ Store(active[c], setupSetConfigReq(args[c]))
  /\ UNCHANGED <<local, running, status>>

\* The answer is Unavailable, which the command takes for a daemon without the
\* method and goes on.  It is what a call gets that did not reach the daemon, or
\* whose answer was lost; a daemon without the method says Unimplemented, which
\* ends the command like every other error (CallFails).
SetConfigUnavailable(c) ==
  /\ Goto(c, "setConfig", "login")
  /\ Store(active[c], setupSetConfigReq(args[c])) \/ UNCHANGED config
  /\ Claims(c, args[c].admin # Unset)
  /\ UNCHANGED <<args, active, said, local, running, status, stale, doubt>>

\* No setup key could be read, or the MTU is wrong; SetConfig has been called.
setupLoginRequestFails(c) == CallFails(c, "login")

\* client.Login under WithBackOff: every error but four is retried until the
\* backoff gives up.
Login(c) ==
  /\ ValidateMTU(args[c].mtu)
  /\ \/ \E to \in {"up", "sso", "login"} :
          Goto(c, "login", to) /\ UNCHANGED <<args, active, said, stale, doubt>>
     \/ Return(c, "login") /\ GivesUp(c)
  /\ Store(active[c], setupLoginRequest(args[c]))
  /\ clean' = [d \in Cmds |-> clean[d] /\ IF d = c THEN pc'[c] # "idle" ELSE config' = config]
  /\ skipped' = [d \in Cmds |-> skipped[d] /\ clean'[d]]
  /\ UNCHANGED <<local, running, status>>

LoginFails(c) ==
  /\ ValidateMTU(args[c].mtu)
  /\ CallFails(c, "login")

\* handleSSOLogin
SSOLogin(c) ==
  /\ Goto(c, "sso", "up")
  /\ UNCHANGED <<args, active, said, local, daemon, history>>

\* client.Up.  A daemon that runs already may refuse, or start anew.
Up(c) ==
  /\ \/ /\ Goto(c, "up", "idle")
        /\ said' = [said EXCEPT ![c] = TRUE]
        /\ UNCHANGED <<args, active, stale>>
     \/ Return(c, "up")
  /\ doubt' = stale[c]
  /\ Runs(active[c])
  /\ Disturbs(c)
  /\ UNCHANGED <<local, config>>

runInDaemonMode(c) ==
  \/ AlreadyConnected(c) \/ StatusAnswers(c)
  \/ Down(c) \/ DownLate(c, "down")
  \/ SetConfig(c) \/ SetConfigUnavailable(c)
  \/ setupLoginRequestFails(c) \/ Login(c) \/ LoginFails(c) \/ SSOLogin(c) \/ Up(c)
  \/ \E at \in {"status", "down", "setConfig", "sso", "up"} : CallFails(c, at)

-----------------------------------------------------------------------------
(* runInForegroundMode: the command itself is the client (ConnectClient in *)
(* ClientLifecycle), beside the daemon.                                    *)

UpdateOrCreateConfig(c) ==
  /\ ValidateMTU(args[c].mtu)
  /\ Goto(c, "setupConfig", "fgLogin")
  /\ Store(active[c], setupConfig(args[c]))
  /\ Disturbs(c)
  /\ UNCHANGED <<args, active, said, local, running, status, stale, doubt>>

setupConfigFails(c) == CallFails(c, "setupConfig")

foregroundLogin(c) ==
  /\ Goto(c, "fgLogin", "fgRun")
  /\ UNCHANGED <<args, active, said, local, daemon, history>>

foregroundEnds(c) ==
  \/ CallFails(c, "fgLogin")
  \/ CallFails(c, "fgRun")

runInForegroundMode(c) ==
  \/ UpdateOrCreateConfig(c) \/ setupConfigFails(c)
  \/ foregroundLogin(c) \/ foregroundEnds(c)

upFunc(c) ==
  \/ Validate(c) \/ Rejected(c)
  \/ SwitchDaemon(c) \/ SwitchDaemonFails(c)
  \/ SwitchLocal(c) \/ SwitchLocalFails(c)
  \/ GetActiveProfile(c) \/ parseCustomDNSAddressFails(c)
  \/ runInForegroundMode(c)
  \/ runInDaemonMode(c)

-----------------------------------------------------------------------------
(* The other commands.                                                     *)

BeginOther(c, to) ==
  /\ Goto(c, "idle", to)
  /\ args' = [args EXCEPT ![c] = NoArgs]
  /\ said' = [said EXCEPT ![c] = FALSE]
  /\ Leaves(c)
  /\ active' = [active EXCEPT ![c] = NoProfile]
  /\ stale' = [stale EXCEPT ![c] = FALSE]
  /\ UNCHANGED <<local, daemon, doubt>>

\* Down within twenty seconds; after that the daemon may still finish it.
downCmd(c) ==
  \/ /\ Return(c, "downCmd")
     /\ Downs
     /\ Disturbs(c)
     /\ doubt' = FALSE
     /\ UNCHANGED <<local, config>>
  \/ DownLate(c, "downCmd")
  \/ CallFails(c, "downCmd")

\* The filters are parsed, and the daemon is asked.
parseFiltersFails(c) == CallFails(c, "statusCmd")

getStatus(c) ==
  \/ /\ Goto(c, "statusCmd", "showProfile")
     /\ UNCHANGED <<args, active, said, local, daemon, history>>
  \/ CallFails(c, "statusCmd")

\* Then the active profile is read from the file.  (When a login is needed, and
\* with --ipv4, it is not shown.)
statusFunc(c) ==
  \/ parseFiltersFails(c)
  \/ getStatus(c)
  \/ /\ Return(c, "showProfile")
     /\ UNCHANGED <<local, daemon, owner, doubt>>

\* The user interrupts the command.
Interrupt(c) == pc[c] # "idle" /\ CallFails(c, pc[c])

-----------------------------------------------------------------------------
(* The daemon by itself: the status of the client it runs changes, the     *)
(* client ends, the daemon restarts.                                       *)

StatusChanges ==
  /\ running # Off
  /\ status' \in Statuses
  /\ status' = "Connected" => ValidateMTU(running.config.mtu)
  /\ UNCHANGED <<pc, args, active, said, local, config, running, history>>

ClientEnds ==
  /\ running # Off
  /\ Downs
  /\ clean' = [c \in Cmds |-> FALSE]
  /\ skipped' = [c \in Cmds |-> FALSE]
  /\ doubt' = FALSE
  /\ UNCHANGED <<pc, args, active, said, local, config, stale>>

Init ==
  /\ pc = [c \in Cmds |-> "idle"]
  /\ args = [c \in Cmds |-> NoArgs]
  /\ local \in Profiles
  /\ active = [c \in Cmds |-> NoProfile]
  /\ said = [c \in Cmds |-> FALSE]
  /\ config = [p \in Profiles |-> [labels |-> {}, mtu |-> DefaultMTU, admin |-> Unset]]
  /\ running = Off
  /\ status = "Other"
  /\ clean = [c \in Cmds |-> FALSE]
  /\ skipped = [c \in Cmds |-> FALSE]
  /\ stale = [c \in Cmds |-> FALSE]
  /\ doubt = FALSE

Next ==
  \/ \E c \in Cmds :
       \/ \E a \in Args : Begin(c, a)
       \/ BeginOther(c, "downCmd") \/ BeginOther(c, "statusCmd")
       \/ upFunc(c) \/ downCmd(c) \/ statusFunc(c)
       \/ Interrupt(c)
  \/ StatusChanges \/ ClientEnds

Spec == Init /\ [][Next]_vars

-----------------------------------------------------------------------------
(* Properties.                                                             *)

\* When up has said "Connected", and nobody else has worked on the daemon since
\* it called SetConfig, the daemon runs the command's profile with the flags
\* given, however often Login was tried, of which the last one counts.  The
\* labels name the same domains, in the spelling of Login.  What only SetConfig
\* has, the admin URL, may be missing if that call was answered Unavailable;
\* what Login has as well may not.
UpDelivers ==
  \A c \in Cmds : said[c] /\ clean[c] =>
    /\ running.profile = active[c]
    /\ \/ args[c].labels = Unset
       \/ ToPunycodeList(args[c].labels) = ToPunycodeList(running.config.labels)
    /\ args[c].mtu \in {Unset, running.config.mtu}
    /\ skipped[c] \/ args[c].admin \in {Unset, running.config.admin}

\* The daemon runs the profile that is active in the file, which status shows
\* and a plain up takes to be connected ("the last used profile will be
\* used"): unless a command that switched it did not get to the end, or
\* was overtaken by another that switched it after it had read it.
RunsActiveProfile ==
  running # Off /\ ~doubt /\ (\A c \in Cmds : pc[c] = "idle")
    => running.profile = local
=============================================================================
