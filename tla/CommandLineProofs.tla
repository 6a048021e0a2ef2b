--------------------------- MODULE CommandLineProofs ---------------------------
(***************************************************************************)
(* UpDelivers and RunsActiveProfile, for any number of commands, profiles, *)
(* labels and ways to call up.                                             *)
(***************************************************************************)
EXTENDS CommandLine, TLAPS

\* The steps at which the command has not switched the profile yet, at which it
\* works on the profile it has read, and those of the other two commands.
EarlyAt == {"validate", "switchDaemon", "switchLocal"}
WorkAt  == {"status", "down", "setConfig", "login", "sso", "up",
            "setupConfig", "fgLogin", "fgRun"}
OtherAt == {"downCmd", "statusCmd", "showProfile"}

\* Such a command has a profile; only an up that was asked to switches it, and
\* the others have no arguments.
HasProfile == \A c \in Cmds : pc[c] \in WorkAt => active[c] \in Profiles
ArgsFit    == \A c \in Cmds :
                /\ pc[c] \in {"switchDaemon", "switchLocal"} => Switches(c)
                /\ pc[c] \in OtherAt => args[c] = NoArgs
SaidAtEnd  == \A c \in Cmds : said[c] => pc[c] = "idle"

\* The configuration has what the flags of a ask for: those that Login brings,
\* and the one that only SetConfig brings.
Carries(a, cfg) ==
  /\ a.labels = Unset \/ ToPunycodeList(a.labels) = ToPunycodeList(cfg.labels)
  /\ a.mtu \in {Unset, cfg.mtu}
HasAdmin(a, cfg) == a.admin \in {Unset, cfg.admin}

\* After SetConfig the stored configuration has the latter, and after Login the
\* former.
Stored == \A c \in Cmds : clean[c] =>
            /\ pc[c] \in {"sso", "up"} => Carries(args[c], config[active[c]])
            /\ pc[c] \in {"login", "sso", "up"} =>
                 skipped[c] \/ HasAdmin(args[c], config[active[c]])

\* The profile that a command has read is still the one in the file, unless
\* another command has switched it since.
UpToDate == \A c \in Cmds : pc[c] \in WorkAt /\ ~stale[c] => active[c] = local

\* The daemon runs another profile than the file's only if a command that
\* switched it is still at work.
Following == running # Off /\ ~doubt /\ running.profile # local
               => \E c \in Cmds : Switched(c) /\ pc[c] # "idle"

IInv ==
  /\ TypeOK
  /\ HasProfile
  /\ ArgsFit
  /\ SaidAtEnd
  /\ Stored
  /\ UpDelivers
  /\ UpToDate
  /\ Following

-----------------------------------------------------------------------------
(* Arguments and configurations.                                           *)

\* Arguments are a profile, labels, an MTU and an admin URL, each of which may
\* be missing.
LEMMA ArgsType ==
  ASSUME NEW a \in Args \cup {NoArgs}
  PROVE  /\ a.profile \in Profiles \cup {NoProfile}
         /\ a.labels \in {Unset} \cup SUBSET Labels
         /\ a.mtu \in {Unset} \cup UInt16
         /\ a.admin \in {Unset} \cup Urls
<1>1. CASE a \in Args
  BY <1>1, ArgsAssumption
<1>2. CASE a = NoArgs
  BY <1>2 DEF NoArgs
<1> QED BY <1>1, <1>2

\* The ASCII form of labels is labels, and converting it again changes nothing.
LEMMA PunycodeType ==
  ASSUME NEW L \in {Unset} \cup SUBSET Labels
  PROVE  /\ ToPunycodeList(L) \in {Unset} \cup SUBSET Labels
         /\ ToPunycodeList(ToPunycodeList(L)) = ToPunycodeList(L)
         /\ L # Unset => ToPunycodeList(L) # Unset
<1>1. CASE L = Unset
  BY <1>1 DEF ToPunycodeList
<1>2. CASE L # Unset
  <2>1. L \in SUBSET Labels /\ ToPunycodeList(L) = {ToPunycode[l] : l \in L}
    BY <1>2 DEF ToPunycodeList
  <2>2. \A l \in L : ToPunycode[l] \in Labels /\ ToPunycode[ToPunycode[l]] = ToPunycode[l]
    BY <2>1, PunycodeAssumption
  <2>3. ToPunycodeList(L) \in SUBSET Labels
    BY <2>1, <2>2
  <2>4. ToPunycodeList(L) # Unset
    BY <2>3, UnsetAssumption
  <2>5. ToPunycodeList(ToPunycodeList(L)) = {ToPunycode[l] : l \in ToPunycodeList(L)}
    BY <2>4 DEF ToPunycodeList
  <2>6. {ToPunycode[l] : l \in ToPunycodeList(L)} = {ToPunycode[l] : l \in L}
    BY <2>1, <2>2
  <2> QED BY <2>1, <2>3, <2>4, <2>5, <2>6
<1> QED BY <1>1, <1>2

\* What a request may hold: the labels as typed, in ASCII, or none; the MTU; the
\* admin URL or none.
FromArgs(req, a) ==
  /\ req.labels \in {a.labels, ToPunycodeList(a.labels), Unset}
  /\ req.mtu = a.mtu
  /\ req.admin \in {a.admin, Unset}

\* A request with the flags of a gives a configuration that carries them.
LEMMA ApplyCarries ==
  ASSUME NEW a \in Args \cup {NoArgs}, NEW cfg \in Config, NEW req, FromArgs(req, a)
  PROVE  /\ Apply(cfg, req) \in Config
         /\ req.labels = a.labels => Carries(a, Apply(cfg, req))
         /\ req.admin = a.admin => HasAdmin(a, Apply(cfg, req))
         /\ req.admin = Unset => Apply(cfg, req).admin = cfg.admin
<1>1. /\ req.labels \in {Unset} \cup SUBSET Labels
      /\ req.mtu \in {Unset} \cup UInt16
      /\ req.admin \in {Unset} \cup Urls
  BY ArgsType, PunycodeType DEF FromArgs
<1>2. Apply(cfg, req) \in Config
  <2>1. /\ (IF req.labels = Unset THEN cfg.labels ELSE req.labels) \in SUBSET Labels
        /\ (IF req.mtu = Unset THEN cfg.mtu ELSE req.mtu) \in UInt16
        /\ (IF req.admin = Unset THEN cfg.admin ELSE req.admin) \in Urls \cup {Unset}
    BY <1>1 DEF Config
  <2> QED BY <2>1 DEF Apply, Config
<1>3. /\ Apply(cfg, req).labels = IF req.labels = Unset THEN cfg.labels ELSE req.labels
      /\ Apply(cfg, req).mtu = IF req.mtu = Unset THEN cfg.mtu ELSE req.mtu
      /\ Apply(cfg, req).admin = IF req.admin = Unset THEN cfg.admin ELSE req.admin
  BY DEF Apply
<1>4. ASSUME req.labels = a.labels PROVE Carries(a, Apply(cfg, req))
  BY <1>3, <1>4 DEF Carries, FromArgs
<1>5. ASSUME req.admin = a.admin PROVE HasAdmin(a, Apply(cfg, req))
  BY <1>3, <1>5 DEF HasAdmin
<1> QED BY <1>2, <1>3, <1>4, <1>5

\* A client that runs has a profile, which Off has not.
LEMMA OffIsNoProfile ==
  /\ Off \notin [profile : Profiles, config : Config]
  /\ Off.profile = NoProfile
  BY ProfilesAssumption DEF Off

\* What a step does to the configuration of the profile it works on.
LEMMA StoreType ==
  ASSUME TypeOK, NEW p \in Profiles, NEW a \in Args \cup {NoArgs}, NEW req,
         FromArgs(req, a), Store(p, req)
  PROVE  /\ config' \in [Profiles -> Config]
         /\ req.labels = a.labels => Carries(a, config'[p])
         /\ req.admin = a.admin => HasAdmin(a, config'[p])
         /\ req.admin = Unset => config'[p].admin = config[p].admin
<1>1. config[p] \in Config
  BY DEF TypeOK
<1>2. config' = [config EXCEPT ![p] = Apply(config[p], req)]
  BY DEF Store
<1>3. Apply(config[p], req) \in Config
  BY <1>1, ApplyCarries
<1>4. config' \in [Profiles -> Config] /\ config'[p] = Apply(config[p], req)
  BY <1>2, <1>3 DEF TypeOK
<1> QED BY <1>1, <1>4, ApplyCarries

-----------------------------------------------------------------------------
(* Steps of the same shape.                                                *)

\* A command returns and the daemon does not change, of which a command that
\* has switched the profile leaves a doubt.
LEMMA ReturnStep ==
  ASSUME IInv, NEW c \in Cmds, NEW at \in PCs \ {"idle"}, Return(c, at),
         UNCHANGED <<local, config, running, status>>,
         Leaves(c) \/ UNCHANGED owner,
         GivesUp(c) \/ (UNCHANGED doubt /\ ~Switched(c))
  PROVE  IInv'
<1> USE DEF IInv, TypeOK, Return, Goto
<1>1. pc[c] # "idle" /\ pc' = [pc EXCEPT ![c] = "idle"] /\ pc'[c] = "idle"
  OBVIOUS
<1>0. /\ clean' \in [Cmds -> BOOLEAN] /\ skipped' \in [Cmds -> BOOLEAN]
      /\ \A d \in Cmds \ {c} : clean'[d] = clean[d] /\ skipped'[d] = skipped[d]
  BY DEF Leaves, owner
<1>2. TypeOK'
  <2>1. doubt' \in BOOLEAN
    BY DEF GivesUp
  <2>2. pc' \in [Cmds -> PCs]
    BY DEF PCs
  <2> QED BY <1>0, <2>1, <2>2
<1>3. HasProfile'
  BY <1>1 DEF HasProfile, WorkAt
<1>4. ArgsFit' /\ SaidAtEnd'
  BY <1>1 DEF ArgsFit, Switches, SaidAtEnd, OtherAt
<1>5. Stored'
  BY <1>0, <1>1 DEF Stored
<1>6. UpDelivers'
  <2>1. ~said[c]
    BY <1>1 DEF SaidAtEnd
  <2> QED BY <1>0, <2>1 DEF UpDelivers
<1>7. UpToDate'
  BY <1>1 DEF UpToDate, WorkAt
<1>8. Following'
  <2> SUFFICES ASSUME running # Off, ~doubt', running.profile # local
               PROVE  \E d \in Cmds : Switched(d)' /\ pc'[d] # "idle"
    BY DEF Following
  <2>1. ~doubt /\ ~Switched(c)
    BY DEF GivesUp
  <2>2. PICK d \in Cmds : Switched(d) /\ pc[d] # "idle"
    BY <2>1 DEF Following
  <2>3. d # c
    BY <2>1, <2>2
  <2> QED BY <2>2, <2>3 DEF Switched, Switches
<1> QED BY <1>2, <1>3, <1>4, <1>5, <1>6, <1>7, <1>8

\* A command goes on and nothing else changes.
LEMMA MoveStep ==
  ASSUME IInv, NEW c \in Cmds, NEW to \in PCs \ {"idle"},
         pc[c] # "idle", pc' = [pc EXCEPT ![c] = to],
         to \in WorkAt => pc[c] \in WorkAt,
         to \in EarlyAt => pc[c] \in EarlyAt,
         to \in {"switchDaemon", "switchLocal"} => Switches(c),
         to \in OtherAt => pc[c] \in OtherAt,
         to \in {"sso", "up"} => pc[c] \in {"sso", "up"},
         to # "login",
         UNCHANGED <<args, active, said, local, config, running, status, clean, skipped,
                     stale, doubt>>
  PROVE  IInv'
<1> USE DEF IInv, TypeOK
<1>1. TypeOK'
  OBVIOUS
<1>2. HasProfile' /\ ArgsFit' /\ SaidAtEnd' /\ UpToDate'
  BY DEF HasProfile, ArgsFit, Switches, SaidAtEnd, UpToDate
<1>3. Stored'
  BY DEF Stored
<1>4. UpDelivers'
  BY DEF UpDelivers
<1>5. Following'
  BY DEF Following, Switched, Switches, EarlyAt
<1> QED BY <1>1, <1>2, <1>3, <1>4, <1>5

\* A command changes the stored configuration of its profile and goes on to
\* another step, or fails; all others are disturbed if there is a change.
LEMMA StoreStep ==
  ASSUME IInv, NEW c \in Cmds, pc[c] \in WorkAt, NEW req,
         FromArgs(req, args[c]),
         \/ Store(active[c], req)
         \/ UNCHANGED config,
         NEW to \in (WorkAt \ {"sso", "up"}) \cup {"idle", "sso", "up"},
         to \in {"sso", "up"} => req.labels = args[c].labels /\ Store(active[c], req),
         to \in {"login", "sso", "up"} /\ clean'[c] =>
           \/ skipped'[c] \/ args[c].admin = Unset
           \/ req.admin = args[c].admin /\ Store(active[c], req)
           \/ /\ req.admin = Unset /\ Store(active[c], req)
              /\ pc[c] = "login" /\ clean[c] /\ ~skipped[c],
         \/ /\ to # "idle"
            /\ pc' = [pc EXCEPT ![c] = to]
            /\ UNCHANGED <<args, active, said, stale, doubt>>
         \/ to = "idle" /\ Return(c, pc[c]) /\ GivesUp(c),
         clean' \in [Cmds -> BOOLEAN], skipped' \in [Cmds -> BOOLEAN],
         \A d \in Cmds \ {c} : clean'[d] => /\ clean[d] /\ config' = config
                                            /\ skipped'[d] = skipped[d],
         UNCHANGED <<local, running, status>>
  PROVE  IInv'
<1> USE DEF IInv
<1>1. active[c] \in Profiles /\ args[c] \in Args \cup {NoArgs}
  BY DEF HasProfile, TypeOK
<1>2. /\ config' \in [Profiles -> Config]
      /\ to \in {"sso", "up"} => Carries(args[c], config'[active[c]])
  BY <1>1, StoreType DEF TypeOK
<1>2a. to \in {"login", "sso", "up"} /\ clean'[c] =>
         skipped'[c] \/ HasAdmin(args[c], config'[active[c]])
  <2> SUFFICES ASSUME to \in {"login", "sso", "up"}, clean'[c], ~skipped'[c]
               PROVE  HasAdmin(args[c], config'[active[c]])
    OBVIOUS
  <2>1. CASE req.admin = args[c].admin /\ Store(active[c], req)
    BY <1>1, <2>1, StoreType
  <2>2. CASE /\ req.admin = Unset /\ Store(active[c], req)
             /\ pc[c] = "login" /\ clean[c] /\ ~skipped[c]
    <3>1. HasAdmin(args[c], config[active[c]])
      BY <2>2 DEF Stored
    <3>2. config'[active[c]].admin = config[active[c]].admin
      BY <1>1, <2>2, StoreType
    <3> QED BY <3>1, <3>2 DEF HasAdmin
  <2>3. CASE args[c].admin = Unset
    BY <2>3 DEF HasAdmin
  <2> QED BY <2>1, <2>2, <2>3
<1>3. pc' = [pc EXCEPT ![c] = to] /\ pc[c] # "idle"
  BY DEF Return, Goto, WorkAt
<1>4. \A d \in Cmds \ {c} : /\ pc'[d] = pc[d] /\ args'[d] = args[d] /\ active'[d] = active[d]
                            /\ said'[d] = said[d] /\ stale'[d] = stale[d]
  BY DEF Return, Goto, TypeOK
<1>5. ~said[c] /\ ~said'[c] /\ pc'[c] = to
  BY <1>3 DEF SaidAtEnd, Return, TypeOK
<1>6. TypeOK'
  <2>1. pc' \in [Cmds -> PCs]
    BY <1>3 DEF TypeOK, WorkAt, PCs
  <2>2. /\ args' \in [Cmds -> Args \cup {NoArgs}]
        /\ active' \in [Cmds -> Profiles \cup {NoProfile}]
        /\ said' \in [Cmds -> BOOLEAN]
        /\ stale' \in [Cmds -> BOOLEAN]
    BY DEF Return, TypeOK
  <2>3. doubt' \in BOOLEAN
    BY DEF GivesUp, TypeOK
  <2> QED BY <1>2, <2>1, <2>2, <2>3 DEF TypeOK
<1>7. to # "idle" => args'[c] = args[c] /\ active'[c] = active[c] /\ stale'[c] = stale[c]
  OBVIOUS
<1>8. HasProfile' /\ UpToDate'
  BY <1>1, <1>4, <1>5, <1>7 DEF HasProfile, UpToDate, WorkAt
<1>9. ArgsFit' /\ SaidAtEnd'
  BY <1>4, <1>5 DEF ArgsFit, Switches, SaidAtEnd, OtherAt, WorkAt
<1>10. Stored'
  BY <1>2, <1>2a, <1>4, <1>5, <1>7 DEF Stored, WorkAt
<1>11. UpDelivers'
  BY <1>4, <1>5 DEF UpDelivers
<1>12. Following'
  <2> SUFFICES ASSUME running # Off, ~doubt', running.profile # local
               PROVE  \E d \in Cmds : Switched(d)' /\ pc'[d] # "idle"
    BY DEF Following
  <2>1. ~doubt /\ (to = "idle" => ~Switched(c))
    <3>1. CASE to # "idle"
      <4>1. doubt' = doubt
        BY <3>1
      <4> QED BY <3>1, <4>1
    <3>2. CASE to = "idle"
      <4>1. doubt' = (running # Off /\ (doubt \/ Switched(c)))
        BY <3>2 DEF GivesUp
      <4> QED BY <4>1, Zenon
    <3> QED BY <3>1, <3>2
  <2>2. PICK d \in Cmds : Switched(d) /\ pc[d] # "idle"
    BY <2>1 DEF Following
  <2>3. CASE d = c
    BY <1>5, <1>7, <2>1, <2>2, <2>3 DEF Switched, Switches, WorkAt
  <2>4. CASE d # c
    BY <1>4, <2>2, <2>4 DEF Switched, Switches
  <2> QED BY <2>3, <2>4
<1> QED BY <1>6, <1>8, <1>9, <1>10, <1>11, <1>12

-----------------------------------------------------------------------------
(* The commands begin.                                                     *)

\* An up begins: what its process said before no longer counts.
LEMMA BeginStep ==
  ASSUME IInv, NEW c \in Cmds, NEW a \in Args, Begin(c, a)
  PROVE  IInv'
<1> USE DEF IInv, TypeOK, Begin, Leaves, Goto, daemon
<1>1. pc[c] = "idle" /\ pc'[c] = "validate" /\ ~said'[c] /\ ~clean'[c]
  OBVIOUS
<1>2. \A d \in Cmds \ {c} : /\ pc'[d] = pc[d] /\ args'[d] = args[d] /\ active'[d] = active[d]
                            /\ said'[d] = said[d] /\ stale'[d] = stale[d] /\ clean'[d] = clean[d]
                            /\ skipped'[d] = skipped[d]
  OBVIOUS
<1>3. TypeOK'
  BY DEF PCs
<1>4. HasProfile' /\ ArgsFit' /\ SaidAtEnd' /\ UpToDate'
  BY <1>1, <1>2 DEF HasProfile, ArgsFit, Switches, SaidAtEnd, UpToDate, WorkAt, OtherAt
<1>5. Stored' /\ UpDelivers'
  BY <1>1, <1>2 DEF Stored, UpDelivers
<1>6. Following'
  BY <1>1, <1>2 DEF Following, Switched, Switches
<1> QED BY <1>3, <1>4, <1>5, <1>6

\* A down or a status begins.
LEMMA BeginOtherStep ==
  ASSUME IInv, NEW c \in Cmds, NEW to \in {"downCmd", "statusCmd"}, BeginOther(c, to)
  PROVE  IInv'
<1> USE DEF IInv, TypeOK, BeginOther, Leaves, Goto, daemon
<1>1. pc[c] = "idle" /\ pc'[c] = to /\ ~said'[c] /\ ~clean'[c] /\ args'[c] = NoArgs
  OBVIOUS
<1>2. \A d \in Cmds \ {c} : /\ pc'[d] = pc[d] /\ args'[d] = args[d] /\ active'[d] = active[d]
                            /\ said'[d] = said[d] /\ stale'[d] = stale[d] /\ clean'[d] = clean[d]
                            /\ skipped'[d] = skipped[d]
  OBVIOUS
<1>3. TypeOK'
  BY DEF PCs
<1>4. HasProfile' /\ ArgsFit' /\ SaidAtEnd' /\ UpToDate'
  BY <1>1, <1>2 DEF HasProfile, ArgsFit, Switches, SaidAtEnd, UpToDate, WorkAt, OtherAt
<1>5. Stored' /\ UpDelivers'
  BY <1>1, <1>2 DEF Stored, UpDelivers
<1>6. Following'
  BY <1>1, <1>2 DEF Following, Switched, Switches
<1> QED BY <1>3, <1>4, <1>5, <1>6

-----------------------------------------------------------------------------
(* The profile.                                                            *)

\* Whoever has read another profile is stale from here on, and this command is
\* the one that the daemon's profile waits for.
LEMMA SwitchLocalStep ==
  ASSUME IInv, NEW c \in Cmds, SwitchLocal(c)
  PROVE  IInv'
<1> USE DEF IInv, TypeOK, SwitchLocal, Goto, daemon, owner
<1>0. Switches(c)
  BY DEF ArgsFit
<1>1. pc[c] = "switchLocal" /\ pc'[c] = "getActive" /\ \A d \in Cmds \ {c} : pc'[d] = pc[d]
  OBVIOUS
<1>2. TypeOK'
  <2>1. args[c].profile \in Profiles
    BY <1>0, ArgsType DEF Switches
  <2>2. pc' \in [Cmds -> PCs] /\ stale' \in [Cmds -> BOOLEAN]
    BY DEF PCs
  <2> QED BY <2>1, <2>2
<1>3. HasProfile' /\ ArgsFit' /\ SaidAtEnd'
  BY <1>1 DEF HasProfile, ArgsFit, Switches, SaidAtEnd, WorkAt, OtherAt
<1>4. Stored' /\ UpDelivers'
  BY <1>1 DEF Stored, UpDelivers
<1>5. UpToDate'
  <2> SUFFICES ASSUME NEW d \in Cmds, pc'[d] \in WorkAt PROVE stale'[d]
    BY DEF UpToDate
  <2>1. d # c /\ pc[d] \in WorkAt
    BY <1>1 DEF WorkAt
  <2>2. active[d] # NoProfile /\ pc[d] # "idle"
    BY <2>1, ProfilesAssumption DEF HasProfile, WorkAt
  <2> QED BY <2>1, <2>2
<1>6. Following'
  BY <1>0, <1>1 DEF Following, Switched, Switches
<1> QED BY <1>2, <1>3, <1>4, <1>5, <1>6

\* Reading the active profile gives the one in the file.
LEMMA GetActiveStep ==
  ASSUME IInv, NEW c \in Cmds, GetActiveProfile(c)
  PROVE  IInv'
<1> USE DEF IInv, TypeOK, GetActiveProfile, Goto, daemon, owner
<1>1. /\ pc[c] = "getActive" /\ pc'[c] \in {"setupConfig", "status"}
      /\ active'[c] = local /\ local' = local /\ local \in Profiles
  OBVIOUS
<1>2. \A d \in Cmds \ {c} : pc'[d] = pc[d] /\ active'[d] = active[d] /\ stale'[d] = stale[d]
  OBVIOUS
<1>3. TypeOK'
  BY DEF PCs
<1>4. HasProfile' /\ ArgsFit' /\ SaidAtEnd' /\ UpToDate'
  BY <1>1, <1>2 DEF HasProfile, ArgsFit, Switches, SaidAtEnd, UpToDate, OtherAt
<1>5. Stored'
  BY <1>1, <1>2 DEF Stored
<1>6. UpDelivers'
  <2>1. ~said[c]
    BY <1>1 DEF SaidAtEnd
  <2> QED BY <1>2, <2>1 DEF UpDelivers
<1>7. Following'
  BY <1>1, <1>2 DEF Following, Switched, Switches
<1> QED BY <1>3, <1>4, <1>5, <1>6, <1>7

-----------------------------------------------------------------------------
(* The daemon changes.                                                     *)

\* The daemon is taken down, and the command goes on or returns.
LEMMA DownStep ==
  ASSUME IInv, NEW c \in Cmds, Downs, Disturbs(c), doubt' = FALSE,
         \/ Goto(c, "down", "setConfig") /\ UNCHANGED <<args, active, said, stale>>
         \/ \E at \in {"down", "downCmd"} : Return(c, at),
         UNCHANGED <<local, config>>
  PROVE  IInv'
<1> USE DEF IInv, TypeOK
<1>1. /\ pc[c] # "idle" /\ pc'[c] \in {"setConfig", "idle"}
      /\ pc'[c] = "setConfig" => /\ pc[c] = "down" /\ active'[c] = active[c]
                                 /\ stale'[c] = stale[c]
      /\ said' = said
  BY DEF Goto, Return
<1>2. \A d \in Cmds \ {c} : /\ pc'[d] = pc[d] /\ args'[d] = args[d] /\ active'[d] = active[d]
                            /\ stale'[d] = stale[d] /\ ~clean'[d]
  BY DEF Goto, Return, Disturbs
<1>3. TypeOK'
  <2>1. /\ pc' \in [Cmds -> PCs] /\ args' \in [Cmds -> Args \cup {NoArgs}]
        /\ active' \in [Cmds -> Profiles \cup {NoProfile}] /\ stale' \in [Cmds -> BOOLEAN]
    BY DEF Goto, Return, PCs
  <2>2. clean' \in [Cmds -> BOOLEAN] /\ skipped' \in [Cmds -> BOOLEAN]
    BY DEF Disturbs
  <2>3. running' = Off /\ status' \in Statuses /\ status' = "Other"
    BY DEF Downs, Statuses
  <2> QED BY <1>1, <2>1, <2>2, <2>3
<1>4. HasProfile' /\ UpToDate'
  BY <1>1, <1>2 DEF HasProfile, UpToDate, WorkAt
<1>5. ArgsFit' /\ SaidAtEnd'
  BY <1>1, <1>2 DEF ArgsFit, Switches, SaidAtEnd, OtherAt
<1>6. Stored'
  BY <1>1, <1>2 DEF Stored
<1>7. UpDelivers'
  BY <1>1, <1>2 DEF UpDelivers, SaidAtEnd
<1>8. Following'
  BY DEF Following, Downs
<1> QED BY <1>3, <1>4, <1>5, <1>6, <1>7, <1>8

\* Mutual overtaking apart, the daemon then runs the profile in the file.
LEMMA UpStep ==
  ASSUME IInv, NEW c \in Cmds, Up(c)
  PROVE  IInv'
<1> USE DEF IInv, TypeOK
<1>1. /\ pc[c] = "up" /\ pc'[c] = "idle" /\ active[c] \in Profiles
      /\ \A d \in Cmds \ {c} : /\ pc'[d] = pc[d] /\ args'[d] = args[d]
                               /\ active'[d] = active[d] /\ said'[d] = said[d]
                               /\ stale'[d] = stale[d] /\ ~clean'[d]
  BY DEF Up, Goto, Return, Disturbs, HasProfile, WorkAt
<1>2. /\ said'[c] => args'[c] = args[c] /\ active'[c] = active[c]
      /\ clean'[c] => clean[c] /\ skipped'[c] = skipped[c]
  BY DEF Up, Goto, Return, Disturbs, SaidAtEnd
<1>3. /\ running' = [profile |-> active[c], config |-> config[active[c]]]
      /\ config[active[c]] \in Config
      /\ running' \in [profile : Profiles, config : Config]
      /\ running' # Off
      /\ running'.profile = active[c]
      /\ running'.config = config[active[c]]
  <2>1. running' = [profile |-> active[c], config |-> config[active[c]]]
    BY DEF Up, Runs
  <2>2. running' \in [profile : Profiles, config : Config]
    BY <1>1, <2>1
  <2> QED BY <1>1, <2>1, <2>2, OffIsNoProfile
<1>4. TypeOK'
  <2>1. /\ pc' \in [Cmds -> PCs] /\ args' \in [Cmds -> Args \cup {NoArgs}]
        /\ active' \in [Cmds -> Profiles \cup {NoProfile}] /\ stale' \in [Cmds -> BOOLEAN]
        /\ said' \in [Cmds -> BOOLEAN]
    BY DEF Up, Goto, Return, PCs
  <2>2. clean' \in [Cmds -> BOOLEAN] /\ skipped' \in [Cmds -> BOOLEAN] /\ doubt' \in BOOLEAN
    BY DEF Up, Disturbs
  <2>3. status' \in Statuses /\ UNCHANGED <<local, config>>
    BY DEF Up, Runs, Statuses
  <2> QED BY <1>3, <2>1, <2>2, <2>3
<1>5. HasProfile' /\ ArgsFit' /\ SaidAtEnd'
  BY <1>1 DEF HasProfile, ArgsFit, Switches, SaidAtEnd, WorkAt, OtherAt
<1>6. Stored' /\ UpToDate'
  <2>1. UNCHANGED <<local, config>>
    BY DEF Up
  <2> QED BY <1>1, <2>1 DEF Stored, UpToDate, WorkAt
<1>7. UpDelivers'
  <2> SUFFICES ASSUME NEW d \in Cmds, said'[d], clean'[d]
               PROVE  /\ running'.profile = active'[d]
                      /\ Carries(args'[d], running'.config)
                      /\ skipped'[d] \/ HasAdmin(args'[d], running'.config)
    BY DEF UpDelivers, Carries, HasAdmin
  <2>1. d = c
    BY <1>1
  <2>2. /\ Carries(args[c], config[active[c]])
        /\ skipped[c] \/ HasAdmin(args[c], config[active[c]])
    BY <1>1, <1>2, <2>1 DEF Stored
  <2> QED BY <1>2, <1>3, <2>1, <2>2
<1>8. Following'
  <2>1. doubt' = stale[c] /\ local' = local
    BY DEF Up
  <2>2. ~doubt' => active[c] = local
    BY <1>1, <2>1 DEF UpToDate, WorkAt
  <2> QED BY <1>3, <2>1, <2>2 DEF Following
<1> QED BY <1>4, <1>5, <1>6, <1>7, <1>8

\* The daemon by itself.
LEMMA DaemonStep ==
  ASSUME IInv, StatusChanges \/ ClientEnds
  PROVE  IInv'
<1> USE DEF IInv, TypeOK
<1>1. CASE StatusChanges
  <2>1. TypeOK'
    BY <1>1 DEF StatusChanges, history, owner, Statuses
  <2> QED BY <1>1, <2>1
          DEF StatusChanges, history, owner, HasProfile, ArgsFit, SaidAtEnd, Stored, UpDelivers,
              UpToDate, Following, Switched, Switches
<1>2. CASE ClientEnds
  <2>1. TypeOK'
    BY <1>2 DEF ClientEnds, Downs, Statuses
  <2>2. \A c \in Cmds : ~clean'[c]
    BY <1>2 DEF ClientEnds
  <2> QED BY <1>2, <2>1, <2>2
          DEF ClientEnds, Downs, HasProfile, ArgsFit, Switches, SaidAtEnd, Stored, UpDelivers,
              UpToDate, Following
<1> QED BY <1>1, <1>2

-----------------------------------------------------------------------------
(* The inductive invariant, and what it implies.                           *)

\* A call to the daemon that fails ends the command.
LEMMA CallFailsStep ==
  ASSUME IInv, NEW c \in Cmds, NEW at \in PCs \ {"idle"}, CallFails(c, at)
  PROVE  IInv'
  BY ReturnStep DEF CallFails, daemon

\* up in the foreground: the command is the client itself, and leaves the
\* daemon alone.
LEMMA ForegroundStep ==
  ASSUME IInv, NEW c \in Cmds, runInForegroundMode(c)
  PROVE  IInv'
<1> USE DEF daemon, history, owner
<1>1. CASE UpdateOrCreateConfig(c)
  <2> DEFINE req == setupConfig(args[c])
  <2>1. FromArgs(req, args[c])
    BY DEF setupConfig, FromArgs
  <2>2. /\ pc[c] = "setupConfig" /\ pc' = [pc EXCEPT ![c] = "fgLogin"]
        /\ Store(active[c], req)
        /\ UNCHANGED <<args, active, said, local, running, status, stale, doubt>>
    BY <1>1 DEF UpdateOrCreateConfig, Goto
  <2>3. /\ clean' \in [Cmds -> BOOLEAN] /\ skipped' \in [Cmds -> BOOLEAN]
        /\ \A d \in Cmds \ {c} : ~clean'[d]
    BY <1>1 DEF UpdateOrCreateConfig, Disturbs, IInv, TypeOK
  <2>4. /\ pc[c] \in WorkAt
        /\ "fgLogin" \in (WorkAt \ {"sso", "up"}) \cup {"idle", "sso", "up"}
        /\ "fgLogin" \notin {"login", "sso", "up"} /\ "fgLogin" # "idle"
    BY <2>2 DEF WorkAt
  <2>5. \A d \in Cmds \ {c} : clean'[d] => /\ clean[d] /\ config' = config
                                          /\ skipped'[d] = skipped[d]
    BY <2>3
  <2> HIDE DEF req
  <2> QED BY <2>1, <2>2, <2>3, <2>4, <2>5, StoreStep
<1>2. CASE foregroundLogin(c)
  BY <1>2, MoveStep DEF foregroundLogin, Goto, PCs, WorkAt, EarlyAt, OtherAt
<1>3. CASE setupConfigFails(c) \/ foregroundEnds(c)
  BY <1>3, CallFailsStep DEF setupConfigFails, foregroundEnds, PCs
<1> QED BY <1>1, <1>2, <1>3 DEF runInForegroundMode

\* up against the daemon: each call of the sequence Status, Down, SetConfig,
\* Login, Up keeps the invariant.
LEMMA DaemonModeStep ==
  ASSUME IInv, NEW c \in Cmds, runInDaemonMode(c)
  PROVE  IInv'
<1> USE DEF daemon, history, owner
<1>1. CASE AlreadyConnected(c)
  BY <1>1, ReturnStep DEF AlreadyConnected, Switched, PCs
<1>2. CASE StatusAnswers(c) \/ SSOLogin(c)
  BY <1>2, MoveStep DEF StatusAnswers, SSOLogin, Goto, PCs, WorkAt, EarlyAt, OtherAt
<1>3. CASE Down(c) \/ DownLate(c, "down")
  BY <1>3, DownStep DEF Down, DownLate
<1>4. CASE SetConfig(c) \/ SetConfigUnavailable(c)
  <2> DEFINE req == setupSetConfigReq(args[c])
  <2>1. FromArgs(req, args[c]) /\ req.admin = args[c].admin
    BY DEF setupSetConfigReq, FromArgs
  <2>2. /\ pc[c] = "setConfig"
        /\ Store(active[c], req) \/ UNCHANGED config
        /\ UNCHANGED <<local, running, status>>
    BY <1>4 DEF SetConfig, SetConfigUnavailable, Goto, Return
  <2>3. /\ clean' \in [Cmds -> BOOLEAN] /\ skipped' \in [Cmds -> BOOLEAN]
        /\ \A d \in Cmds \ {c} : ~clean'[d]
    BY <1>4 DEF SetConfig, SetConfigUnavailable, Claims, Disturbs, IInv, TypeOK
  <2>4. \/ pc' = [pc EXCEPT ![c] = "login"] /\ UNCHANGED <<args, active, said, stale, doubt>>
        \/ Return(c, pc[c]) /\ GivesUp(c)
    BY <1>4, <2>2 DEF SetConfig, SetConfigUnavailable, Goto
  <2>5. Store(active[c], req) \/ skipped'[c] \/ args[c].admin = Unset
    BY <1>4 DEF SetConfig, SetConfigUnavailable, Claims
  <2> HIDE DEF req
  <2> QED BY <2>1, <2>2, <2>3, <2>4, <2>5, StoreStep DEF WorkAt
<1>5. CASE Login(c)
  <2> DEFINE req == setupLoginRequest(args[c])
  <2>1. FromArgs(req, args[c]) /\ req.labels = args[c].labels /\ req.admin = Unset
    BY DEF setupLoginRequest, FromArgs
  <2>2. /\ pc[c] = "login"
        /\ Store(active[c], req)
        /\ UNCHANGED <<local, running, status>>
    BY <1>5 DEF Login, Goto, Return
  <2>3. /\ clean' \in [Cmds -> BOOLEAN] /\ skipped' \in [Cmds -> BOOLEAN]
        /\ \A d \in Cmds \ {c} : clean'[d] => /\ clean[d] /\ config' = config
                                            /\ skipped'[d] = skipped[d]
        /\ clean'[c] => clean[c] /\ skipped'[c] = skipped[c]
    BY <1>5 DEF Login, IInv, TypeOK
  <2>4. \/ \E to \in {"up", "sso", "login"} :
             pc' = [pc EXCEPT ![c] = to] /\ UNCHANGED <<args, active, said, stale, doubt>>
        \/ Return(c, pc[c]) /\ GivesUp(c)
    BY <1>5, <2>2 DEF Login, Goto
  <2> HIDE DEF req
  <2> QED BY <2>1, <2>2, <2>3, <2>4, StoreStep DEF WorkAt
<1>6. CASE Up(c)
  BY <1>6, UpStep
<1>7. CASE \/ setupLoginRequestFails(c) \/ LoginFails(c)
           \/ \E at \in {"status", "down", "setConfig", "sso", "up"} : CallFails(c, at)
  <2>1. \E at \in PCs \ {"idle"} : CallFails(c, at)
    BY <1>7 DEF setupLoginRequestFails, LoginFails, CallFails, PCs
  <2> QED BY <2>1, CallFailsStep
<1> QED BY <1>1, <1>2, <1>3, <1>4, <1>5, <1>6, <1>7 DEF runInDaemonMode

\* up as a whole: the checks, the switch of the profile, and either mode.
LEMMA UpFuncStep ==
  ASSUME IInv, NEW c \in Cmds, upFunc(c)
  PROVE  IInv'
<1> USE DEF daemon, history, owner
<1>1. CASE Validate(c)
  BY <1>1, MoveStep DEF Validate, Goto, IInv, TypeOK, PCs, WorkAt, EarlyAt, OtherAt
<1>2. CASE Rejected(c) \/ SwitchDaemonFails(c) \/ SwitchLocalFails(c)
  <2>1. PICK at \in EarlyAt : Return(c, at) /\ UNCHANGED <<local, daemon, owner, doubt>>
    BY <1>2 DEF Rejected, SwitchDaemonFails, SwitchLocalFails, EarlyAt
  <2>2. at \in PCs \ {"idle"}
    BY DEF EarlyAt, PCs
  <2>3. ~Switched(c)
    BY <2>1 DEF Return, Goto, Switched, EarlyAt
  <2> QED BY <2>1, <2>2, <2>3, ReturnStep
<1>3. CASE SwitchDaemon(c)
  <2>1. Switches(c) /\ pc[c] = "switchDaemon" /\ pc' = [pc EXCEPT ![c] = "switchLocal"]
    BY <1>3 DEF SwitchDaemon, Goto, IInv, ArgsFit
  <2> QED BY <1>3, <2>1, MoveStep DEF SwitchDaemon, PCs, WorkAt, EarlyAt, OtherAt
<1>4. CASE SwitchLocal(c) \/ GetActiveProfile(c)
  BY <1>4, SwitchLocalStep, GetActiveStep
<1>5. CASE parseCustomDNSAddressFails(c)
  BY <1>5, ReturnStep DEF parseCustomDNSAddressFails, PCs
<1>6. CASE runInForegroundMode(c) \/ runInDaemonMode(c)
  BY <1>6, ForegroundStep, DaemonModeStep
<1> QED BY <1>1, <1>2, <1>3, <1>4, <1>5, <1>6 DEF upFunc

\* down, status and an interrupt.
LEMMA OtherStep ==
  ASSUME IInv, NEW c \in Cmds, downCmd(c) \/ statusFunc(c) \/ Interrupt(c)
  PROVE  IInv'
<1> USE DEF daemon, history, owner
<1>1. CASE downCmd(c)
  BY <1>1, DownStep, CallFailsStep DEF downCmd, DownLate, PCs
<1>2. CASE statusFunc(c)
  <2>1. CASE Goto(c, "statusCmd", "showProfile")
             /\ UNCHANGED <<args, active, said, local, daemon, history>>
    BY <2>1, MoveStep DEF Goto, PCs, WorkAt, EarlyAt, OtherAt
  <2>2. CASE CallFails(c, "statusCmd")
    BY <2>2, CallFailsStep DEF PCs
  <2>3. CASE Return(c, "showProfile") /\ UNCHANGED <<local, daemon, owner, doubt>>
    <3>1. ~Switched(c)
      BY <2>3 DEF Return, Goto, IInv, ArgsFit, OtherAt, Switched, Switches, NoArgs
    <3> QED BY <2>3, <3>1, ReturnStep DEF PCs
  <2> QED BY <1>2, <2>1, <2>2, <2>3 DEF statusFunc, parseFiltersFails, getStatus
<1>3. CASE Interrupt(c)
  BY <1>3, CallFailsStep DEF Interrupt, IInv, TypeOK
<1> QED BY <1>1, <1>2, <1>3

\* A fresh installation, with no command at work, satisfies the invariant.
LEMMA InitIInv == Init => IInv
<1> SUFFICES ASSUME Init PROVE IInv
  OBVIOUS
<1>1. TypeOK
  <2>1. DefaultMTU \in UInt16
    BY SMT DEF DefaultMTU, UInt16
  <2>2. config \in [Profiles -> Config]
    BY <2>1 DEF Init, Config
  <2> QED BY <2>2 DEF Init, TypeOK, PCs, Statuses
<1>2. HasProfile /\ ArgsFit /\ SaidAtEnd /\ Stored /\ UpDelivers /\ UpToDate /\ Following
  BY DEF Init, HasProfile, ArgsFit, SaidAtEnd, Stored, UpDelivers, UpToDate, Following,
         WorkAt, OtherAt
<1> QED BY <1>1, <1>2 DEF IInv

\* Every step of every command keeps the invariant.
LEMMA NextIInv == IInv /\ [Next]_vars => IInv'
<1> SUFFICES ASSUME IInv, [Next]_vars PROVE IInv'
  OBVIOUS
<1>1. CASE UNCHANGED vars
  BY <1>1 DEF vars, daemon, history, owner, IInv, TypeOK, HasProfile, ArgsFit, SaidAtEnd, Stored,
              UpDelivers, UpToDate, Following, Switched, Switches
<1>2. ASSUME NEW c \in Cmds,
             \/ \E a \in Args : Begin(c, a)
             \/ BeginOther(c, "downCmd") \/ BeginOther(c, "statusCmd")
             \/ upFunc(c) \/ downCmd(c) \/ statusFunc(c)
             \/ Interrupt(c)
      PROVE  IInv'
  BY <1>2, BeginStep, BeginOtherStep, UpFuncStep, OtherStep
<1>3. CASE StatusChanges \/ ClientEnds
  BY <1>3, DaemonStep
<1> QED BY <1>1, <1>2, <1>3 DEF Next

\* The invariant holds in every reachable state.
LEMMA Invariance == Spec => []IInv
  BY InitIInv, NextIInv, PTL DEF Spec

\* The commands and the daemon keep the types: in particular the daemon is never
\* told to run a profile that was not read, and reports a client only if it
\* runs one.
THEOREM TypeCorrect == Spec => []TypeOK
<1>1. IInv => TypeOK
  BY DEF IInv
<1> QED BY <1>1, Invariance, PTL

\* An up that said "Connected", and was not disturbed, has delivered its profile
\* and its flags, however many other commands there are: the admin URL only if
\* SetConfig was not answered Unavailable.
THEOREM UpDeliversAlways == Spec => []UpDelivers
<1>1. IInv => UpDelivers
  BY DEF IInv
<1> QED BY <1>1, Invariance, PTL

\* When no command is at work, the daemon runs the profile in the file, unless
\* one gave up after it had switched it or was overtaken.
THEOREM RunsActiveProfileAlways == Spec => []RunsActiveProfile
<1>1. IInv => RunsActiveProfile
  BY DEF IInv, Following, RunsActiveProfile
<1> QED BY <1>1, Invariance, PTL
==============================================================================
