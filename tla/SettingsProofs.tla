--------------------------- MODULE SettingsProofs ---------------------------
(* Proofs about Settings, for any set of keys and of requests and any        *)
(* bridge.env: every invariant of its run.  The inductive invariant Inv adds *)
(* to them what a request carries from one of its steps to the next.         *)
EXTENDS Settings, TLAPS

-----------------------------------------------------------------------------
(* config.py's functions.                                                    *)

(* A loaded environment has every variable from the old one that had it.     *)
LEMMA OverlayType ==
    ASSUME NEW env \in Env, NEW new \in Env
    PROVE  /\ Overlay(env, new) \in Env
           /\ Overlay(env, new).api_key = IF env.api_key = Unset THEN new.api_key ELSE env.api_key
           /\ Overlay(env, new).dry_run = IF env.dry_run = Unset THEN new.dry_run ELSE env.dry_run
<1>1. DOMAIN env = {"dry_run", "api_key"}
  BY DEF Env
<1>2. /\ Overlay(env, new).api_key = IF env.api_key = Unset THEN new.api_key ELSE env.api_key
      /\ Overlay(env, new).dry_run = IF env.dry_run = Unset THEN new.dry_run ELSE env.dry_run
  BY <1>1 DEF Overlay
<1>3. Overlay(env, new) = [dry_run |-> Overlay(env, new).dry_run, api_key |-> Overlay(env, new).api_key]
  BY <1>1 DEF Overlay
<1>4. Overlay(env, new).dry_run \in Switch \cup {Unset} /\ Overlay(env, new).api_key \in Keys \cup {NoKey, Unset}
  BY <1>2 DEF Env
<1>. QED BY <1>2, <1>3, <1>4 DEF Env

(* A fresh process takes its file as it is.                                  *)
LEMMA OverlayNothing ==
    ASSUME NEW new \in Env
    PROVE  Overlay(Nothing, new) = new
<1>1. Nothing \in Env
  BY DEF Nothing, Env
<1>2. /\ Overlay(Nothing, new).api_key = new.api_key
      /\ Overlay(Nothing, new).dry_run = new.dry_run
  BY <1>1, OverlayType DEF Nothing, Env
<1>. QED BY <1>1, <1>2, OverlayType DEF Env

(* Any environment loads as a Config.                                        *)
LEMMA FromEnvType ==
    ASSUME NEW env \in Env
    PROVE  FromEnv(env) \in Config
BY DEF FromEnv, Env, Config

(* What a toggle writes loads as the Config it was made from.                *)
LEMMA EnvDictType ==
    ASSUME NEW c \in Config
    PROVE  EnvDict(c) \in Env /\ FromEnv(EnvDict(c)) = c
<1>1. EnvDict(c) \in Env
  BY DEF EnvDict, Env, Config, Switch
<1>2. c.api_key # Unset /\ c.dry_run \in BOOLEAN
  BY SettingsAssumption DEF Config
<1>3. FromEnv(EnvDict(c)).api_key = c.api_key
  BY <1>2 DEF EnvDict, FromEnv
<1>4. FromEnv(EnvDict(c)).dry_run = c.dry_run
  <2>1. CASE c.dry_run
    BY <2>1 DEF EnvDict, FromEnv
  <2>2. CASE ~ c.dry_run
    <3>1. FromEnv(EnvDict(c)).dry_run = ("false" = "true")
      BY <2>2 DEF EnvDict, FromEnv
    <3>2. ("false" = "true") = FALSE
      OBVIOUS
    <3>3. c.dry_run = FALSE
      BY <2>2, <1>2
    <3>. QED BY <3>1, <3>2, <3>3
  <2>. QED BY <2>1, <2>2, <1>2
<1>5. FromEnv(EnvDict(c)) \in Config
  BY <1>1, FromEnvType
<1>. QED BY <1>1, <1>3, <1>4, <1>5 DEF Config

(* The file a start finds is one of settings.                                *)
LEMMA BootFileType ==
    ASSUME TypeOK
    PROVE  BootFile \in Env
BY SettingsAssumption DEF BootFile, TypeOK

(* What the web UI may show.                                                *)
LEMMA ModeType ==
    ASSUME NEW c
    PROVE  Mode(c) \in {"stopped", "running", "dry_run"}
BY DEF Mode

(* The thread that serves nothing, and what there is before a start.         *)
LEMMA IdleType == Idle \in Request /\ NoConfig \in Config /\ Nothing \in Env
<1>1. NoConfig \in Config /\ Nothing \in Env
  BY DEF NoConfig, Config, Nothing, Env
<1>. QED BY <1>1 DEF Idle, Request, Steps

(* A setting asked for adds keys to chosen and takes none away.              *)
LEMMA AskedType ==
    ASSUME TypeOK, NEW env \in Env
    PROVE  Asked(env) \subseteq Keys /\ chosen \subseteq Asked(env)
BY DEF Asked, TypeOK

-----------------------------------------------------------------------------
(* Requests.                                                                 *)

(* A request that meets another keeps everything but being alone.            *)
Disturbed(q) ==
    /\ req'[q].page = req[q].page /\ req'[q].at = req[q].at
    /\ req'[q].want = req[q].want /\ req'[q].cfg = req[q].cfg
    /\ ~ req'[q].alone

(* What a request's beginning leaves in req.                                 *)
LEMMA BeginReq ==
    ASSUME TypeOK, NEW r \in Requests, NEW new \in Request, Begin(r, new)
    PROVE  /\ req' \in [Requests -> Request]
           /\ req'[r] = [new EXCEPT !.alone = (Busy = {} /\ proc = "up")]
           /\ \A q \in Requests \ {r} : Disturbed(q)
<1>1. [new EXCEPT !.alone = (Busy = {} /\ proc = "up")] \in Request
  <2>1. (Busy = {} /\ proc = "up") \in BOOLEAN
    OBVIOUS
  <2>. DEFINE b == (Busy = {} /\ proc = "up")
  <2>. HIDE DEF b
  <2>2. ASSUME b \in BOOLEAN PROVE [new EXCEPT !.alone = b] \in Request
    BY <2>2 DEF Request
  <2>. QED BY <2>1, <2>2 DEF b
<1>2. \A q \in Requests : [req[q] EXCEPT !.alone = FALSE] \in Request
  BY DEF TypeOK, Request
<1>3. req' = [q \in Requests |-> IF q = r THEN [new EXCEPT !.alone = (Busy = {} /\ proc = "up")]
                                          ELSE [req[q] EXCEPT !.alone = FALSE]]
  BY DEF Begin
<1>4. ASSUME NEW q \in Requests \ {r} PROVE Disturbed(q)
  <2>1. req'[q] = [req[q] EXCEPT !.alone = FALSE] /\ req[q] \in Request
    BY <1>3 DEF TypeOK
  <2>. QED BY <2>1 DEF Request, Disturbed
<1>. QED BY <1>1, <1>2, <1>3, <1>4

(* What the three beginnings have in common.                                 *)
LEMMA Beginnings ==
    ASSUME TypeOK, NEW r \in Requests, BeginToggle(r) \/ BeginConfig(r) \/ BeginSetup(r)
    PROVE  /\ proc # "down" /\ req[r].at = "idle" /\ calm' = FALSE
           /\ req' \in [Requests -> Request]
           /\ UNCHANGED <<procVars, hasFile, file>>
           /\ chosen' = Asked(req'[r].want) /\ req'[r].want \in Env
           /\ req'[r].alone = (Busy = {} /\ proc = "up")
           /\ \/ /\ req'[r].page # "toggle" /\ req'[r].at = "open"
              \/ /\ req'[r].page = "toggle" /\ req'[r].at = "install"
                 /\ req'[r].cfg \in Config
                 /\ req'[r].cfg.api_key = appCfg.api_key
                 /\ req'[r].want = EnvDict(req'[r].cfg)
           /\ \A q \in Requests \ {r} : Disturbed(q)
<1>. USE IdleType
<1>. DEFINE al == (Busy = {} /\ proc = "up")
<1>1. CASE BeginToggle(r)
  <2>. DEFINE new == [appCfg EXCEPT !.dry_run = ~ @]
              mine == [Idle EXCEPT !.page = "toggle", !.at = "install",
                                   !.cfg = new, !.want = EnvDict(new)]
  <2>1. new \in Config /\ new.api_key = appCfg.api_key
    BY DEF TypeOK, Config
  <2>2. EnvDict(new) \in Env
    BY <2>1, EnvDictType
  <2>. HIDE DEF new
  <2>3. /\ mine \in Request /\ mine.page = "toggle" /\ mine.at = "install"
        /\ mine.cfg = new /\ mine.want = EnvDict(new)
    BY <2>1, <2>2 DEF Request, Steps
  <2>4. Begin(r, mine) /\ chosen' = Asked(EnvDict(new)) /\ UNCHANGED <<procVars, hasFile, file>>
    BY <1>1 DEF BeginToggle, new
  <2>. HIDE DEF mine
  <2>5. req'[r] = [mine EXCEPT !.alone = al]
    BY <2>3, <2>4, BeginReq
  <2>6. /\ req'[r].page = "toggle" /\ req'[r].at = "install"
        /\ req'[r].cfg = new /\ req'[r].want = EnvDict(new) /\ req'[r].alone = al
    BY <2>3, <2>5 DEF Request
  <2>. QED BY <2>1, <2>2, <2>3, <2>4, <2>6, BeginReq DEF Begin
<1>2. ASSUME NEW env \in Env, NEW page \in {"config", "setup"},
             Begin(r, [Idle EXCEPT !.page = page, !.at = "open", !.want = env])
      PROVE  /\ req' \in [Requests -> Request] /\ req'[r].want = env
             /\ req'[r].page # "toggle" /\ req'[r].at = "open" /\ req'[r].alone = al
             /\ \A q \in Requests \ {r} : Disturbed(q)
  <2>. DEFINE mine == [Idle EXCEPT !.page = page, !.at = "open", !.want = env]
  <2>1. mine \in Request /\ mine.page = page /\ mine.at = "open" /\ mine.want = env
    BY DEF Request, Steps
  <2>2. Begin(r, mine)
    BY <1>2
  <2>. HIDE DEF mine
  <2>3. req'[r] = [mine EXCEPT !.alone = al]
    BY <2>1, <2>2, BeginReq
  <2>4. /\ req'[r].page = page /\ req'[r].at = "open"
        /\ req'[r].want = env /\ req'[r].alone = al
    BY <2>1, <2>3 DEF Request
  <2>. QED BY <2>1, <2>2, <2>4, BeginReq
<1>3. CASE BeginConfig(r)
  <2>1. PICK env \in [dry_run : Switch, api_key : Keys \cup {NoKey, Unset}] :
            /\ Begin(r, [Idle EXCEPT !.page = "config", !.at = "open", !.want = env])
            /\ chosen' = Asked(env)
            /\ UNCHANGED <<procVars, hasFile, file>>
    BY <1>3 DEF BeginConfig
  <2>2. env \in Env
    BY DEF Env
  <2>. QED BY <1>2, <2>1, <2>2 DEF Begin
<1>4. CASE BeginSetup(r)
  <2>1. PICK env \in [dry_run : {"true", Unset}, api_key : Keys \cup {NoKey}] :
            /\ Begin(r, [Idle EXCEPT !.page = "setup", !.at = "open", !.want = env])
            /\ chosen' = Asked(env)
            /\ UNCHANGED <<procVars, hasFile, file>>
    BY <1>4 DEF BeginSetup
  <2>2. env \in Env
    BY DEF Env, Switch
  <2>. QED BY <1>2, <2>1, <2>2 DEF Begin
<1>. QED BY <1>1, <1>3, <1>4

-----------------------------------------------------------------------------
(* Every step keeps the types.                                               *)
LEMMA TypeStep == TypeOK /\ [Next]_vars => TypeOK'
<1>. SUFFICES ASSUME TypeOK, [Next]_vars PROVE TypeOK'
  OBVIOUS
<1>. USE IdleType
<1>1. ASSUME NEW r \in Requests, BeginToggle(r) \/ BeginConfig(r) \/ BeginSetup(r)
      PROVE  TypeOK'
  BY <1>1, Beginnings, AskedType DEF TypeOK, procVars
<1>4. ASSUME NEW r \in Requests, Open(r) PROVE TypeOK'
  BY <1>4 DEF Open, Step, TypeOK, procVars, histVars, Request, Steps
<1>5. ASSUME NEW r \in Requests, Write(r) PROVE TypeOK'
  BY <1>5 DEF Write, TypeOK, procVars, histVars, Request, Steps
<1>6. ASSUME NEW r \in Requests, SaveFails(r) PROVE TypeOK'
  BY <1>6 DEF SaveFails, Finish, TypeOK, procVars, histVars, Request, Steps
<1>7. ASSUME NEW r \in Requests, Reload(r) PROVE TypeOK'
  <2>1. environ' \in Env /\ FromEnv(environ') \in Config
    BY <1>7, OverlayType, FromEnvType DEF Reload, TypeOK
  <2>. QED BY <1>7, <2>1 DEF Reload, TypeOK, histVars, Request, Steps
<1>8. ASSUME NEW r \in Requests, Install(r) PROVE TypeOK'
  <2>1. appCfg' \in Config
    BY <1>8 DEF Install, TypeOK, Request
  <2>2. req' \in [Requests -> Request]
    BY <1>8 DEF Install, Step, Finish, TypeOK, Request, Steps
  <2>. QED BY <1>8, <2>1, <2>2 DEF Install, TypeOK, histVars
<1>9. ASSUME NEW r \in Requests, Show(r) PROVE TypeOK'
  <2>1. calm' \in BOOLEAN
    BY <1>9 DEF Show, TypeOK, Request
  <2>. QED BY <1>9, <2>1, ModeType DEF Show, Finish, TypeOK
<1>10. CASE StartService
  <2>. DEFINE env == Overlay(Nothing, BootFile)
  <2>1. env \in Env /\ FromEnv(env) \in Config
    BY BootFileType, OverlayType, FromEnvType
  <2>. QED BY <1>10, <2>1 DEF StartService, TypeOK
<1>11. CASE Announce
  BY <1>11, ModeType DEF Announce, TypeOK, histVars
<1>12. CASE End
  BY <1>12 DEF End, TypeOK, histVars
<1>13. CASE EditByHand
  <2>1. PICK env \in Env : hasFile' = TRUE /\ file' = env /\ chosen' = Asked(env)
            /\ calm' = FALSE /\ UNCHANGED procVars
            /\ req' = [r \in Requests |-> [req[r] EXCEPT !.alone = FALSE]]
    BY <1>13 DEF EditByHand
  <2>2. req' \in [Requests -> Request]
    BY <2>1 DEF TypeOK, Request
  <2>. QED BY <2>1, <2>2, AskedType DEF TypeOK, procVars
<1>14. CASE UNCHANGED vars
  BY <1>14 DEF vars, procVars, histVars, TypeOK
<1>. QED BY <1>1, <1>4, <1>5, <1>6, <1>7, <1>8, <1>9, <1>10, <1>11,
            <1>12, <1>13, <1>14 DEF Next, Serve

-----------------------------------------------------------------------------
(* The parts of the invariant.                                               *)

(* A live setting with a usable key is one somebody asked for.               *)
AskedFor(env) ==
    ~ FromEnv(env).dry_run /\ env.api_key \in Keys => env.api_key \in chosen

(* So is every setting that may be loaded: on file, or on its way there.     *)
AskedInv ==
    /\ AskedFor(file) /\ AskedFor(BridgeEnv)
    /\ \A r \in Requests : AskedFor(req[r].want)
    /\ LiveOnlyIfAsked

(* The key of a live loop is the environment's, which no reload changes.     *)
KeyInv ==
    proc # "down" /\ ~ loopCfg.dry_run =>
        /\ environ.api_key = loopCfg.api_key /\ environ.api_key \in Keys
        /\ appCfg.api_key = loopCfg.api_key
        /\ \A r \in Requests :
              req[r].at = "install" => req[r].cfg.api_key = loopCfg.api_key

(* How far a toggle that nothing disturbed has brought its change.           *)
ToggleInv(r) ==
    req[r].alone /\ req[r].page = "toggle" =>
        /\ req[r].at # "reload"
        /\ req[r].at \in {"install", "open", "write"} => req[r].want = EnvDict(req[r].cfg)
        /\ req[r].at \in {"open", "write", "show"} => appCfg = req[r].cfg
        /\ req[r].at \in {"write", "show"} => hasFile
        /\ req[r].at = "show" => FromEnv(file) = req[r].cfg

(* Who is served while the process is down, while one is alone, while calm.  *)
AloneInv ==
    /\ proc = "down" => Busy = {}
    /\ \A r \in Requests : req[r].alone => proc = "up" /\ Busy \subseteq {r}
    /\ calm => Busy = {}

(* What agrees from a start or an undisturbed toggle on.                     *)
CalmInv ==
    calm /\ proc # "down" =>
        /\ FromEnv(BootFile) = appCfg
        /\ proc = "starting" => appCfg = loopCfg
        /\ proc = "up" => shown = Mode(appCfg)

-----------------------------------------------------------------------------
(* Going live.                                                               *)
LEMMA AskedStep == TypeOK /\ AskedInv /\ [Next]_vars => AskedInv'
<1>. SUFFICES ASSUME TypeOK, AskedInv, [Next]_vars PROVE AskedInv'
  OBVIOUS
<1>. USE IdleType
<1>a. AskedFor(Nothing)
  BY SettingsAssumption DEF AskedFor, Nothing
<1>1. ASSUME NEW r \in Requests, BeginToggle(r) \/ BeginConfig(r) \/ BeginSetup(r)
      PROVE  AskedInv'
  <2>1. chosen \subseteq chosen' /\ AskedFor(req[r].want)'
    BY <1>1, Beginnings DEF Asked, AskedFor
  <2>2. ASSUME NEW q \in Requests \ {r} PROVE AskedFor(req[q].want)'
    <3>1. req'[q].want = req[q].want
      BY <1>1, Beginnings DEF Disturbed
    <3>2. AskedFor(req[q].want)
      BY DEF AskedInv
    <3>. QED BY <2>1, <3>1, <3>2 DEF AskedFor
  <2>. QED BY <1>1, <2>1, <2>2, Beginnings DEF AskedInv, AskedFor, LiveOnlyIfAsked, procVars
<1>2. ASSUME NEW r \in Requests, Open(r) PROVE AskedInv'
  BY <1>2, <1>a DEF AskedInv, AskedFor, LiveOnlyIfAsked, Open, Step, TypeOK, Request, procVars, histVars
<1>3. ASSUME NEW r \in Requests, Write(r) PROVE AskedInv'
  BY <1>3, <1>a DEF AskedInv, AskedFor, LiveOnlyIfAsked, Write, TypeOK, Request, procVars, histVars
<1>4. ASSUME NEW r \in Requests, SaveFails(r) PROVE AskedInv'
  BY <1>4, <1>a DEF AskedInv, AskedFor, LiveOnlyIfAsked, SaveFails, Finish, Idle, TypeOK, Request, procVars, histVars
<1>5. ASSUME NEW r \in Requests, Reload(r) PROVE AskedInv'
  BY <1>5 DEF AskedInv, AskedFor, LiveOnlyIfAsked, Reload, TypeOK, Request, histVars
<1>6. ASSUME NEW r \in Requests, Install(r) PROVE AskedInv'
  BY <1>6, <1>a DEF AskedInv, AskedFor, LiveOnlyIfAsked, Install, Step, Finish, Idle, TypeOK, Request, histVars
<1>7. ASSUME NEW r \in Requests, Show(r) PROVE AskedInv'
  BY <1>7, <1>a DEF AskedInv, AskedFor, LiveOnlyIfAsked, Show, Finish, Idle, TypeOK, Request
<1>8. CASE StartService
  <2>1. loopCfg' = FromEnv(BootFile) /\ Accepted(FromEnv(BootFile)) /\ UNCHANGED <<hasFile, file, req, chosen>>
    BY <1>8, BootFileType, OverlayNothing DEF StartService
  <2>2. AskedFor(BootFile)
    BY DEF BootFile, AskedInv
  <2>3. ~ FromEnv(BootFile).dry_run => FromEnv(BootFile).api_key \in chosen
    BY <2>1, <2>2, SettingsAssumption DEF Accepted, AskedFor, FromEnv
  <2>. QED BY <2>1, <2>3 DEF AskedInv, AskedFor, LiveOnlyIfAsked
<1>9. CASE Announce
  BY <1>9 DEF AskedInv, AskedFor, LiveOnlyIfAsked, Announce, histVars
<1>10. CASE End
  BY <1>10, <1>a DEF AskedInv, AskedFor, LiveOnlyIfAsked, End, Idle, histVars
<1>11. CASE EditByHand
  <2>1. chosen \subseteq chosen' /\ AskedFor(file)' /\ UNCHANGED procVars
    BY <1>11 DEF EditByHand, Asked, AskedFor
  <2>2. \A r \in Requests : req'[r].want = req[r].want
    BY <1>11 DEF EditByHand, TypeOK, Request
  <2>. QED BY <2>1, <2>2 DEF AskedInv, AskedFor, LiveOnlyIfAsked, procVars
<1>12. CASE UNCHANGED vars
  BY <1>12 DEF vars, procVars, histVars, AskedInv, AskedFor, LiveOnlyIfAsked
<1>. QED BY <1>1, <1>2, <1>3, <1>4, <1>5, <1>6, <1>7, <1>8, <1>9, <1>10, <1>11,
            <1>12 DEF Next, Serve

(* Who meets whom.                                                           *)
LEMMA AloneStep == TypeOK /\ AloneInv /\ [Next]_vars => AloneInv'
<1>. SUFFICES ASSUME TypeOK, AloneInv, [Next]_vars PROVE AloneInv'
  OBVIOUS
<1>. USE IdleType
<1>1. ASSUME NEW r \in Requests, BeginToggle(r) \/ BeginConfig(r) \/ BeginSetup(r)
      PROVE  AloneInv'
  <2>1. /\ UNCHANGED proc /\ proc # "down" /\ calm' = FALSE
        /\ req'[r].alone = (Busy = {} /\ proc = "up")
        /\ \A q \in Requests \ {r} : req'[q].at = req[q].at /\ ~ req'[q].alone
    BY <1>1, Beginnings DEF Disturbed, procVars
  <2>. QED BY <2>1 DEF AloneInv, Busy
<1>2. ASSUME NEW r \in Requests, Open(r) PROVE AloneInv'
  BY <1>2 DEF AloneInv, Busy, Open, Step, TypeOK, Request, procVars, histVars
<1>3. ASSUME NEW r \in Requests, Write(r) PROVE AloneInv'
  BY <1>3 DEF AloneInv, Busy, Write, TypeOK, Request, procVars, histVars
<1>4. ASSUME NEW r \in Requests, SaveFails(r) PROVE AloneInv'
  BY <1>4 DEF AloneInv, Busy, SaveFails, Finish, Idle, TypeOK, Request, procVars, histVars
<1>5. ASSUME NEW r \in Requests, Reload(r) PROVE AloneInv'
  BY <1>5 DEF AloneInv, Busy, Reload, TypeOK, Request, histVars
<1>6. ASSUME NEW r \in Requests, Install(r) PROVE AloneInv'
  BY <1>6 DEF AloneInv, Busy, Install, Step, Finish, Idle, TypeOK, Request, histVars
<1>7. ASSUME NEW r \in Requests, Show(r) PROVE AloneInv'
  BY <1>7 DEF AloneInv, Busy, Show, Finish, Idle, TypeOK, Request
<1>8. CASE StartService
  BY <1>8 DEF AloneInv, Busy, StartService
<1>9. CASE Announce
  BY <1>9 DEF AloneInv, Busy, Announce, histVars
<1>10. CASE End
  BY <1>10 DEF AloneInv, Busy, End, Idle
<1>11. CASE EditByHand
  <2>1. \A r \in Requests : req'[r].at = req[r].at /\ ~ req'[r].alone
    BY <1>11 DEF EditByHand, TypeOK, Request
  <2>. QED BY <1>11, <2>1 DEF EditByHand, AloneInv, Busy, procVars
<1>12. CASE UNCHANGED vars
  BY <1>12 DEF vars, procVars, histVars, AloneInv, Busy
<1>. QED BY <1>1, <1>2, <1>3, <1>4, <1>5, <1>6, <1>7, <1>8, <1>9, <1>10, <1>11,
            <1>12 DEF Next, Serve

(* The key of a live loop.                                                   *)
LEMMA KeyStep == TypeOK /\ AloneInv /\ KeyInv /\ [Next]_vars => KeyInv'
<1>. SUFFICES ASSUME TypeOK, AloneInv, KeyInv, [Next]_vars PROVE KeyInv'
  OBVIOUS
<1>. USE IdleType
<1>1. ASSUME NEW r \in Requests, BeginToggle(r) \/ BeginConfig(r) \/ BeginSetup(r)
      PROVE  KeyInv'
  <2>1. \A q \in Requests \ {r} : req'[q].at = req[q].at /\ req'[q].cfg = req[q].cfg
    BY <1>1, Beginnings DEF Disturbed
  <2>2. UNCHANGED procVars /\ (req'[r].at = "install" => req'[r].cfg.api_key = appCfg.api_key)
    BY <1>1, Beginnings
  <2>. QED BY <2>1, <2>2 DEF KeyInv, procVars
<1>2. ASSUME NEW r \in Requests, Open(r) PROVE KeyInv'
  BY <1>2 DEF KeyInv, Open, Step, TypeOK, Request, procVars
<1>3. ASSUME NEW r \in Requests, Write(r) PROVE KeyInv'
  BY <1>3 DEF KeyInv, Write, TypeOK, Request, procVars
<1>4. ASSUME NEW r \in Requests, SaveFails(r) PROVE KeyInv'
  BY <1>4 DEF KeyInv, SaveFails, Finish, Idle, TypeOK, Request, procVars
<1>5. ASSUME NEW r \in Requests, Reload(r) PROVE KeyInv'
  <2>1. UNCHANGED <<proc, loopCfg, appCfg>>
    BY <1>5 DEF Reload
  <2>2. proc # "down" /\ ~ loopCfg.dry_run => environ'.api_key = environ.api_key
    BY <1>5, OverlayType, SettingsAssumption DEF Reload, KeyInv, TypeOK
  <2>3. proc # "down" /\ ~ loopCfg.dry_run => FromEnv(environ').api_key = environ.api_key
    BY <2>2, SettingsAssumption DEF FromEnv, KeyInv
  <2>. QED BY <1>5, <2>1, <2>2, <2>3 DEF Reload, KeyInv, TypeOK, Request
<1>6. ASSUME NEW r \in Requests, Install(r) PROVE KeyInv'
  BY <1>6 DEF KeyInv, Install, Step, Finish, Idle, TypeOK, Request
<1>7. ASSUME NEW r \in Requests, Show(r) PROVE KeyInv'
  BY <1>7 DEF KeyInv, Show, Finish, Idle, TypeOK, Request
<1>8. CASE StartService
  <2>1. /\ environ' = BootFile /\ loopCfg' = FromEnv(BootFile) /\ appCfg' = loopCfg'
        /\ Accepted(FromEnv(BootFile)) /\ UNCHANGED req
    BY <1>8, BootFileType, OverlayNothing DEF StartService
  <2>2. ~ loopCfg'.dry_run => loopCfg'.api_key = BootFile.api_key /\ BootFile.api_key \in Keys
    BY <2>1, SettingsAssumption DEF Accepted, FromEnv
  <2>3. \A r \in Requests : req'[r].at = "idle"
    BY <1>8, <2>1 DEF StartService, AloneInv, Busy
  <2>. QED BY <2>1, <2>2, <2>3 DEF KeyInv
<1>9. CASE Announce
  BY <1>9 DEF KeyInv, Announce
<1>10. CASE End
  BY <1>10 DEF KeyInv, End
<1>11. CASE EditByHand
  <2>1. \A r \in Requests : req'[r].at = req[r].at /\ req'[r].cfg = req[r].cfg
    BY <1>11 DEF EditByHand, TypeOK, Request
  <2>. QED BY <1>11, <2>1 DEF EditByHand, KeyInv, procVars
<1>12. CASE UNCHANGED vars
  BY <1>12 DEF vars, procVars, KeyInv
<1>. QED BY <1>1, <1>2, <1>3, <1>4, <1>5, <1>6, <1>7, <1>8, <1>9, <1>10, <1>11,
            <1>12 DEF Next, Serve, KeyInv

-----------------------------------------------------------------------------
(* A toggle left alone, and calm.                                            *)
TogglesInv == \A r \in Requests : ToggleInv(r)

(* An undisturbed toggle gets on; a disturbed one claims nothing.            *)
LEMMA TogglesStep == TypeOK /\ AloneInv /\ TogglesInv /\ [Next]_vars => TogglesInv'
<1>. SUFFICES ASSUME TypeOK, AloneInv, TogglesInv, [Next]_vars PROVE TogglesInv'
  OBVIOUS
<1>. USE IdleType
<1>1. ASSUME NEW r \in Requests, BeginToggle(r) \/ BeginConfig(r) \/ BeginSetup(r)
      PROVE  TogglesInv'
  <2>1. \A q \in Requests \ {r} : ~ req'[q].alone
    BY <1>1, Beginnings DEF Disturbed
  <2>2. \/ req'[r].page # "toggle"
        \/ /\ req'[r].at = "install"
           /\ req'[r].want = EnvDict(req'[r].cfg)
    BY <1>1, Beginnings
  <2>. QED BY <2>1, <2>2 DEF TogglesInv, ToggleInv
(* The steps of one request leave any other that is alone where it is: none. *)
<1>a. ASSUME NEW r \in Requests, req[r].at # "idle", NEW q \in Requests \ {r}
      PROVE  ~ req[q].alone
  BY <1>a DEF AloneInv, Busy
<1>2. ASSUME NEW r \in Requests, Open(r) PROVE TogglesInv'
  <2>1. \A q \in Requests \ {r} : ~ req'[q].alone
    BY <1>2, <1>a DEF Open, Step, TypeOK
  <2>2. /\ req'[r].page = req[r].page /\ req'[r].alone = req[r].alone
        /\ req'[r].want = req[r].want /\ req'[r].cfg = req[r].cfg
        /\ req[r].at = "open" /\ req'[r].at = "write"
    BY <1>2 DEF Open, Step, TypeOK, Request
  <2>3. hasFile' = TRUE /\ appCfg' = appCfg
    BY <1>2 DEF Open, procVars
  <2>. QED BY <2>1, <2>2, <2>3 DEF TogglesInv, ToggleInv
<1>3. ASSUME NEW r \in Requests, Write(r) PROVE TogglesInv'
  <2>1. \A q \in Requests \ {r} : ~ req'[q].alone
    BY <1>3, <1>a DEF Write, TypeOK
  <2>2. /\ req'[r].page = req[r].page /\ req'[r].alone = req[r].alone
        /\ req'[r].cfg = req[r].cfg
        /\ req[r].at = "write"
        /\ req[r].page = "toggle" => req'[r].at = "show"
        /\ file' = req[r].want /\ hasFile' = hasFile /\ appCfg' = appCfg
    BY <1>3 DEF Write, TypeOK, Request, procVars
  <2>3. req[r].cfg \in Config
    BY DEF TypeOK, Request
  <2>. QED BY <2>1, <2>2, <2>3, EnvDictType DEF TogglesInv, ToggleInv
<1>4. ASSUME NEW r \in Requests, SaveFails(r) PROVE TogglesInv'
  <2>1. \A q \in Requests : ~ req'[q].alone
    BY <1>4, <1>a DEF SaveFails, Finish, Idle, TypeOK, Request
  <2>. QED BY <2>1 DEF TogglesInv, ToggleInv
<1>5. ASSUME NEW r \in Requests, Reload(r) PROVE TogglesInv'
  <2>1. \A q \in Requests \ {r} : ~ req'[q].alone
    BY <1>5, <1>a DEF Reload, TypeOK
  <2>2. /\ req'[r].page = req[r].page /\ req'[r].alone = req[r].alone
        /\ req[r].at = "reload"
    BY <1>5 DEF Reload, TypeOK, Request
  <2>. QED BY <2>1, <2>2 DEF TogglesInv, ToggleInv
<1>6. ASSUME NEW r \in Requests, Install(r) PROVE TogglesInv'
  <2>1. \A q \in Requests \ {r} : ~ req'[q].alone
    BY <1>6, <1>a DEF Install, Step, Finish, TypeOK
  <2>2. CASE req[r].page = "toggle"
    <3>1. /\ req'[r].page = req[r].page /\ req'[r].alone = req[r].alone
          /\ req'[r].want = req[r].want /\ req'[r].cfg = req[r].cfg
          /\ req[r].at = "install" /\ req'[r].at = "open" /\ appCfg' = req[r].cfg
      BY <1>6, <2>2 DEF Install, Step, TypeOK, Request
    <3>. QED BY <2>1, <3>1 DEF TogglesInv, ToggleInv
  <2>3. CASE req[r].page # "toggle"
    <3>1. req'[r].page # "toggle"
      BY <1>6, <2>3 DEF Install, Step, Finish, Idle, TypeOK, Request
    <3>. QED BY <2>1, <3>1 DEF TogglesInv, ToggleInv
  <2>. QED BY <2>2, <2>3
<1>7. ASSUME NEW r \in Requests, Show(r) PROVE TogglesInv'
  <2>1. \A q \in Requests : ~ req'[q].alone
    BY <1>7, <1>a DEF Show, Finish, Idle, TypeOK
  <2>. QED BY <2>1 DEF TogglesInv, ToggleInv
<1>8. CASE StartService
  <2>1. req' = req /\ \A q \in Requests : ~ req[q].alone
    BY <1>8 DEF StartService, AloneInv
  <2>. QED BY <2>1 DEF TogglesInv, ToggleInv
<1>9. CASE Announce
  BY <1>9 DEF Announce, histVars, TogglesInv, ToggleInv
<1>10. CASE End
  BY <1>10 DEF End, Idle, TogglesInv, ToggleInv
<1>11. CASE EditByHand
  <2>1. \A q \in Requests : ~ req'[q].alone
    BY <1>11 DEF EditByHand, TypeOK, Request
  <2>. QED BY <2>1 DEF TogglesInv, ToggleInv
<1>12. CASE UNCHANGED vars
  BY <1>12 DEF vars, procVars, TogglesInv, ToggleInv
<1>. QED BY <1>1, <1>2, <1>3, <1>4, <1>5, <1>6, <1>7, <1>8, <1>9, <1>10, <1>11,
            <1>12 DEF Next, Serve

(* Calm lasts until the next request, and a toggle brings it back.           *)
LEMMA CalmStep == TypeOK /\ AloneInv /\ TogglesInv /\ CalmInv /\ [Next]_vars => CalmInv'
<1>. SUFFICES ASSUME TypeOK, AloneInv, TogglesInv, CalmInv, [Next]_vars PROVE CalmInv'
  OBVIOUS
(* While calm no request is served, so none of their steps but a toggle's    *)
(* last can be taken or leave the calm unbroken.                             *)
<1>a. ASSUME NEW r \in Requests, req[r].at # "idle" PROVE ~ calm
  BY <1>a DEF AloneInv, Busy
<1>1. ASSUME NEW r \in Requests, BeginToggle(r) \/ BeginConfig(r) \/ BeginSetup(r)
      PROVE  CalmInv'
  BY <1>1, Beginnings DEF CalmInv
<1>2. ASSUME NEW r \in Requests, Open(r) \/ Write(r) \/ SaveFails(r) \/ Reload(r) \/ Install(r)
      PROVE  CalmInv'
  <2>1. req[r].at # "idle" /\ calm' = calm
    BY <1>2 DEF Open, Write, SaveFails, Reload, Install, histVars
  <2>. QED BY <2>1, <1>a DEF CalmInv
<1>3. ASSUME NEW r \in Requests, Show(r) PROVE CalmInv'
  <2>1. /\ req[r].at = "show" /\ shown' = Mode(req[r].cfg)
        /\ calm' = (req[r].page = "toggle" /\ req[r].alone)
        /\ UNCHANGED <<proc, appCfg, loopCfg, hasFile, file>>
    BY <1>3 DEF Show
  <2>2. CASE req[r].page = "toggle" /\ req[r].alone
    <3>1. appCfg = req[r].cfg /\ hasFile /\ FromEnv(file) = req[r].cfg /\ proc = "up"
      BY <2>1, <2>2 DEF TogglesInv, ToggleInv, AloneInv
    <3>. QED BY <2>1, <3>1 DEF CalmInv, BootFile
  <2>3. CASE ~ (req[r].page = "toggle" /\ req[r].alone)
    BY <2>1, <2>3 DEF CalmInv
  <2>. QED BY <2>2, <2>3
<1>4. CASE StartService
  <2>1. /\ proc' = "starting" /\ loopCfg' = FromEnv(BootFile) /\ appCfg' = loopCfg'
        /\ UNCHANGED <<hasFile, file>>
    BY <1>4, BootFileType, OverlayNothing DEF StartService
  <2>. QED BY <2>1 DEF CalmInv, BootFile
<1>5. CASE Announce
  BY <1>5 DEF Announce, CalmInv, BootFile, histVars
<1>6. CASE End
  BY <1>6 DEF End, CalmInv
<1>7. CASE EditByHand
  BY <1>7 DEF EditByHand, CalmInv
<1>8. CASE UNCHANGED vars
  BY <1>8 DEF vars, procVars, histVars, CalmInv, BootFile
<1>. QED BY <1>1, <1>2, <1>3, <1>4, <1>5, <1>6, <1>7, <1>8 DEF Next, Serve

-----------------------------------------------------------------------------
(* The theorems.                                                             *)
Inv == TypeOK /\ AskedInv /\ AloneInv /\ KeyInv /\ TogglesInv /\ CalmInv

(* The initial states satisfy the invariant.                                 *)
LEMMA InvInit == Init => Inv
<1>. SUFFICES ASSUME Init PROVE Inv
  OBVIOUS
<1>. USE IdleType
<1>1. TypeOK
  <2>1. file \in Env /\ hasFile \in BOOLEAN
    BY DEF Init
  <2>. QED BY <2>1 DEF Init, TypeOK
<1>2. AskedInv
  <2>1. \A r \in Requests : AskedFor(req[r].want)
    BY SettingsAssumption DEF Init, Idle, AskedFor, Nothing
  <2>2. AskedFor(file) /\ AskedFor(BridgeEnv)
    BY DEF Init, AskedFor
  <2>. QED BY <2>1, <2>2 DEF Init, AskedInv, LiveOnlyIfAsked
<1>3. AloneInv /\ KeyInv /\ TogglesInv /\ CalmInv
  BY DEF Init, Idle, AloneInv, Busy, KeyInv, TogglesInv, ToggleInv, CalmInv
<1>. QED BY <1>1, <1>2, <1>3 DEF Inv

(* Inv holds in every state of every run of the settings.                    *)
THEOREM Invariance == Spec => []Inv
<1>1. Inv /\ [Next]_vars => Inv'
  BY TypeStep, AskedStep, AloneStep, KeyStep, TogglesStep, CalmStep DEF Inv
<1>. QED BY InvInit, <1>1, PTL DEF Spec

(* Every variable of the settings keeps its type.                            *)
THEOREM SettingsTypeCorrect == Spec => []TypeOK
BY Invariance, PTL DEF Inv

(* However saves of webui.py are cut off, fail or overlap, and wherever the  *)
(* process dies, run_service delivers live only with a key asked for.        *)
THEOREM LiveIsAsked == Spec => []LiveOnlyIfAsked
<1>1. Inv => LiveOnlyIfAsked
  BY DEF Inv, AskedInv
<1>. QED BY <1>1, Invariance, PTL

(* While run_service delivers live, the web UI's Config has its key.         *)
THEOREM LiveKeysShared == Spec => []LiveKeyIsShared
<1>1. Inv => LiveKeyIsShared
  BY DEF Inv, KeyInv, LiveKeyIsShared
<1>. QED BY <1>1, Invariance, PTL

(* After a start, and after a toggle of webui.py that met no other request,  *)
(* the file, the web UI's Config and the mode it shows agree.                *)
THEOREM CalmAgreement == Spec => []CalmAgrees
<1>1. Inv => CalmAgrees
  BY DEF Inv, CalmInv, CalmAgrees
<1>. QED BY <1>1, Invariance, PTL
=============================================================================
