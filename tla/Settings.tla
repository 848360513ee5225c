------------------------------ MODULE Settings ------------------------------
(* config.py and the part of webui.py that changes settings: the .env file,  *)
(* the process environment it is loaded into, the Config the service loop    *)
(* was started with, the Config the web UI holds, and the requests that      *)
(* change them, each in a thread of its own.                                 *)
(*                                                                           *)
(* Of the settings two are kept: DRY_RUN, and PAGERMON_API_KEY for all those *)
(* a toggle of DRY_RUN carries along.  A set key is one of Keys or NoKey,    *)
(* which stands for "" and the example file's "replace_me".                  *)
EXTENDS Integers, FiniteSets

CONSTANTS
    Keys,       \* PagerMon API keys
    NoKey,      \* a value no live bridge may start with
    Unset,      \* no such variable
    Requests,   \* the web UI's threads
    BridgeEnv,  \* contents of bridge.env, read when there is no .env
    HandEdits   \* does the operator also edit .env by hand?

VARIABLES
    proc,       \* "down", "starting" (web UI up, loop not), "up"
    hasFile,    \* does .env exist?
    file,       \* what it says
    environ,    \* os.environ
    loopCfg,    \* the Config of run_service
    appCfg,     \* app.config["cfg"]
    shown,      \* _shared_state["service_state"]
    req,        \* the request each thread is serving
    chosen,     \* history: keys a live run has been asked for with
    calm        \* history: the last change ran to its end, alone, and was a
                \* startup or a toggle

procVars == <<proc, environ, loopCfg, appCfg, shown>>
histVars == <<chosen, calm>>
vars     == <<procVars, hasFile, file, req, histVars>>

Switch == {"true", "false"}
Env    == [dry_run : Switch \cup {Unset}, api_key : Keys \cup {NoKey, Unset}]
Config == [dry_run : BOOLEAN, api_key : Keys \cup {NoKey}]

ASSUME SettingsAssumption ==
    /\ NoKey \notin Keys /\ Unset \notin Keys \cup {NoKey}
    /\ BridgeEnv \in Env
    /\ HandEdits \in BOOLEAN

Nothing == [dry_run |-> Unset, api_key |-> Unset]
NoConfig == [dry_run |-> TRUE, api_key |-> NoKey]

-----------------------------------------------------------------------------
(* config.py.                                                                *)

(* load_dotenv(override=False): what is set already stays.                   *)
OverlayOverriding(env, new) ==      \* mutant: override=True
    [k \in DOMAIN env |-> IF new[k] = Unset THEN env[k] ELSE new[k]]

Overlay(env, new) ==
    [k \in DOMAIN env |-> IF env[k] = Unset THEN new[k] ELSE env[k]]

(* load_config, once the environment is loaded.                              *)
FromEnv(env) ==
    [dry_run |-> env.dry_run = "true",
     api_key |-> IF env.api_key = Unset THEN NoKey ELSE env.api_key]

(* The file a start finds: .env, though it be empty, before bridge.env.      *)
BootFile == IF hasFile THEN file ELSE BridgeEnv

(* validate_config, which run_service asks only of a live configuration.     *)
AcceptedWithoutKey(c) == TRUE       \* mutant: the key is not checked

Accepted(c) == c.dry_run \/ c.api_key \in Keys

(* config_to_env_dict.                                                       *)
EnvDictOfSwitch(c) ==               \* mutant: only the changed field
    [dry_run |-> IF c.dry_run THEN "true" ELSE "false", api_key |-> Unset]

EnvDict(c) ==
    [dry_run |-> IF c.dry_run THEN "true" ELSE "false", api_key |-> c.api_key]

Mode(c) == IF c.dry_run THEN "dry_run" ELSE "running"

-----------------------------------------------------------------------------
(* Requests.  A thread's request is the page it serves, the next step of its *)
(* handler, the variables it saves, the Config it installs, and whether it   *)
(* has been undisturbed so far.                                              *)
Steps == {"idle", "install", "open", "write", "reload", "show"}

Request == [page : {"none", "toggle", "config", "setup"}, at : Steps,
            want : Env, cfg : Config, alone : BOOLEAN]

Idle == [page |-> "none", at |-> "idle", want |-> Nothing, cfg |-> NoConfig,
         alone |-> FALSE]

Busy == {r \in Requests : req[r].at # "idle"}

(* A request begins: it is alone if it meets no other and no startup, and no *)
(* request it meets is alone any more.                                       *)
Begin(r, new) ==
    /\ proc # "down"
    /\ req[r].at = "idle"
    /\ req' = [q \in Requests |->
          IF q = r THEN [new EXCEPT !.alone = Busy = {} /\ proc = "up"]
                   ELSE [req[q] EXCEPT !.alone = FALSE]]
    /\ calm' = FALSE

Step(r, at) == req' = [req EXCEPT ![r].at = at]
Finish(r)   == req' = [req EXCEPT ![r] = Idle]

(* A live setting is one somebody has asked for once it is to be written.    *)
Asked(env) ==
    chosen \cup (IF FromEnv(env).dry_run THEN {} ELSE {env.api_key} \cap Keys)

(* POST /api/dry-run/toggle reads the Config and makes its own.              *)
BeginToggle(r) ==
    LET new == [appCfg EXCEPT !.dry_run = ~ @]
    IN  /\ Begin(r, [Idle EXCEPT !.page = "toggle", !.at = "install",
                                 !.cfg = new, !.want = EnvDict(new)])
        /\ chosen' = Asked(EnvDict(new))
        /\ UNCHANGED <<procVars, hasFile, file>>

(* POST /config, with whatever the form holds: an unchecked box is "false",  *)
(* an empty field is left out.                                               *)
BeginConfig(r) ==
    \E env \in [dry_run : Switch, api_key : Keys \cup {NoKey, Unset}] :
        /\ hasFile
        /\ Begin(r, [Idle EXCEPT !.page = "config", !.at = "open", !.want = env])
        /\ chosen' = Asked(env)
        /\ UNCHANGED <<procVars, hasFile, file>>

(* POST /setup: a key is required, an unchecked box is left out.             *)
BeginSetup(r) ==
    \E env \in [dry_run : {"true", Unset}, api_key : Keys \cup {NoKey}] :
        /\ Begin(r, [Idle EXCEPT !.page = "setup", !.at = "open", !.want = env])
        /\ chosen' = Asked(env)
        /\ UNCHANGED <<procVars, hasFile, file>>

(* save_config: write_text opens the file, which empties it, and writes the  *)
(* lines when it is closed.  Either may fail; a toggle then goes on, the     *)
(* other pages end with a message.                                           *)
Open(r) ==
    /\ req[r].at = "open"
    /\ hasFile' = TRUE
    /\ file' = Nothing
    /\ Step(r, "write")
    /\ UNCHANGED <<procVars, histVars>>

Write(r) ==
    /\ req[r].at = "write"
    /\ file' = req[r].want
    /\ req' = [req EXCEPT ![r].at = IF req[r].page = "toggle" THEN "show" ELSE "reload",
                          ![r].want = Nothing]
    /\ UNCHANGED <<procVars, hasFile, histVars>>

SaveFails(r) ==
    /\ req[r].at \in {"open", "write"}
    /\ IF req[r].page = "toggle"
       THEN req' = [req EXCEPT ![r].at = "show", ![r].want = Nothing,
                               ![r].alone = FALSE]
       ELSE Finish(r)
    /\ UNCHANGED <<procVars, hasFile, file, histVars>>

(* load_config of the saved file, into an environment already loaded.        *)
Reload(r) ==
    /\ req[r].at = "reload"
    /\ environ' = Overlay(environ, file)
    /\ req' = [req EXCEPT ![r].at = "install", ![r].cfg = FromEnv(environ')]
    /\ UNCHANGED <<proc, loopCfg, appCfg, shown, hasFile, file, histVars>>

(* app.config["cfg"] = new_cfg, where /config ends.                          *)
Install(r) ==
    /\ req[r].at = "install"
    /\ appCfg' = req[r].cfg
    /\ \/ req[r].page = "toggle" /\ Step(r, "open")
       \/ req[r].page = "setup"  /\ Step(r, "show")
       \/ req[r].page = "config" /\ Finish(r)
    /\ UNCHANGED <<proc, environ, loopCfg, shown, hasFile, file, histVars>>

(* update_shared_state(service_state=...), where /setup and the toggle end.  *)
Show(r) ==
    /\ req[r].at = "show"
    /\ shown' = Mode(req[r].cfg)
    /\ calm' = (req[r].page = "toggle" /\ req[r].alone)
    /\ Finish(r)
    /\ UNCHANGED <<proc, environ, loopCfg, appCfg, hasFile, file, chosen>>

-----------------------------------------------------------------------------
(* The process.                                                              *)

(* main and run_service up to start_webui; a refused configuration ends the  *)
(* process with nothing done.                                                *)
StartService ==
    LET env == Overlay(Nothing, BootFile)
        c   == FromEnv(env)
    IN  /\ proc = "down"
        /\ Accepted(c)
        /\ proc' = "starting"
        /\ environ' = env
        /\ loopCfg' = c /\ appCfg' = c
        /\ calm' = TRUE
        /\ UNCHANGED <<shown, hasFile, file, req, chosen>>

(* ... and its update_shared_state, with the web UI already serving.         *)
Announce ==
    /\ proc = "starting"
    /\ proc' = "up"
    /\ shown' = Mode(loopCfg)
    /\ UNCHANGED <<environ, loopCfg, appCfg, hasFile, file, req, histVars>>

(* The process ends, by a signal or a crash, and every thread with it.       *)
End ==
    /\ proc # "down"
    /\ proc' = "down"
    /\ environ' = Nothing
    /\ loopCfg' = NoConfig /\ appCfg' = NoConfig
    /\ shown' = "stopped"
    /\ req' = [r \in Requests |-> Idle]
    /\ UNCHANGED <<hasFile, file, histVars>>

(* The operator edits .env.                                                  *)
EditByHand ==
    HandEdits /\ \E env \in Env :
        /\ hasFile' = TRUE
        /\ file' = env
        /\ chosen' = Asked(env)
        /\ calm' = FALSE
        /\ req' = [r \in Requests |-> [req[r] EXCEPT !.alone = FALSE]]
        /\ UNCHANGED procVars

Init ==
    /\ proc = "down"
    /\ hasFile \in BOOLEAN
    /\ file \in IF hasFile THEN Env ELSE {Nothing}
    /\ environ = Nothing
    /\ loopCfg = NoConfig /\ appCfg = NoConfig
    /\ shown = "stopped"
    /\ req = [r \in Requests |-> Idle]
    /\ chosen = Keys \cap {env.api_key : env \in {e \in {file, BridgeEnv} :
                                                ~ FromEnv(e).dry_run}}
    /\ calm = FALSE

Serve(r) ==
    \/ BeginToggle(r) \/ BeginConfig(r) \/ BeginSetup(r)
    \/ Open(r) \/ Write(r) \/ SaveFails(r) \/ Reload(r) \/ Install(r) \/ Show(r)

Next ==
    \/ \E r \in Requests : Serve(r)
    \/ StartService \/ Announce \/ End \/ EditByHand

Spec == Init /\ [][Next]_vars

-----------------------------------------------------------------------------
(* Properties.                                                               *)

TypeOK ==
    /\ proc \in {"down", "starting", "up"}
    /\ hasFile \in BOOLEAN
    /\ file \in Env
    /\ environ \in Env
    /\ loopCfg \in Config /\ appCfg \in Config
    /\ shown \in {"stopped", "running", "dry_run"}
    /\ req \in [Requests -> Request]
    /\ chosen \subseteq Keys
    /\ calm \in BOOLEAN

(* However saves are cut off, fail or overlap, and wherever the process      *)
(* dies: a bridge goes live only with a key somebody asked it to use live.   *)
LiveOnlyIfAsked ==
    proc # "down" /\ ~ loopCfg.dry_run => loopCfg.api_key \in chosen

(* After a startup, and after a toggle that met no other request, the web    *)
(* UI's Config, the mode it shows and what the next start would load agree.  *)
CalmAgrees ==
    proc = "up" /\ calm /\ Busy = {} =>
        FromEnv(BootFile) = appCfg /\ shown = Mode(appCfg)

(* While the loop delivers live, the web UI checks and tests with the key    *)
(* the loop delivers with, whatever has been saved meanwhile.                *)
LiveKeyIsShared ==
    proc # "down" /\ ~ loopCfg.dry_run => appCfg.api_key = loopCfg.api_key

(* webui.py:437 of the program: the mode a toggle reports is the mode the    *)
(* bridge is in.                                                             *)
ShownModeIsRun ==
    proc = "up" /\ calm /\ Busy = {} => shown = Mode(loopCfg)

(* webui.py:255 of the program: a saved setting waits for the next start.  A *)
(* toggle that meets no other request must not write another in its place.   *)
SavedKeyIsKept ==
    \A r \in Requests :
        /\ req[r].page = "toggle" /\ req[r].at = "install" /\ req[r].alone
        /\ hasFile /\ file.api_key \in Keys
        => req[r].want.api_key = file.api_key
=============================================================================
