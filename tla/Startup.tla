------------------------------ MODULE Startup ------------------------------
(* What decides whether the service comes up: the configuration file, the    *)
(* checks of main.py that pass judgement on it, and the web UI pages that    *)
(* write it without one.  Settings has the races of those pages; here each   *)
(* is one step, and the settings are those a start may fail on.              *)
(*                                                                           *)
(* num stands for a setting validate_config looks at, such as                *)
(* POLL_INTERVAL_SECONDS: "fine", "refused", or "junk" if it must be a       *)
(* number and is none to int(), like 20.0 or 1e3.  key is PAGERMON_API_KEY:  *)
(* "real", or "none" for an empty one and the example file's replace_me.     *)
CONSTANTS
    NoFile, Unset,
    Given       \* contents of the file --env-file names, which the pages do not
                \* write, or NoFile without that option

VARIABLES
    file,       \* .env
    env,        \* os.environ of the service
    app,        \* app.config["cfg"]
    proc,       \* the service: "down", "up"
    refused,    \* history: has a start been refused with the present file?
    said,       \* history: has --check passed the present file, or a toggle
                \* to dry run or back to live written it?
    sound       \* history: did the service start live, and have its settings
                \* only been toggled since?

vars == <<file, env, app, proc, refused, said, sound>>

Env    == [num : {Unset, "fine", "refused", "junk"}, key : {Unset, "none", "real"},
           dry : {Unset, "true", "false"}]
Config == [num : {"fine", "refused"}, key : {"none", "real"}, dry : BOOLEAN]

ASSUME StartupAssumption ==
    /\ NoFile \notin Env
    /\ Given \in Env \cup {NoFile}
    /\ Unset \notin {"fine", "refused", "junk", "none", "real", "true", "false"}

Nothing  == [num |-> Unset, key |-> Unset, dry |-> Unset]
NoConfig == [num |-> "fine", key |-> "none", dry |-> TRUE]

-----------------------------------------------------------------------------
(* config.py.                                                                *)
Overlay(old, new) ==
    [k \in DOMAIN old |-> IF old[k] = Unset THEN new[k] ELSE old[k]]

(* A first load: the given file, or else .env, in an empty environment.      *)
BootFile(f) == IF Given = NoFile THEN f ELSE Given

Loaded(f) == IF BootFile(f) = NoFile THEN Nothing ELSE BootFile(f)

(* _env_int ends the process, or the thread of the request.                  *)
Exits(e) == e.num = "junk"

FromEnvBare(e) ==                       \* mutant: no default for the number
    [num |-> e.num, key |-> IF e.key = Unset THEN "none" ELSE e.key,
     dry |-> e.dry = "true"]

FromEnv(e) ==
    [num |-> IF e.num = Unset THEN "fine" ELSE e.num,
     key |-> IF e.key = Unset THEN "none" ELSE e.key,
     dry |-> e.dry = "true"]

(* validate_config finds nothing to say.                                     *)
Valid(c) == c.num = "fine" /\ (c.dry \/ c.key = "real")

EnvDictCapital(c) ==                    \* mutant: a switch read back as unset
    [num |-> c.num, key |-> c.key, dry |-> IF c.dry THEN Unset ELSE "false"]

EnvDictKeyless(c) ==                    \* mutant: the secret is not written back
    [num |-> c.num, key |-> Unset, dry |-> IF c.dry THEN "true" ELSE "false"]

EnvDict(c) == [num |-> c.num, key |-> c.key, dry |-> IF c.dry THEN "true" ELSE "false"]

(* --dry-run.                                                                *)
With(c, dryRun) == [c EXCEPT !.dry = @ \/ dryRun]

-----------------------------------------------------------------------------
(* run_service, up to the web UI: a dry run is not validated.                *)
Starts(f, dryRun) ==
    /\ ~ Exits(Loaded(f))
    /\ LET c == With(FromEnv(Loaded(f)), dryRun) IN c.dry \/ Valid(c)

StartService ==
    /\ proc = "down"
    /\ IF Starts(file, FALSE)
       THEN /\ proc' = "up"
            /\ env' = Loaded(file)
            /\ app' = FromEnv(Loaded(file))
            /\ sound' = ~ app'.dry
            /\ UNCHANGED refused
       ELSE refused' = TRUE /\ UNCHANGED <<proc, env, app, sound>>
    /\ UNCHANGED <<file, said>>

(* --check passes: what is loaded is valid, the database opens and the       *)
(* source can be fetched.  PagerMon out of reach is only a warning.          *)
CheckPassesUnvalidated(dryRun) ==   \* mutant: errors are logged, not returned
    ~ Exits(Loaded(file))

CheckPasses(dryRun) ==
    /\ ~ Exits(Loaded(file))
    /\ Valid(With(FromEnv(Loaded(file)), dryRun))

RunCheck(dryRun) ==
    /\ \E database, source \in BOOLEAN :
          said' = IF CheckPasses(dryRun) /\ database /\ source /\ ~ dryRun
                  THEN said \cup {"checked"} ELSE said
    /\ UNCHANGED <<file, env, app, proc, refused, sound>>

(* The process ends, for any reason.                                         *)
End ==
    /\ proc = "up"
    /\ proc' = "down"
    /\ env' = Nothing /\ app' = NoConfig
    /\ sound' = FALSE
    /\ UNCHANGED <<file, refused, said>>

-----------------------------------------------------------------------------
(* The file changes: what was said of the old one is void.                   *)
NewFile(new, word) ==
    /\ file' = new
    /\ said' = word
    /\ refused' = FALSE

(* save_config fails: before it has emptied the file, or after.              *)
SaveFails ==
    \/ UNCHANGED <<file, said, refused>>
    \/ NewFile(Nothing, {})

(* POST /setup, for a form with a key, and POST /config, once there is a     *)
(* file, whose checkboxes are never left out: saved as it is, and loaded     *)
(* into an environment that keeps what it has.  A number that is none ends   *)
(* the request there, without an answer; a failed save, before.              *)
Save(form) ==
    /\ proc = "up"
    /\ form.key # Unset \/ (file # NoFile /\ form.dry # Unset)
    /\ \/ SaveFails /\ UNCHANGED <<env, app, sound>>
       \/ /\ NewFile(form, {})
          /\ env' = Overlay(env, form)
          /\ IF Exits(env')
             THEN UNCHANGED <<app, sound>>
             ELSE app' = FromEnv(env') /\ sound' = FALSE
    /\ UNCHANGED proc

(* POST /api/dry-run/toggle; a failed save is only logged.                   *)
Toggle ==
    /\ proc = "up"
    /\ app' = [app EXCEPT !.dry = ~ @]
    /\ \/ NewFile(EnvDict(app'), IF app'.dry THEN {"dry"}
                                 ELSE IF sound THEN {"live"} ELSE {})
       \/ SaveFails
    /\ UNCHANGED <<env, proc, sound>>

EditByHand == \E new \in Env : NewFile(new, {}) /\ UNCHANGED <<env, app, proc, sound>>

Init ==
    /\ file = NoFile
    /\ env = Nothing /\ app = NoConfig
    /\ proc = "down"
    /\ refused = FALSE /\ said = {} /\ sound = FALSE

Next ==
    \/ StartService \/ End \/ Toggle \/ EditByHand
    \/ \E dryRun \in BOOLEAN : RunCheck(dryRun)
    \/ \E form \in Env : Save(form)

Spec == Init /\ [][Next]_vars

-----------------------------------------------------------------------------
(* Properties.                                                               *)

TypeOK ==
    /\ file \in Env \cup {NoFile}
    /\ env \in Env
    /\ app \in Config
    /\ proc \in {"down", "up"}
    /\ refused \in BOOLEAN
    /\ said \subseteq {"checked", "dry", "live"}
    /\ sound \in BOOLEAN

(* A file that has passed --check is never refused at a start, whatever the  *)
(* web UI and the environment of a running service held meanwhile.           *)
CheckedConfigStarts == "checked" \in said => ~ refused

(* The way back to safety is always open: once the web UI has switched a     *)
(* bridge to dry run, the next start is not refused, whatever had been saved *)
(* and loaded before.                                                        *)
DryRunStarts == "dry" \in said => ~ refused

(* And back again: a bridge that has started live can be switched to dry run *)
(* and to live as often as one likes, over whatever has been written to the  *)
(* file by hand, and starts again, although no toggle validates anything.    *)
ToggledConfigStarts == "live" \in said => ~ refused
=============================================================================
