---------------------------- MODULE StartupProofs ----------------------------
(* What holds of Startup for every sequence of runs, saves, toggles and hand *)
(* edits.                                                                    *)
EXTENDS Startup, TLAPS

(* Whatever was said of the present file makes it one that starts, and a     *)
(* refusal is the judgement of Starts alone: nothing a running service holds *)
(* in its environment has a say.  A service that is given a file started     *)
(* from it, so that file starts again.                                       *)
WordInv ==
    /\ refused => ~ Starts(file, FALSE)
    /\ said # {} => Starts(file, FALSE)
    /\ Given # NoFile /\ proc = "up" => Starts(file, FALSE)

(* A sound configuration would be valid in a live run.                       *)
SoundInv == sound => app.num = "fine" /\ app.key = "real"

Inv == TypeOK /\ WordInv /\ SoundInv

-----------------------------------------------------------------------------
LEMMA UnsetIsNoValue ==
    ASSUME NEW f \in Env \cup {NoFile}
    PROVE  Loaded(f) \in Env
<1>1. BootFile(f) \in Env \cup {NoFile} /\ Nothing \in Env
  BY StartupAssumption DEF BootFile, Nothing, Env
<1>. QED BY <1>1 DEF Loaded

(* Whatever does not end the process becomes a configuration.                *)
LEMMA ConfigIsRead ==
    ASSUME NEW e \in Env, ~ Exits(e)
    PROVE  FromEnv(e) \in Config
BY DEF Env, Config, FromEnv, Exits

LEMMA OverlayIsEnv ==
    ASSUME NEW old \in Env, NEW new \in Env
    PROVE  Overlay(old, new) \in Env
<1>1. DOMAIN old = {"num", "key", "dry"}
  BY DEF Env
<1>2. Overlay(old, new) = [k \in {"num", "key", "dry"} |->
                              IF old[k] = Unset THEN new[k] ELSE old[k]]
  BY <1>1 DEF Overlay
<1> DEFINE o == Overlay(old, new)
<1>3. /\ o.num = IF old.num = Unset THEN new.num ELSE old.num
      /\ o.key = IF old.key = Unset THEN new.key ELSE old.key
      /\ o.dry = IF old.dry = Unset THEN new.dry ELSE old.dry
  BY <1>2
<1>4. o = [num |-> o.num, key |-> o.key, dry |-> o.dry]
  BY <1>2
<1> QED
  BY <1>3, <1>4 DEF Env

(* Without --dry-run the configuration is run as it was loaded.             *)
LEMMA DryStays ==
    ASSUME NEW c \in Config
    PROVE  With(c, FALSE) = c
BY DEF Config, With

(* A configuration that --check accepts is one a start accepts.              *)
LEMMA CheckIsStart ==
    ASSUME TypeOK, CheckPasses(FALSE)
    PROVE  Starts(file, FALSE)
<1>1. FromEnv(Loaded(file)) \in Config
  BY UnsetIsNoValue, ConfigIsRead DEF TypeOK, CheckPasses
<1>2. With(FromEnv(Loaded(file)), FALSE) = FromEnv(Loaded(file))
  BY <1>1, DryStays
<1> QED
  BY <1>2 DEF CheckPasses, Starts

(* The file that is given decides alone.                                     *)
LEMMA GivenDecides ==
    ASSUME Given # NoFile, NEW f, NEW g
    PROVE  Starts(f, FALSE) = Starts(g, FALSE)
BY DEF Starts, Loaded, BootFile

(* What a toggle writes is never refused, if it is to dry run or of a sound  *)
(* configuration.                                                            *)
LEMMA ToggledIsStart ==
    ASSUME NEW c \in Config, c.dry \/ (c.num = "fine" /\ c.key = "real"),
           Given = NoFile
    PROVE  Starts(EnvDict(c), FALSE)
<1> DEFINE e == EnvDict(c)
<1>1. e = [num |-> c.num, key |-> c.key, dry |-> IF c.dry THEN "true" ELSE "false"]
  BY DEF EnvDict
<1>2. e \in Env /\ e # NoFile
  BY <1>1, StartupAssumption DEF Config, Env
<1>3. Loaded(e) = e
  BY <1>2 DEF Loaded, BootFile
<1>4. ~ Exits(e)
  BY <1>1 DEF Exits, Config
<1>5. FromEnv(e) \in Config
  BY <1>2, <1>4, ConfigIsRead
<1>6. FromEnv(e).dry \/ Valid(FromEnv(e))
  <2>1. FromEnv(e).dry = (e.dry = "true")
    BY Zenon DEF FromEnv
  <2>2. CASE c.dry
    <3>1. e.dry = "true"
      BY <1>1, <2>2
    <3>. QED BY <2>1, <3>1
  <2>3. CASE c.num = "fine" /\ c.key = "real"
    <3>1. e.num = "fine" /\ e.key = "real"
      BY <1>1, <2>3
    <3>2. FromEnv(e).num = "fine" /\ FromEnv(e).key = "real"
      BY <3>1, StartupAssumption DEF FromEnv
    <3>. QED BY <3>2 DEF Valid
  <2>. QED BY <2>2, <2>3
<1>7. With(FromEnv(e), FALSE) = FromEnv(e)
  BY <1>5, DryStays
<1>. QED
  BY <1>3, <1>4, <1>6, <1>7 DEF Starts

-----------------------------------------------------------------------------
(* What every change of the file comes down to.                              *)
FileTypeOK ==
    /\ file \in Env \cup {NoFile} /\ refused \in BOOLEAN
    /\ said \subseteq {"checked", "dry", "live"}

LEMMA NewFileInv ==
    ASSUME Inv, UNCHANGED proc, NEW new \in Env, NEW word \in SUBSET {"dry", "live"},
           word # {} => Starts(new, FALSE), NewFile(new, word)
    PROVE  FileTypeOK' /\ WordInv'
<1>1. file' = new /\ said' = word /\ refused' = FALSE
  BY DEF NewFile
<1>2. Given # NoFile /\ proc' = "up" => Starts(file', FALSE)
  BY GivenDecides DEF Inv, WordInv
<1>. QED BY <1>1, <1>2 DEF WordInv, FileTypeOK

LEMMA SaveFailsInv ==
    ASSUME Inv, UNCHANGED proc, SaveFails
    PROVE  FileTypeOK' /\ WordInv'
<1>1. CASE UNCHANGED <<file, said, refused>>
  BY <1>1 DEF Inv, TypeOK, WordInv, FileTypeOK
<1>2. CASE NewFile(Nothing, {})
  <2>1. Nothing \in Env
    BY DEF Nothing, Env
  <2>. QED BY <1>2, <2>1, NewFileInv
<1>. QED BY <1>1, <1>2 DEF SaveFails

LEMMA StartServiceInv ==
    ASSUME Inv, StartService
    PROVE  Inv'
<1>1. CASE Starts(file, FALSE)
  <2>1. /\ proc' = "up" /\ env' = Loaded(file) /\ app' = FromEnv(Loaded(file))
        /\ sound' = ~ app'.dry
        /\ UNCHANGED <<refused, file, said>>
    BY <1>1 DEF StartService
  <2>2. env' \in Env /\ app' \in Config
    BY <1>1, <2>1, UnsetIsNoValue, ConfigIsRead DEF Starts, Inv, TypeOK
  <2>3. With(app', FALSE) = app'
    BY <2>2, DryStays
  <2>4. app'.dry \/ Valid(app')
    BY <1>1, <2>1, <2>3 DEF Starts
  <2>5. sound' \in BOOLEAN /\ SoundInv'
    BY <2>1, <2>2, <2>4 DEF SoundInv, Valid, Config
  <2>. QED BY <1>1, <2>1, <2>2, <2>5 DEF Inv, TypeOK, WordInv
<1>2. CASE ~ Starts(file, FALSE)
  <2>1. refused' = TRUE /\ UNCHANGED <<proc, env, app, file, said, sound>>
    BY <1>2 DEF StartService
  <2>. QED BY <1>2, <2>1 DEF Inv, TypeOK, WordInv, SoundInv
<1>. QED BY <1>1, <1>2

LEMMA RunCheckInv ==
    ASSUME Inv, NEW dryRun \in BOOLEAN, RunCheck(dryRun)
    PROVE  Inv'
<1>1. /\ UNCHANGED <<file, env, app, proc, refused, sound>>
      /\ \/ said' = said
         \/ said' = said \cup {"checked"} /\ ~ dryRun /\ CheckPasses(dryRun)
  BY DEF RunCheck
<1>2. said' = said \cup {"checked"} /\ ~ dryRun /\ CheckPasses(dryRun)
      => Starts(file, FALSE)
  <2>1. ~ dryRun => dryRun = FALSE
    OBVIOUS
  <2>. QED BY <2>1, CheckIsStart DEF Inv
<1>3. TypeOK'
  BY <1>1 DEF Inv, TypeOK
<1>4. WordInv' /\ SoundInv'
  BY <1>1, <1>2 DEF Inv, WordInv, SoundInv
<1>. QED BY <1>3, <1>4 DEF Inv

LEMMA EndInv ==
    ASSUME Inv, End
    PROVE  Inv'
<1>1. Nothing \in Env /\ NoConfig \in Config
  BY DEF Nothing, NoConfig, Env, Config
<1>. QED BY <1>1 DEF Inv, TypeOK, WordInv, SoundInv, End

LEMMA SaveInv ==
    ASSUME Inv, NEW form \in Env, Save(form)
    PROVE  Inv'
<1>1. UNCHANGED proc
  BY DEF Save
<1>2. CASE SaveFails /\ UNCHANGED <<env, app, sound>>
  BY <1>1, <1>2, SaveFailsInv DEF Inv, TypeOK, SoundInv, FileTypeOK
<1>3. CASE /\ NewFile(form, {})
           /\ env' = Overlay(env, form)
           /\ IF Exits(env') THEN UNCHANGED <<app, sound>>
                             ELSE app' = FromEnv(env') /\ sound' = FALSE
  <2>1. env' \in Env
    BY <1>3, OverlayIsEnv DEF Inv, TypeOK
  <2>2. app' \in Config /\ sound' \in BOOLEAN /\ SoundInv'
    BY <1>3, <2>1, ConfigIsRead DEF Inv, TypeOK, SoundInv
  <2>3. FileTypeOK' /\ WordInv'
    BY <1>1, <1>3, NewFileInv
  <2>. QED BY <1>1, <2>1, <2>2, <2>3 DEF Inv, TypeOK, FileTypeOK
<1>. QED BY <1>2, <1>3 DEF Save

LEMMA ToggleInv ==
    ASSUME Inv, Toggle
    PROVE  Inv'
<1>1. app' = [app EXCEPT !.dry = ~ @] /\ UNCHANGED <<env, proc, sound>> /\ proc = "up"
  BY DEF Toggle
<1>2. app' \in Config /\ app'.num = app.num /\ app'.key = app.key
  BY <1>1 DEF Inv, TypeOK, Config
<1>3. EnvDict(app') \in Env
  BY <1>2 DEF EnvDict, Config, Env
<1>4. TypeOK /\ SoundInv' /\ (sound => app'.num = "fine" /\ app'.key = "real")
  BY <1>1, <1>2 DEF Inv, SoundInv
<1>5. CASE NewFile(EnvDict(app'), IF app'.dry THEN {"dry"}
                                  ELSE IF sound THEN {"live"} ELSE {})
  <2>1. app'.dry \/ sound => Starts(EnvDict(app'), FALSE)
    <3>1. CASE Given = NoFile
      BY <1>2, <1>4, <3>1, ToggledIsStart
    <3>2. CASE Given # NoFile
      BY <1>1, <3>2, GivenDecides DEF Inv, WordInv
    <3>. QED BY <3>1, <3>2
  <2>2. FileTypeOK' /\ WordInv'
    <3>1. CASE app'.dry
      BY <1>1, <1>3, <1>5, <2>1, <3>1, NewFileInv
    <3>2. CASE ~ app'.dry /\ sound
      BY <1>1, <1>3, <1>5, <2>1, <3>2, NewFileInv
    <3>3. CASE ~ app'.dry /\ ~ sound
      BY <1>1, <1>3, <1>5, <3>3, NewFileInv
    <3>. QED BY <3>1, <3>2, <3>3
  <2>. QED BY <1>1, <1>2, <1>4, <2>2 DEF Inv, TypeOK, FileTypeOK
<1>6. CASE SaveFails
  <2>1. FileTypeOK' /\ WordInv'
    BY <1>1, <1>6, SaveFailsInv
  <2>. QED BY <1>1, <1>2, <1>4, <2>1 DEF Inv, TypeOK, FileTypeOK
<1>. QED BY <1>5, <1>6 DEF Toggle

LEMMA EditByHandInv ==
    ASSUME Inv, EditByHand
    PROVE  Inv'
<1>1. PICK new \in Env : NewFile(new, {}) /\ UNCHANGED <<env, app, proc, sound>>
  BY DEF EditByHand
<1>2. FileTypeOK' /\ WordInv'
  BY <1>1, NewFileInv
<1>. QED BY <1>1, <1>2 DEF Inv, TypeOK, SoundInv, FileTypeOK

THEOREM StartupInvariant == Spec => []Inv
<1>1. Init => Inv
  <2>1. Nothing \in Env /\ NoConfig \in Config
    BY DEF Nothing, NoConfig, Env, Config
  <2>. QED BY <2>1 DEF Init, Inv, TypeOK, WordInv, SoundInv
<1>2. Inv /\ [Next]_vars => Inv'
  <2> SUFFICES ASSUME Inv, [Next]_vars PROVE Inv'
    OBVIOUS
  <2>1. CASE StartService
    BY <2>1, StartServiceInv
  <2>2. CASE End
    BY <2>2, EndInv
  <2>3. CASE Toggle
    BY <2>3, ToggleInv
  <2>4. CASE EditByHand
    BY <2>4, EditByHandInv
  <2>5. CASE \E dryRun \in BOOLEAN : RunCheck(dryRun)
    BY <2>5, RunCheckInv
  <2>6. CASE \E form \in Env : Save(form)
    BY <2>6, SaveInv
  <2>7. CASE UNCHANGED vars
    BY <2>7 DEF vars, Inv, TypeOK, WordInv, SoundInv
  <2>. QED BY <2>1, <2>2, <2>3, <2>4, <2>5, <2>6, <2>7 DEF Next
<1>. QED BY <1>1, <1>2, PTL DEF Spec

-----------------------------------------------------------------------------
(* Types: no junk that a form or a hand edit brings in reaches the web UI's  *)
(* configuration.                                                            *)
THEOREM StartupTypeCorrect == Spec => []TypeOK
BY StartupInvariant, PTL DEF Inv

(* What --check has passed, a start accepts, whatever was done meanwhile but *)
(* a change of the file.                                                     *)
THEOREM CheckedStarts == Spec => []CheckedConfigStarts
<1>1. Inv => CheckedConfigStarts
  BY DEF Inv, WordInv, CheckedConfigStarts
<1>. QED BY <1>1, StartupInvariant, PTL

(* A switch to dry run is always a way back to a service that starts.        *)
THEOREM DryStarts == Spec => []DryRunStarts
<1>1. Inv => DryRunStarts
  BY DEF Inv, WordInv, DryRunStarts
<1>. QED BY <1>1, StartupInvariant, PTL

(* And from there a switch back to live, of a service that started live.     *)
THEOREM ToggledStarts == Spec => []ToggledConfigStarts
<1>1. Inv => ToggledConfigStarts
  BY DEF Inv, WordInv, ToggledConfigStarts
<1>. QED BY <1>1, StartupInvariant, PTL
=============================================================================
