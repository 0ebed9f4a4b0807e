-------------------------------- MODULE Dialog -------------------------------
(***************************************************************************)
(* `edgi install` up to the installer: the questions it asks (pkg/         *)
(* cliinstall/ask.go, pkg/questions), the password it has hashed by way of *)
(* /etc/shadow (pkg/util/prompt.go), the consent, the temporary file with  *)
(* the configuration and the start of install.sh (cliinstall/install.go).  *)
(* A node that runs live may be configured instead of installed.           *)
(*                                                                         *)
(* Any call may fail, input may end, and Ctrl-C at a question kills the    *)
(* program without any deferred call.  A question that does not understand *)
(* the answer is asked again: only answers it takes are steps.             *)
(***************************************************************************)
EXTENDS Naturals, FiniteSets, Sequences, SequencesExt

CONSTANTS
    Modes,      \* the modes the node may be in: "install", "live-server", ...
    Presets,    \* what the kernel command line may set, see Unset
    DiskSets,   \* the disks the node may have
    MaxBytes,   \* keystrokes of a password, its end not counted (512)
    None        \* not set, not there

VARIABLES
    mode, disks, preset,    \* chosen at the start
    piped,      \* do the answers come from a pipe?
    listed,     \* has /etc/shadow a line for the user edgi?
    lost,       \* has a reader taken the answers still to come?
    pc,
    install,    \* is it to be installed, or only configured?
    cfg,        \* the configuration so far
    role,       \* the answer to "server or agent", None if not asked
    entry,      \* the password being typed, see NoEntry
    shadow,     \* what /etc/shadow says of edgi's password, None if it is broken
    saved,      \* AskPassword's copy of it
    err,        \* AskPassword will return an error
    consent,    \* the summary that was agreed to
    temp,       \* the temporary file: None, "empty" or "config"
    system,     \* the configuration of a node that is not installed
    installer,  \* what install.sh was started with
    fault       \* has a call failed that cleans up, or that writes the file?

given  == <<mode, disks, preset, piped, listed>>
pwVars  == <<entry, shadow, saved, err>>
endVars == <<consent, temp, system, installer>>
vars    == <<given, lost, pc, install, cfg, role, pwVars, endVars, fault>>

(* The fields the questions are about.  A password is the sequence of its  *)
(* characters, whether hashed or not.                                      *)
Unset == [silent |-> FALSE, device |-> None, url |-> None, keys |-> FALSE,
          password |-> None, wifi |-> FALSE, server |-> FALSE, token |-> FALSE]

Char      == {"a", "b"}
Keystroke == Char \cup {"del"}

ASSUME PresetsAssumption == \A p \in Presets :
    /\ p = [f \in DOMAIN Unset |-> p[f]]
    /\ p.url \in {None, "given"}
    /\ \A f \in {"silent", "keys", "wifi", "server", "token"} : p[f] \in BOOLEAN
ASSUME BytesAssumption   == MaxBytes \in Nat
ASSUME NoneAssumption    == None \notin {"given", "temp", "agent"} \cup (UNION DiskSets) \cup Seq(Char)

NoEntry  == [first |-> None, firstKeys |-> <<>>, p |-> <<>>, keys |-> <<>>]
Original == <<"original">>

Init ==
    /\ mode \in Modes /\ disks \in DiskSets /\ preset \in Presets
    /\ piped \in BOOLEAN /\ lost = FALSE /\ listed \in BOOLEAN
    /\ pc = "mode" /\ install = FALSE
    /\ cfg = preset /\ role = None /\ entry = NoEntry
    /\ shadow = Original /\ saved = None /\ err = FALSE
    /\ consent = None /\ temp = None /\ system = "old" /\ installer = None
    /\ fault = FALSE

-----------------------------------------------------------------------------
Set(field, v) == cfg' = [cfg EXCEPT ![field] = v]

(* Prompt: each question has a reader of its own, which takes what is in   *)
(* the pipe by then, and is thrown away with it.                           *)
Unasked  == UNCHANGED lost
Answered == ~lost /\ lost' \in {FALSE, piped}
Failed   == lost' \in {lost, piped} /\ pc' = "failed"

(* A question: it is not asked if what it asks for is set, and it fails if *)
(* there is no more input or if what it needs cannot be read.              *)
Question(here, set, next, Answer) ==
    /\ pc = here
    /\ \/ set /\ Unasked /\ pc' = next /\ UNCHANGED cfg
       \/ ~set /\ Answered /\ pc' = next /\ Answer
       \/ ~set /\ Failed /\ UNCHANGED cfg
    /\ UNCHANGED <<given, install, role, pwVars, endVars, fault>>

(* isInstall.                                                              *)
AskMode ==
    /\ pc = "mode"
    /\ \/ mode = "install" /\ Unasked /\ install' = TRUE
       \/ mode \in {"live-server", "live-agent"} /\ Unasked /\ install' = FALSE
       \/ mode \notin {"install", "live-server", "live-agent"} /\ Answered
          /\ install' \in BOOLEAN
    /\ pc' = IF install' THEN "device" ELSE "role"
    /\ UNCHANGED <<given, cfg, role, pwVars, endVars, fault>>

(* It may also fail: the mode cannot be read, the input ends.              *)
AskModeFails ==
    /\ pc = "mode" /\ Failed
    /\ UNCHANGED <<given, install, cfg, role, pwVars, endVars, fault>>

(* AskInstall: nothing is asked in a silent installation.                  *)
Silent ==
    /\ pc = "device" /\ cfg.silent
    /\ pc' = "consent"
    /\ UNCHANGED <<given, lost, install, cfg, role, pwVars, endVars, fault>>

(* AskInstallDevice: the only disk is taken without asking; without any    *)
(* disk no answer is right.                                                *)
AskDevice ==
    /\ ~cfg.silent
    /\ \/ Question("device", cfg.device # None, "url", \E d \in disks : Set("device", d))
       \/ /\ pc = "device" /\ cfg.device = None
          /\ \E d \in disks : disks = {d} /\ Set("device", d)
          /\ pc' = "url" /\ Unasked
          /\ UNCHANGED <<given, install, role, pwVars, endVars, fault>>

(* AskConfigURL: with a configuration from elsewhere there is no more to   *)
(* ask for.                                                                *)
AskConfigURL ==
    \/ Question("url", cfg.url # None, "consent", Set("url", "given"))
    \/ cfg.url = None /\ Question("url", FALSE, "github", UNCHANGED cfg)

HasLogin == cfg.keys \/ cfg.password # None

AskGithub == Question("github", HasLogin, "password", \E yes \in BOOLEAN : Set("keys", yes))
AskWifi   == Question("wifi", cfg.wifi, "role", \E yes \in BOOLEAN : Set("wifi", yes))

(* AskServerAgent and isServer.  A server that is known already ends it:   *)
(* the token is not asked for.                                             *)
AfterRole == IF install THEN "consent" ELSE "create"

AskRole ==
    /\ pc = "role"
    /\ \/ /\ cfg.server /\ pc' = AfterRole /\ Unasked /\ UNCHANGED <<cfg, role>>
       \/ /\ ~cfg.server /\ mode = "live-server" /\ role' = "server" /\ pc' = "token"
          /\ Unasked /\ UNCHANGED cfg
       \/ /\ ~cfg.server /\ mode # "live-server" /\ Answered
          /\ \/ mode # "live-agent" /\ role' = "server" /\ pc' = "token" /\ UNCHANGED cfg
             \/ role' = "agent" /\ pc' = "token" /\ Set("server", TRUE)
       \/ ~cfg.server /\ Failed /\ UNCHANGED <<cfg, role>>
    /\ UNCHANGED <<given, install, pwVars, endVars, fault>>

(* AskToken: optional for a server.                                        *)
AskToken ==
    Question("token", cfg.token, AfterRole,
             \E yes \in BOOLEAN : (role = "agent" => yes) /\ Set("token", yes))

-----------------------------------------------------------------------------
(* AskPassword.                                                            *)
StartPassword ==
    /\ pc = "password"
    /\ pc' = IF HasLogin THEN "wifi" ELSE "typing"
    /\ entry' = NoEntry
    /\ UNCHANGED <<given, lost, install, cfg, role, shadow, saved, err, endVars, fault>>

(* Mutant of Backspace: it erases what is shown, not what was read.        *)
BackspaceShown(p) == p

Backspace(p) == IF p = <<>> THEN p ELSE Front(p)

(* MaskPassword, one keystroke: a character, a backspace.                  *)
Type ==
    /\ pc = "typing" /\ ~lost /\ Len(entry.keys) <= MaxBytes
    /\ \E k \in Keystroke :
           entry' = [entry EXCEPT !.keys = Append(@, k),
                                  !.p = IF k = "del" THEN Backspace(@) ELSE Append(@, k)]
    /\ pc' = IF Len(entry'.keys) > MaxBytes THEN "failed" ELSE "typing"
    /\ UNCHANGED <<given, lost, install, cfg, role, shadow, saved, err, endVars, fault>>

(* Mutant of Same: the password counts as confirmed if it begins alike.    *)
SamePrefix == IsPrefix(entry.first, entry.p)

Same == entry.first = entry.p

(* Enter: PromptPassword asks twice, AskPassword until both are the same.  *)
(* Input that ends, or Ctrl-C, which a raw terminal hands on, is an error. *)
Enter ==
    /\ pc = "typing"
    /\ \/ /\ ~lost /\ entry.first = None
          /\ entry' = [NoEntry EXCEPT !.first = entry.p, !.firstKeys = entry.keys]
          /\ UNCHANGED pc
       \/ /\ ~lost /\ entry.first # None /\ Same
          /\ pc' = "shadow" /\ UNCHANGED entry
       \/ /\ ~lost /\ entry.first # None /\ ~Same
          /\ entry' = NoEntry /\ UNCHANGED pc
       \/ pc' = "failed" /\ UNCHANGED entry
    /\ UNCHANGED <<given, lost, install, cfg, role, shadow, saved, err, endVars, fault>>

ReadShadow ==
    /\ pc = "shadow"
    /\ \/ saved' = shadow /\ pc' = "chpasswd"
       \/ UNCHANGED saved /\ pc' = "failed"
    /\ UNCHANGED <<given, lost, install, cfg, role, entry, shadow, err, endVars, fault>>

(* chpasswd falls back on /etc/passwd for a user it does not find.         *)
Chpasswd ==
    /\ pc = "chpasswd"
    /\ \/ shadow' = (IF listed THEN entry.p ELSE shadow) /\ pc' = "hash" /\ UNCHANGED err
       \/ UNCHANGED shadow /\ pc' = "restore" /\ err' = TRUE
    /\ UNCHANGED <<given, lost, install, cfg, role, entry, saved, endVars, fault>>

(* Without a line for edgi the loop ends, and with it AskPassword, without *)
(* an error and without a password.                                        *)
ReadHash ==
    /\ pc = "hash" /\ pc' = "restore"
    /\ \/ listed /\ Set("password", shadow) /\ UNCHANGED err
       \/ ~listed /\ UNCHANGED <<cfg, err>>
       \/ UNCHANGED cfg /\ err' = TRUE
    /\ UNCHANGED <<given, lost, install, role, entry, shadow, saved, endVars, fault>>

(* Mutant of Restored: only a password that was set is taken back.         *)
RestoredIfSet == IF err THEN shadow ELSE saved

Restored == saved

(* The deferred WriteFile: truncated, then written; nobody looks whether   *)
(* it worked.                                                              *)
Restore ==
    /\ pc = "restore"
    /\ \/ shadow' = Restored /\ UNCHANGED fault
       \/ shadow' \in {None, shadow} /\ fault' = TRUE
    /\ pc' = IF err THEN "failed" ELSE "wifi"
    /\ UNCHANGED <<given, lost, install, cfg, role, entry, saved, err, endVars>>

-----------------------------------------------------------------------------
(* Mutant of Consent: the answer is not looked at.                         *)
ConsentAnyway ==
    \/ cfg.silent /\ pc' = "tempfile" /\ Unasked /\ UNCHANGED consent
    \/ ~cfg.silent /\ Answered /\ pc' = "tempfile"
       /\ consent' \in {None, [device |-> cfg.device, url |-> cfg.url]}

(* runInstall: the summary has the Install section only.                   *)
Consent ==
    \/ cfg.silent /\ pc' = "tempfile" /\ Unasked /\ UNCHANGED consent
    \/ ~cfg.silent /\ Answered /\ pc' = "tempfile"
       /\ consent' = [device |-> cfg.device, url |-> cfg.url]
    \/ ~cfg.silent /\ Answered /\ pc' = "done" /\ UNCHANGED consent
    \/ ~cfg.silent /\ Failed /\ UNCHANGED consent

AskConsent ==
    /\ pc = "consent"
    /\ Consent
    /\ UNCHANGED <<given, install, cfg, role, pwVars, temp, system, installer, fault>>

(* The configuration that was asked for goes to a file for install.sh.     *)
MakeTemp ==
    /\ pc = "tempfile"
    /\ \/ cfg.url # None /\ pc' = "run" /\ UNCHANGED <<cfg, temp>>
       \/ cfg.url = None /\ temp' = "empty" /\ Set("url", "temp") /\ pc' = "write"
       \/ pc' = "failed" /\ UNCHANGED <<cfg, temp>>
    /\ UNCHANGED <<given, lost, install, role, pwVars, consent, system, installer, fault>>

(* ToEnv, Marshal, Write, Close: the os.Remove is deferred after them.     *)
WriteTemp ==
    /\ pc = "write"
    /\ \/ temp' = "config" /\ pc' = "run" /\ UNCHANGED fault
       \/ UNCHANGED temp /\ pc' = "failed" /\ fault' = TRUE
    /\ UNCHANGED <<given, lost, install, cfg, role, pwVars, consent, system, installer>>

(* Mutant of RunInstaller: the file is removed when it has been written.   *)
RunInstallerLate ==
    /\ pc = "run" /\ pc' = "installing" /\ temp' = None
    /\ installer' = [device |-> cfg.device, url |-> cfg.url, config |-> None]
    /\ UNCHANGED <<given, lost, install, cfg, role, pwVars, consent, system, fault>>

RunInstaller ==
    /\ pc = "run"
    /\ \/ /\ pc' = "installing" /\ UNCHANGED temp
          /\ installer' = [device |-> cfg.device, url |-> cfg.url, config |-> temp]
       \/ pc' = "failed" /\ temp' = None /\ UNCHANGED installer
    /\ UNCHANGED <<given, lost, install, cfg, role, pwVars, consent, system, fault>>

(* It ends, well or not; the deferred os.Remove.                           *)
InstallerEnds ==
    /\ pc = "installing"
    /\ pc' \in {"done", "failed"} /\ temp' = None
    /\ UNCHANGED <<given, lost, install, cfg, role, pwVars, consent, system, installer, fault>>

(* A node that is not installed: its configuration is written in place and *)
(* applied.                                                                *)
CreateSystem ==
    /\ pc = "create"
    /\ \/ system' = "empty" /\ pc' = "save"
       \/ UNCHANGED system /\ pc' = "failed"
    /\ UNCHANGED <<given, lost, install, cfg, role, pwVars, consent, temp, installer, fault>>

SaveSystem ==
    /\ pc = "save"
    /\ \/ system' = "written" /\ pc' = "apply"
       \/ system' \in {"empty", "part"} /\ pc' = "failed"
    /\ UNCHANGED <<given, lost, install, cfg, role, pwVars, consent, temp, installer, fault>>

Apply ==
    /\ pc = "apply"
    /\ pc' \in {"done", "failed"}
    /\ UNCHANGED <<given, lost, install, cfg, role, pwVars, endVars, fault>>

(* SIGINT, a closed terminal, SIGKILL.                                     *)
Kill ==
    /\ pc \notin {"done", "failed", "killed"}
    /\ pc' = "killed"
    /\ UNCHANGED <<given, lost, install, cfg, role, pwVars, endVars, fault>>

Next ==
    \/ AskMode \/ AskModeFails \/ Silent \/ AskDevice \/ AskConfigURL \/ AskGithub \/ AskWifi
    \/ AskRole \/ AskToken
    \/ StartPassword \/ Type \/ Enter \/ ReadShadow \/ Chpasswd \/ ReadHash \/ Restore
    \/ AskConsent \/ MakeTemp \/ WriteTemp \/ RunInstaller \/ InstallerEnds
    \/ CreateSystem \/ SaveSystem \/ Apply \/ Kill

Spec == Init /\ [][Next]_vars

-----------------------------------------------------------------------------
(* What a line of keystrokes says: a key counts if from it on to any later *)
(* one there are more characters than backspaces.                          *)
Backspaces(keys, i, j) == Cardinality({k \in i..j : keys[k] = "del"})
Counts(keys, i) == \A j \in i..Len(keys) : 2 * Backspaces(keys, i, j) < j - i + 1

(* It is the keys that count, in their order.                              *)
Typed(p, keys) ==
    \E at \in [1..Len(p) -> 1..Len(keys)] :
        /\ {at[n] : n \in 1..Len(p)} = {i \in 1..Len(keys) : Counts(keys, i)}
        /\ \A m, n \in 1..Len(p) : m < n => at[m] < at[n]
        /\ \A n \in 1..Len(p) : p[n] = keys[at[n]]

(* install.sh is started for nothing but what was agreed to: the disk and  *)
(* the source of the summary, unless the installation is silent.  If the   *)
(* configuration was asked for, it is in the file that install.sh is told  *)
(* of, with the token an agent needs and with a way to log in, unless      *)
(* /etc/shadow has no line for edgi: the password is dropped then, and     *)
(* nobody is told.  A password that is set is what was typed, both times.  *)
(* (AskInstall, AskPassword, MaskPassword and runInstall.)                 *)
InstallsAsAnswered ==
    installer # None =>
        /\ preset.silent \/
              /\ consent = [device |-> installer.device,
                            url |-> IF installer.url = "temp" THEN None ELSE installer.url]
              /\ installer.device \in (disks \cup {preset.device}) \ {None}
        /\ installer.url = "temp" =>
              /\ installer.config = "config"
              /\ preset.silent \/ ((listed => HasLogin) /\ (role = "agent" => cfg.token))
        /\ cfg.password # preset.password =>
              \A keys \in {entry.firstKeys, entry.keys} : Typed(cfg.password, keys)

(* Asking leaves no trace: whatever fails, /etc/shadow is as it was once   *)
(* AskPassword is over, and no file with the configuration is left when    *)
(* the program ends.  Excepted are a program that is killed, an  *)
(* error of the write that restores the file, which nobody looks at, and   *)
(* an error before the removal is deferred.                                *)
LeavesNothing ==
    ~fault =>
        /\ pc \notin {"hash", "restore", "killed"} => shadow = Original
        /\ pc \in {"done", "failed"} => temp = None
=============================================================================
