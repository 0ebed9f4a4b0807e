----------------------------- MODULE Configure ------------------------------
(***************************************************************************)
(* `edgi config`: the phases in which a node configures itself as it comes *)
(* up, the sources each of them can read, and the appliers each of them    *)
(* calls, one after the other and whatever the others return; next to runs *)
(* started by hand.                                                        *)
(*                                                                         *)
(* The value of a key is the source it comes from: how the sources are     *)
(* merged is the subject of ConfigMerge.                                   *)
(***************************************************************************)
EXTENDS Naturals, Sequences, FiniteSets

CONSTANTS
    Nodes,              \* nodes with what their sources say, see NodeType
    AuthorizedKeys,     \* the list each source has for ssh_authorized_keys
    Remote,             \* those of the keys that are fetched from a URL
    Operator,           \* processes in which `edgi config` is run by hand
    Attempts,           \* a URL is tried so often (10 in the code)
    MaxEdits, MaxFailures, MaxReboots

Key == {"data_sources", "modules", "sysctls", "hostname", "dns", "wifi", "password",
        "ssh", "k3s", "write_files", "environment", "init_cmd", "boot_cmd", "run_cmd"}

(* local is /var/lib/cmd/edgi/config.yaml as it is at first, edited when   *)
(* somebody has changed it; cloud is what the metadata service downloads.  *)
Source == {"system", "cmdline", "local", "edited", "cloud", "dropin"}
Nothing == "nothing"
Value == Source \cup {Nothing}

(* says: the keys each source sets; binary: where k3s is, if anywhere.     *)
NodeType ==
    [says : [Source -> SUBSET Key], mode : {"local", "install"},
     binary : {"sbin", "usrlocal", "none"}]

AllKeys == UNION {{AuthorizedKeys[s][i] : i \in DOMAIN AuthorizedKeys[s]} : s \in Source}

(* An empty list of keys is as good as none.                               *)
ASSUME NodesAssumption    == Nodes \subseteq NodeType
ASSUME KeysAssumption     == AuthorizedKeys \in [Source -> Seq(AllKeys) \ {<<>>}]
ASSUME OperatorAssumption == "rc" \notin Operator
ASSUME AttemptsAssumption == Attempts \in Nat \ {0}
ASSUME BoundAssumption    == MaxEdits \in Nat /\ MaxFailures \in Nat /\ MaxReboots \in Nat

VARIABLES
    node,           \* the node
    binary,         \* where k3s is now
    local,          \* /var/lib/cmd/edgi/config.yaml: local, edited or broken
    cloud,          \* the user data: none since power-on, cloud or broken
    online,         \* is the network up?
    stage,          \* how far the node has come
    run,            \* the runs of `edgi config`
    set,            \* where the settings in force come from
    keys,           \* ~edgi/.ssh/authorized_keys
    dirty,          \* has the file not reached the disk yet?
    env,            \* /etc/environment: the sources of its variables
    unit,           \* the configuration of the k3s service, if installed
    k3s,            \* the configuration k3s runs with, if it runs
    seen,           \* what the last run of the boot has read (history)
    missed,         \* keys whose applier failed since power-on (history)
    forgone,        \* authorised keys that failed since then (history)
    touched,        \* has there been a run by hand since then? (history)
    edits, failures, reboots

nodeVars == <<node, local, edits, reboots, dirty>>
sysVars  == <<cloud, online>>
k3sVars  == <<binary, unit, k3s>>
history  == <<seen, touched, forgone>>
vars     == <<nodeVars, sysVars, k3sVars, history, stage, run, set, keys, env,
              missed, failures>>

Runner == {"rc"} \cup Operator
Absent == "absent"

-----------------------------------------------------------------------------
(* The phases and their appliers, named by the key they read.              *)

InitApply ==
    <<"modules", "sysctls", "hostname", "write_files", "environment", "init_cmd">>

BootApply ==
    <<"data_sources", "modules", "sysctls", "hostname", "dns", "wifi", "password",
      "ssh", "k3s", "write_files", "environment", "boot_cmd">>

(* Mutants of RunApply: the commands before the files; no password.        *)
RunApplyCommandsFirst ==
    <<"modules", "sysctls", "hostname", "dns", "wifi", "password", "ssh",
      "run_cmd", "write_files", "environment", "install", "k3s">>

RunApplyNoPassword ==
    <<"modules", "sysctls", "hostname", "dns", "wifi", "ssh",
      "write_files", "environment", "run_cmd", "install", "k3s">>

RunApply ==
    <<"modules", "sysctls", "hostname", "dns", "wifi", "password", "ssh",
      "write_files", "environment", "run_cmd", "install", "k3s">>

InstallApply == <<"k3s">>

Appliers == [initrd |-> InitApply, boot |-> BootApply, runtime |-> RunApply,
             install |-> InstallApply]

Phase    == DOMAIN Appliers
Commands == {"init_cmd", "boot_cmd", "run_cmd", "install"}

(* What is in the kernel lasts until the next reboot, /etc until the root  *)
(* is pivoted, the rest is on the disk.  Files are taken to be in /etc.    *)
(* Modules, sysctls and files are added to those there are: each source    *)
(* is taken to have its own.                                               *)
InKernel == {"modules", "sysctls", "hostname"}
InEtc    == {"data_sources", "dns", "password", "write_files"}
OnDisk   == {"wifi"}
Setting  == InKernel \cup InEtc \cup OnDisk
Adding   == {"modules", "sysctls", "write_files"}

(* The initrd phase has no disk: it has the command line only.             *)
Readable(phase) ==
    IF phase = "initrd" THEN {"cmdline"}
    ELSE {"system", "cmdline", local, "dropin"} \cup ({cloud} \ {"none"})

(* The sources in the order in which they are merged.                      *)
Order == <<"system", "cmdline", local, "cloud", "dropin">>

Merged(phase) ==
    [k \in Key |->
        LET who == {i \in DOMAIN Order :
                        Order[i] \in Readable(phase) /\ k \in node.says[Order[i]]}
        IN  IF who = {} THEN Nothing
            ELSE Order[CHOOSE i \in who : \A j \in who : j <= i]]

NoConfig == [k \in Key |-> Nothing]
NoRun ==
    [phase |-> "none", step |-> "idle", pos |-> 1, config |-> NoConfig,
     key |-> 1, read |-> {}, tries |-> 0, alone |-> TRUE]

RunType ==
    [phase : Phase \cup {"none"},
     step : {"idle", "read", "apply", "waiting", "truncate", "write", "extend", "replace"},
     pos : Nat, config : [Key -> Value], key : Nat, read : SUBSET (Source \cup AllKeys),
     tries : 0..(Attempts - 1), alone : BOOLEAN]

TypeOK ==
    /\ node \in NodeType /\ binary \in {"sbin", "usrlocal", "none"}
    /\ local \in {"local", "edited", "broken"}
    /\ cloud \in {"none", "cloud", "broken"}
    /\ online \in BOOLEAN /\ touched \in BOOLEAN /\ dirty \in BOOLEAN
    /\ stage \in {"initrd", "pivot", "boot", "net", "cloud", "runtime", "k3s", "up"}
    /\ run \in [Runner -> RunType]
    /\ set \in [Setting -> SUBSET (Source \cup {"dhcp"})]
    /\ \A k \in Setting \ Adding : Cardinality(set[k]) <= 1
    /\ \A k \in Setting \ {"hostname"} : "dhcp" \notin set[k]
    /\ env \subseteq Source /\ keys \subseteq AllKeys /\ forgone \subseteq AllKeys
    /\ unit \in Value \cup {Absent} /\ k3s \in Value \cup {Absent}
    /\ seen \in [Key -> Value] /\ missed \subseteq Key
    /\ edits \in 0..MaxEdits /\ failures \in 0..MaxFailures /\ reboots \in 0..MaxReboots

Init ==
    /\ node \in Nodes /\ binary = node.binary /\ local = "local"
    /\ cloud = "none" /\ online = FALSE /\ stage = "initrd"
    /\ run = [p \in Runner |-> NoRun]
    /\ set = [k \in Setting |-> {}] /\ keys = {} /\ dirty = FALSE /\ env = {}
    /\ unit = Absent /\ k3s = Absent
    /\ seen = NoConfig /\ missed = {} /\ forgone = {} /\ touched = FALSE
    /\ edits = 0 /\ failures = 0 /\ reboots = 0

-----------------------------------------------------------------------------
(* A run.                                                                  *)
After == [initrd |-> "pivot", boot |-> "net", runtime |-> "k3s"]

Begin(p, phase) ==
    /\ run[p].step = "idle"
    /\ run' = [q \in Runner |->
                IF q = p
                THEN [NoRun EXCEPT !.phase = phase, !.step = "read",
                                   !.alone = \A r \in Runner : run[r].step = "idle"]
                ELSE [run[q] EXCEPT !.alone = run[q].step = "idle"]]
    /\ UNCHANGED <<nodeVars, sysVars, k3sVars, seen, forgone, stage, set, keys, env, missed,
                   failures>>

(* Its exit status is 0 whatever happened: what started it goes on.        *)
Ends(p) ==
    /\ run'   = [run EXCEPT ![p] = NoRun]
    /\ stage' = IF p = "rc" THEN After[stage] ELSE stage

(* ReadConfig.  One source that cannot be read is the end of the run.      *)
Read(p) ==
    LET phase == run[p].phase
        config == Merged(phase)
    IN  /\ run[p].step = "read"
        /\ IF "broken" \in Readable(phase)
           THEN Ends(p) /\ missed' = Key /\ UNCHANGED seen
           ELSE /\ run' = [run EXCEPT ![p].step = "apply", ![p].config = config]
                /\ seen' = IF p = "rc" THEN config ELSE seen
                /\ UNCHANGED <<stage, missed>>
        /\ UNCHANGED <<nodeVars, sysVars, k3sVars, touched, forgone, set, keys, env, failures>>

(* The applier p is at, and what its configuration says to it.             *)
Applier(p) == Appliers[run[p].phase][run[p].pos]
Wanted(p)  == run[p].config[Applier(p)]
At(p, step) == run[p].step = step

(* The applier returns; runApplies calls the next.                         *)
Return(p) ==
    IF run[p].pos < Len(Appliers[run[p].phase])
    THEN /\ run' = [run EXCEPT ![p].pos = @ + 1, ![p].step = "apply", ![p].key = 1,
                               ![p].read = {}, ![p].tries = 0]
         /\ UNCHANGED stage
    ELSE Ends(p)

(* A key that is not set leaves what there is; connman's configuration is  *)
(* always written.                                                         *)
Put(p) ==
    [set EXCEPT ![Applier(p)] =
        IF Wanted(p) = Nothing THEN {}
        ELSE IF Applier(p) \in Adding THEN @ \cup {Wanted(p)} ELSE {Wanted(p)}]

Apply(p) ==
    /\ At(p, "apply") /\ Applier(p) \in Setting
    /\ set' = IF Wanted(p) = Nothing /\ Applier(p) # "dns" THEN set ELSE Put(p)
    /\ Return(p)
    /\ UNCHANGED <<nodeVars, sysVars, k3sVars, history, keys, env, missed, failures>>

(* A remote key is fetched, before commands or the installer end (it asks  *)
(* its questions here), or k3s is downloaded: nothing ends these but they. *)
KeyList(p)  == AuthorizedKeys[Wanted(p)]
ThisKey(p)  == KeyList(p)[run[p].key]
WithNet(p)  == run[p].phase = "runtime"
Restarts(p) == run[p].phase # "boot"

SkipsK3s(p) ==
    \/ node.mode = "install"
    \/ binary # "sbin" /\ ~Restarts(p)
    \/ binary = "none" /\ run[p].phase # "runtime"

Waits(p) ==
    \/ /\ Applier(p) = "ssh" /\ Wanted(p) # Nothing
       /\ ThisKey(p) \in Remote /\ WithNet(p) /\ online
    \/ Applier(p) \in Commands \cap Key /\ Wanted(p) # Nothing
    \/ Applier(p) = "install" /\ node.mode = "install"
    \/ Applier(p) = "k3s" /\ ~SkipsK3s(p) /\ binary = "none" /\ online

Wait(p) ==
    /\ At(p, "apply") /\ Waits(p)
    /\ run' = [run EXCEPT ![p].step = "waiting"]
    /\ UNCHANGED <<nodeVars, sysVars, k3sVars, history, stage, set, keys, env, missed, failures>>

Ready(p) == At(p, "waiting") \/ (At(p, "apply") /\ ~Waits(p))

(* Commands, and the installer in install mode (see Install), which change *)
(* nothing here.                                                           *)
Execute(p) ==
    /\ Ready(p) /\ Applier(p) \in Commands
    /\ Return(p)
    /\ UNCHANGED <<nodeVars, sysVars, k3sVars, history, set, keys, env, missed, failures>>

(* An applier fails and may have done its work or not; the next one runs.  *)
(* SetAuthorizedKeys as a whole fails before its first key only.  Most     *)
(* appliers do nothing, and do not fail, when their key is not set.        *)
CanFail(p) ==
    Applier(p) \in Key \ {"modules", "dns", "ssh", "k3s"} => Wanted(p) # Nothing

Fail(p) ==
    /\ run[p].step \in {"apply", "waiting"} /\ CanFail(p)
    /\ Applier(p) = "ssh" => At(p, "apply") /\ run[p].key = 1 /\ run[p].tries = 0
    /\ failures < MaxFailures
    /\ failures' = failures + 1
    /\ missed' = missed \cup ({Applier(p)} \cap Key)
    /\ IF Applier(p) \in Setting /\ Wanted(p) # Nothing
       THEN set' \in {set, Put(p)}
       ELSE UNCHANGED set
    /\ Return(p)
    /\ UNCHANGED <<nodeVars, sysVars, k3sVars, history, keys, env>>

(* ApplyEnvironment: the variables that are there are kept, the file is    *)
(* written in place.                                                       *)
ReadEnvironment(p) ==
    /\ At(p, "apply") /\ Applier(p) = "environment"
    /\ IF Wanted(p) = Nothing THEN Return(p)
       ELSE /\ run' = [run EXCEPT ![p].step = "truncate", ![p].read = env]
            /\ UNCHANGED stage
    /\ UNCHANGED <<nodeVars, sysVars, k3sVars, history, set, keys, env, missed, failures>>

TruncateEnvironment(p) ==
    /\ At(p, "truncate")
    /\ env' = {}
    /\ run' = [run EXCEPT ![p].step = "write"]
    /\ UNCHANGED <<nodeVars, sysVars, k3sVars, history, stage, set, keys, missed, failures>>

WriteEnvironment(p) ==
    /\ At(p, "write")
    /\ env' = run[p].read \cup {Wanted(p)}
    /\ Return(p)
    /\ UNCHANGED <<nodeVars, sysVars, k3sVars, history, set, keys, missed, failures>>

(* SetAuthorizedKeys: one key after the other; what fails is logged.       *)
AtKey(p) == Ready(p) /\ Applier(p) = "ssh" /\ Wanted(p) # Nothing

NextKey(p) ==
    IF run[p].key < Len(KeyList(p))
    THEN /\ run' = [run EXCEPT ![p].key = @ + 1, ![p].step = "apply", ![p].tries = 0]
         /\ UNCHANGED stage
    ELSE Return(p)

NoKeys(p) ==
    /\ At(p, "apply") /\ Applier(p) = "ssh" /\ Wanted(p) = Nothing
    /\ Return(p)
    /\ UNCHANGED <<nodeVars, sysVars, k3sVars, history, set, keys, env, missed, failures>>

(* getKey.  A remote key is left out before there is a network.            *)
SkipKey(p) ==
    /\ AtKey(p) /\ ThisKey(p) \in Remote /\ ~WithNet(p)
    /\ NextKey(p)
    /\ UNCHANGED <<nodeVars, sysVars, k3sVars, history, set, keys, env, missed, failures>>

GetKey(p) ==
    /\ AtKey(p)
    /\ ThisKey(p) \in Remote => WithNet(p) /\ online
    /\ run' = [run EXCEPT ![p].step = "extend"]
    /\ UNCHANGED <<nodeVars, sysVars, k3sVars, history, stage, set, keys, env, missed, failures>>

(* Mutant of RetryKey: the tries are not counted to an end.                *)
RetryKeyForEver(p) ==
    /\ AtKey(p) /\ ThisKey(p) \in Remote /\ WithNet(p)
    /\ run' = [run EXCEPT ![p].tries = @ + 1, ![p].step = "apply"]
    /\ UNCHANGED <<nodeVars, sysVars, k3sVars, history, stage, missed, set, keys, env, failures>>

(* A try has failed: there is no network, or no DNS yet.                   *)
RetryKey(p) ==
    /\ AtKey(p) /\ ThisKey(p) \in Remote /\ WithNet(p)
    /\ IF run[p].tries < Attempts - 1
       THEN /\ run' = [run EXCEPT ![p].tries = @ + 1, ![p].step = "apply"]
            /\ UNCHANGED <<stage, forgone>>
       ELSE /\ forgone' = forgone \cup {ThisKey(p)}
            /\ NextKey(p)
    /\ UNCHANGED <<nodeVars, sysVars, k3sVars, seen, touched, set, keys, env, missed, failures>>

(* authorizeSSHKey: read the file, add the key, replace the file.          *)
ExtendKeys(p) ==
    /\ At(p, "extend")
    /\ run' = [run EXCEPT ![p].step = "replace", ![p].read = keys]
    /\ UNCHANGED <<nodeVars, sysVars, k3sVars, history, stage, set, keys, env, missed, failures>>

(* Mutant of Replace: the file is written with the new key only.           *)
ReplaceAll(p) == keys' = {ThisKey(p)} /\ dirty' = TRUE

(* It is renamed without being flushed.                                    *)
Replace(p) == keys' = run[p].read \cup {ThisKey(p)} /\ dirty' = TRUE

ReplaceKeys(p) ==
    /\ At(p, "replace")
    /\ Replace(p)
    /\ NextKey(p)
    /\ UNCHANGED <<node, local, edits, reboots, sysVars, k3sVars, history, set, env, missed,
                   failures>>

(* The server answers with an error, or the file cannot be read or         *)
(* replaced (or not given to its user once it is): the next key.           *)
FailKey(p) ==
    /\ failures < MaxFailures /\ failures' = failures + 1
    /\ \/ /\ AtKey(p) /\ ThisKey(p) \in Remote /\ WithNet(p) /\ online
          /\ UNCHANGED <<keys, dirty>>
       \/ At(p, "extend") /\ UNCHANGED <<keys, dirty>>
       \/ At(p, "replace") /\ (Replace(p) \/ UNCHANGED <<keys, dirty>>)
    /\ forgone' = forgone \cup {ThisKey(p)}
    /\ NextKey(p)
    /\ UNCHANGED <<node, local, edits, reboots, sysVars, k3sVars, seen, touched, set, env,
                   missed>>

(* ApplyK3S(restart, install): at boot the service is installed and not    *)
(* started; only at runtime a binary is downloaded.                        *)
(* Mutant of InstallK3s: the service is started whenever it is installed.  *)
InstallK3sStart(p) ==
    /\ Ready(p) /\ Applier(p) = "k3s"
    /\ \/ SkipsK3s(p) /\ UNCHANGED k3sVars
       \/ /\ ~SkipsK3s(p) /\ (binary = "none" => online)
          /\ unit'   = Wanted(p)
          /\ k3s'    = Wanted(p)
          /\ binary' = IF binary = "none" THEN "usrlocal" ELSE binary
    /\ Return(p)
    /\ UNCHANGED <<nodeVars, sysVars, history, set, keys, env, missed, failures>>

InstallK3s(p) ==
    /\ Ready(p) /\ Applier(p) = "k3s"
    /\ \/ SkipsK3s(p) /\ UNCHANGED k3sVars
       \/ /\ ~SkipsK3s(p) /\ (binary = "none" => online)
          /\ unit'   = Wanted(p)
          /\ k3s'    = IF Restarts(p) THEN Wanted(p) ELSE k3s
          /\ binary' = IF binary = "none" THEN "usrlocal" ELSE binary
    /\ Return(p)
    /\ UNCHANGED <<nodeVars, sysVars, history, set, keys, env, missed, failures>>

(* k3s cannot be downloaded.                                               *)
NoDownload(p) ==
    /\ At(p, "apply") /\ Applier(p) = "k3s"
    /\ ~SkipsK3s(p) /\ binary = "none" /\ ~online
    /\ missed' = missed \cup {"k3s"}
    /\ Return(p)
    /\ UNCHANGED <<nodeVars, sysVars, k3sVars, history, set, keys, env, failures>>

-----------------------------------------------------------------------------
(* The node comes up.                                                      *)
BootBegins ==
    /\ stage \in {"initrd", "boot", "runtime"}
    /\ Begin("rc", stage)
    /\ UNCHANGED touched

Unaltered == UNCHANGED <<nodeVars, k3sVars, history, run, keys, missed, failures>>

(* The root on the disk is entered, where /etc is made anew; a medium to   *)
(* install from stays where it is.                                         *)
Pivot ==
    /\ stage = "pivot" /\ stage' = "boot"
    /\ IF node.mode = "local"
       THEN /\ set' = [k \in Setting |-> IF k \in InEtc THEN {} ELSE set[k]]
            /\ env' = {}
       ELSE UNCHANGED <<set, env>>
    /\ UNCHANGED sysVars /\ Unaltered

(* Mutant of NetOnline: there is no timeout.                               *)
NetOnlineOnly ==
    /\ stage = "net" /\ stage' = "cloud" /\ online
    /\ UNCHANGED <<set, env, sysVars>> /\ Unaltered

(* The service net-online waits for 30 seconds.  When it gives up it has   *)
(* failed, but those who want it start all the same.                       *)
NetOnline ==
    /\ stage = "net" /\ stage' = "cloud"
    /\ UNCHANGED <<set, env, sysVars>> /\ Unaltered

(* The service cloud-config, if boot has enabled it; what it downloads may *)
(* not be YAML.                                                            *)
CloudConfig ==
    /\ stage = "cloud" /\ stage' = "runtime"
    /\ \/ set["data_sources"] # {} /\ online /\ cloud' \in {"cloud", "broken"}
       \/ cloud' = cloud
    /\ UNCHANGED <<set, env, online>> /\ Unaltered

(* The service k3s-service comes after ccapply.                            *)
StartK3s ==
    /\ stage = "k3s" /\ stage' = "up"
    /\ k3s' = IF k3s = Absent THEN unit ELSE k3s
    /\ UNCHANGED <<nodeVars, sysVars, binary, unit, history, run, set, keys, env,
                   missed, failures>>

GoOnline ==
    /\ ~online /\ online' = TRUE
    /\ UNCHANGED <<cloud, stage, set, env>> /\ Unaltered

(* With an address the network may supply a name, now and at any renewal.  *)
SupplyHostname ==
    /\ online
    /\ set' = [set EXCEPT !["hostname"] = {"dhcp"}]
    /\ UNCHANGED <<sysVars, stage, env>> /\ Unaltered

(* By hand, once one can log in.                                           *)
OperatorBegins(p) ==
    /\ stage \in {"runtime", "k3s", "up"}
    /\ \E phase \in {"runtime", "install"} : Begin(p, phase)
    /\ touched' = TRUE

Edit ==
    /\ stage = "up" /\ edits < MaxEdits
    /\ edits' = edits + 1
    /\ local' \in {"edited", "broken"} \ {local}
    /\ UNCHANGED <<node, reboots, dirty, sysVars, k3sVars, history, stage, run, set, keys, env,
                   missed, failures>>

(* The kernel writes back what is dirty.                                   *)
Flush ==
    /\ dirty /\ dirty' = FALSE
    /\ UNCHANGED <<node, local, edits, reboots, sysVars, k3sVars, history, stage, run, set,
                   keys, env, missed, failures>>

(* The node starts anew with these settings and keys, and this k3s.        *)
StartsAnew(settings, theKeys, theBinary) ==
    /\ reboots < MaxReboots /\ reboots' = reboots + 1
    /\ cloud' = "none" /\ online' = FALSE /\ stage' = "initrd"
    /\ run' = [p \in Runner |-> NoRun]
    /\ set' = [k \in Setting |-> IF k \in settings THEN set[k] ELSE {}]
    /\ keys' = theKeys /\ dirty' = FALSE /\ binary' = theBinary
    /\ local' = IF node.mode = "install" THEN "local" ELSE local
    /\ env' = {} /\ unit' = Absent /\ k3s' = Absent
    /\ seen' = NoConfig /\ missed' = {} /\ forgone' = {} /\ touched' = FALSE
    /\ UNCHANGED <<node, edits, failures>>

(* Everything is in memory on a node that is to be installed.              *)
Reboot ==
    IF node.mode = "install" THEN StartsAnew({}, {}, node.binary)
                             ELSE StartsAnew(OnDisk, keys, binary)

(* Files that have not reached the disk may be back as they were, or empty.*)
PowerLoss ==
    /\ node.mode # "install"
    /\ \E settings \in SUBSET OnDisk, left \in SUBSET keys, b \in {binary, node.binary} :
          /\ ~dirty => left = keys
          /\ StartsAnew(settings, left, b)

RunStep(p) ==
    \/ Read(p) \/ Apply(p) \/ Wait(p) \/ Execute(p) \/ Fail(p)
    \/ ReadEnvironment(p) \/ TruncateEnvironment(p) \/ WriteEnvironment(p)
    \/ NoKeys(p) \/ SkipKey(p) \/ GetKey(p) \/ RetryKey(p) \/ ExtendKeys(p) \/ ReplaceKeys(p)
    \/ FailKey(p) \/ InstallK3s(p) \/ NoDownload(p)

BootStep == BootBegins \/ RunStep("rc") \/ Pivot \/ NetOnline \/ CloudConfig \/ StartK3s

Next ==
    \/ BootStep \/ GoOnline \/ SupplyHostname \/ Edit \/ Flush \/ Reboot \/ PowerLoss
    \/ \E p \in Operator : OperatorBegins(p) \/ RunStep(p)

(* OpenRC goes on, and the run it waits for, but for what that waits for   *)
(* itself: a server, a command or an answer; nothing else has to.          *)
Waiting == run["rc"].step = "waiting"
Spec == Init /\ [][Next]_vars /\ WF_vars(~Waiting /\ BootStep)

-----------------------------------------------------------------------------
(* Properties.                                                             *)

(* README.md:464: "Commands are ran after `write_files`".  What a command  *)
(* finds is the files and the environment of the same configuration,       *)
(* unless one of these failed, or another run was at work.                 *)
FilesBeforeCommands ==
    \A p \in Runner :
        run[p].step \in {"apply", "waiting"} /\ Applier(p) \in Commands /\ run[p].alone =>
            \A k \in {"write_files", "environment"} \ missed :
                LET wanted == run[p].config[k]
                IN  wanted = Nothing \/ (IF k = "environment" THEN wanted \in env
                                         ELSE wanted \in set[k])

(* A node that has come up is configured as its sources said when it last  *)
(* read them: a password, name or name server that only an earlier boot or *)
(* the other root knew is not in force, and nothing it was told is missing *)
(* except what failed, key by key (ssh.go:46-48).  The name may be that of *)
(* DHCP (README.md:452).  Data sources the user data names come too late.  *)
ByDHCP(k) == k = "hostname" /\ set[k] = {"dhcp"}

ConfiguredWhenUp ==
    stage \in {"k3s", "up"} /\ ~touched =>
        \A k \in Key \ missed :
            /\ k \in Setting \ {"data_sources"} /\ seen[k] # Nothing =>
                   seen[k] \in set[k] \/ ByDHCP(k)
            /\ k \in {"hostname", "dns", "password"} /\ seen[k] = Nothing =>
                   set[k] = {} \/ ByDHCP(k)
            /\ k = "environment" /\ seen[k] # Nothing => seen[k] \in env
            /\ k = "ssh" /\ seen[k] # Nothing =>
                   \A i \in DOMAIN AuthorizedKeys[seen[k]] :
                       AuthorizedKeys[seen[k]][i] \in keys \cup forgone

(* k3s starts once, with what the runtime phase has read, and not at all   *)
(* while EDGI is installed.  Where the user data have been downloaded this *)
(* is what they say of it, or a drop-in: such a node does not found a      *)
(* cluster before it joins one.  Where they have not been in time (a       *)
(* network that takes more than 30 seconds) it does.                       *)
K3sWhenConfigured ==
    k3s # Absent =>
        /\ stage \in {"runtime", "k3s", "up"} /\ node.mode # "install"
        /\ ~touched /\ "k3s" \notin missed =>
               /\ k3s = seen["k3s"]
               /\ cloud = "cloud" /\ "k3s" \in node.says["cloud"] => k3s \in {"cloud", "dropin"}

(* An authorised key stays so, whatever fails, through reboots and, once   *)
(* the file has reached the disk, losses of power: only runs that overlap  *)
(* can lose one, and the end of a node that is being installed.            *)
KeysKept ==
    [][\/ keys \subseteq keys'
       \/ \E p \in Runner : At(p, "replace") /\ ~run[p].alone
       \/ PowerLoss /\ dirty
       \/ Reboot /\ node.mode = "install"]_vars

(* The node comes up whatever fails: no source, applier, download or       *)
(* network that does not work keeps it from that.  Only three may make it  *)
(* wait for ever: a server that accepts a request and does not answer      *)
(* (ssh.go:75, k3s-install.sh), a command of its configuration, and the    *)
(* installer with its questions (funcs.go:174-178).                        *)
NodeComesUp == <>[]Waiting \/ []<>(stage = "up")
=============================================================================
