---------------------------- MODULE MCConfigure -----------------------------
(* Small instances of Configure for TLC.                                   *)
EXTENDS Configure

KeyLists ==
    [s \in Source |-> IF s = "system" THEN <<"root", "github">> ELSE <<"own">>]
RemoteKeys == {"github"}

(* A node in a cloud: the installed configuration names the data source,   *)
(* the user data what is to become of the node.                            *)
Cloudy ==
    [says |-> [system  |-> {"data_sources"},
               cmdline |-> {"hostname"},
               local   |-> {},
               edited  |-> {"k3s", "password"},
               cloud   |-> {"k3s", "password", "write_files", "run_cmd"},
               dropin  |-> {}],
     mode |-> "local", binary |-> "sbin"]

(* One that is configured on the spot and fetches k3s.                     *)
Local ==
    [says |-> [system  |-> {"dns"},
               cmdline |-> {"password"},
               local   |-> {"wifi", "k3s", "environment"},
               edited  |-> {"environment", "write_files", "run_cmd"},
               cloud   |-> {},
               dropin  |-> {"environment"}],
     mode |-> "local", binary |-> "none"]

(* One with keys, of which one is to be fetched.                           *)
Keyed ==
    [says |-> [[v \in Source |-> {}] EXCEPT
                   !["system"] = {"ssh"}, !["edited"] = {"ssh", "hostname"}],
     mode |-> "local", binary |-> "sbin"]

(* One booted from a medium to be installed.                               *)
Installing ==
    [says |-> [[v \in Source |-> {}] EXCEPT
                   !["cmdline"] = {"k3s", "modules", "password", "init_cmd", "boot_cmd"},
                   !["edited"] = {"sysctls", "ssh"}],
     mode |-> "install", binary |-> "usrlocal"]

AllNodes == {Cloudy, Local, Keyed, Installing}
=============================================================================
