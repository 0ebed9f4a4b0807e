----------------------------- MODULE MCInstall ------------------------------
(* Small instances of Install for TLC.                                     *)
EXTENDS Install

Automatic == [Menu EXCEPT !.fallback = "install"]
Installer == [Menu EXCEPT !.mode = "install"]
Cmdlines  == {Menu, Automatic, Installer}
NoDisks   == {}

Blank ==
    [labelled |-> FALSE, flags |-> {}, foreign |-> {}, usrmerge |-> FALSE,
     init |-> "none", data |-> "none"]
Ubuntu == [Blank EXCEPT !.foreign = Foreign, !.usrmerge = TRUE, !.init = "link"]

Job(from, medium) ==
    [format |-> TRUE, takeover |-> FALSE, poweroff |-> FALSE, interactive |-> FALSE,
     config |-> from, iso |-> medium]

(* README, "Automated Installation": from an ISO or over the network.      *)
Auto(cmd, d, j) == [disk |-> d, cmdline |-> cmd, net |-> "once", at |-> "off", job |-> j]

(* README, "Takeover Installation": install.sh on a running system.        *)
Takeovers ==
    { [disk |-> [Ubuntu EXCEPT !.usrmerge = u], cmdline |-> Menu, net |-> n, at |-> "foreign",
       job |-> [format |-> FALSE, takeover |-> TRUE, poweroff |-> p, interactive |-> TRUE,
                config |-> "url", iso |-> "url"]] :
        u \in BOOLEAN, n \in {"never", "always"}, p \in BOOLEAN }

Unattended ==
    { Auto(cmd, d, [Job("url", i) EXCEPT !.poweroff = p]) :
        cmd \in {Automatic, Installer}, d \in {Blank, Ubuntu}, i \in {"medium", "url"},
        p \in BOOLEAN }
    \cup { Auto(Automatic, Blank, Job("file", "medium")) }

AllSetups  == Takeovers \cup Unattended
NetSetups  == { Auto(Automatic, Blank, Job("url", "url")) }
=============================================================================
