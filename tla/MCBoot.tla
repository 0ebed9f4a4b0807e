------------------------------- MODULE MCBoot -------------------------------
(* Small instances of Boot for TLC.                                        *)
EXTENDS Boot

CONSTANT Markers    \* the markers a taken-over disk may have besides takeover

Plain == [mode |-> "", fallback |-> "", memory |-> TRUE]

(* The command lines of the README, a rescue entry, a mode that            *)
(* pkg/cliinstall knows and that has no script, and an overlay             *)
(* installation.                                                           *)
Cmdlines ==
    { Plain, [Plain EXCEPT !.memory = FALSE] }
    \cup { [Plain EXCEPT !.fallback = m] : m \in {"install", "disk"} }
    \cup { [Plain EXCEPT !.mode = m] : m \in {"install", "shell", "live-server"} }

(* A disk install.sh has formatted, still to be grown; one without a       *)
(* partition of ours.                                                      *)
Formatted ==
    [labelled |-> TRUE, flags |-> {"growpart"}, foreign |-> {}, usrmerge |-> FALSE,
     init |-> "none", data |-> "none"]
Blank == [Formatted EXCEPT !.labelled = FALSE, !.flags = {}]

(* A foreign system install.sh --takeover was run on: its init is a link   *)
(* to systemd, or (found broken from the initrd) as good as none, or a     *)
(* program, as it is without systemd.                                      *)
TakenOver ==
    { [labelled |-> TRUE, flags |-> {"takeover"} \cup more, foreign |-> Foreign,
       usrmerge |-> um, init |-> i, data |-> "none"] :
        more \in SUBSET Markers, um \in BOOLEAN, i \in {"none", "link", "program"} }

AllDisks == TakenOver \cup {Formatted, Blank}
=============================================================================
