----------------------------- MODULE MCUpgrade -----------------------------
(* Small instances of Upgrade for TLC.                                     *)
EXTENDS Upgrade

CONSTANTS v1, v2, v3, edgi, k3s, kernel

OneComponent    == <<edgi>>
TwoComponents   == <<edgi, kernel>>
ThreeComponents == <<edgi, k3s, kernel>>

(* An image with one version of every component.                           *)
Image(v) == [k \in Key |-> v]

(* The plan's job: everything selected, --remount --sync --reboot.         *)
PlanJob(image) ==
    [source |-> image, want |-> Key, remount |-> TRUE, sync |-> TRUE, reboot |-> TRUE]

(* An operator's run: selected components, no switches.                    *)
ConsoleJob(image, keys) ==
    [source |-> image, want |-> keys, remount |-> FALSE, sync |-> FALSE, reboot |-> FALSE]

(* Three images.                                                           *)
ThreeImages ==
    { PlanJob(Image(v1)), PlanJob(Image(v2)), ConsoleJob(Image(v3), {edgi}) }

(* One image of everything, started again and again.                       *)
SameJob == { PlanJob(Image(v2)) }

(* The same, also without the reboot.                                      *)
SameImage == { [PlanJob(Image(v2)) EXCEPT !.reboot = r] : r \in BOOLEAN }

(* To and fro between two images.                                          *)
ToAndFroByHand == { [PlanJob(Image(v)) EXCEPT !.reboot = FALSE] : v \in {v1, v2} }

AllCalls == {"lock", "remount", "symlink", "tempdir", "copy", "moveaside",
             "swap", "rmprevious", "remember", "flip", "reboot"}
=============================================================================
