--------------------------- MODULE ConfigureProofs ---------------------------
(***************************************************************************)
(* Proofs about Configure, for any nodes, any number of operators, edits,  *)
(* failures and reboots: its types, and that commands find their files,    *)
(* that a node that is up is configured as its sources say, that k3s waits *)
(* for its configuration, and that authorised keys are kept.               *)
(***************************************************************************)
EXTENDS Configure, FiniteSetTheorems, TLAPS

Busy(p)    == run[p].step # "idle"
Past(p)    == run[p].step \notin {"idle", "read"}
Early      == {"initrd", "pivot", "boot", "net", "cloud"}
ByHand     == {"runtime", "install"}

(* A run is where its lists and its configuration let it be; that of the   *)
(* boot is at the node's stage, and runs by hand wait for a login.         *)
RunOK(p) ==
    /\ ~Busy(p) => run[p] = NoRun
    /\ Busy(p) =>
        /\ run[p].phase \in Phase /\ run[p].pos \in 1..Len(Appliers[run[p].phase])
        /\ IF p = "rc" THEN run[p].phase = stage /\ stage \in {"initrd", "boot", "runtime"}
           ELSE run[p].phase \in ByHand /\ stage \notin Early /\ touched
        /\ run[p].step = "read" => run[p].pos = 1 /\ run[p].key = 1
        /\ run[p].step \in {"truncate", "write"} => Applier(p) = "environment" /\ Wanted(p) # Nothing
        /\ run[p].step \in {"truncate", "write"} => run[p].read \subseteq Source
        /\ run[p].step \in {"extend", "replace"} => Applier(p) = "ssh"
        /\ run[p].step = "replace" => run[p].read \subseteq AllKeys
        /\ Past(p) /\ Applier(p) = "ssh" =>
               IF Wanted(p) # Nothing THEN run[p].key \in 1..Len(KeyList(p))
                                      ELSE run[p].step = "apply"

Runs == \A p \in Runner : RunOK(p)

(* A run that began alone is so until another begins; without runs by hand *)
(* the boot's is.                                                          *)
Alone ==
    /\ \A p, q \in Runner : p # q /\ Busy(p) /\ run[p].alone => ~Busy(q)
    /\ ~touched => run["rc"].alone

(* What an applier that has returned, or has got to its i-th key, has done *)
(* of configuration c.                                                     *)
InForce(k, c) ==
    /\ k \in Setting /\ c[k] # Nothing => c[k] \in set[k] \/ ByDHCP(k)
    /\ k = "dns" /\ c[k] = Nothing => set[k] = {}
    /\ k = "environment" /\ c[k] # Nothing => c[k] \in env

KeysInForce(c, n) == \A i \in 1..n : AuthorizedKeys[c["ssh"]][i] \in keys \cup forgone

Served(k, ph, c) ==
    k \notin missed =>
        /\ InForce(k, c)
        /\ k = "ssh" /\ ph = "runtime" /\ c[k] # Nothing => KeysInForce(c, Len(AuthorizedKeys[c[k]]))

Done(p) ==
    Past(p) /\ run[p].alone =>
        /\ \A i \in 1..(run[p].pos - 1) :
               Served(Appliers[run[p].phase][i], run[p].phase, run[p].config)
        /\ Applier(p) = "ssh" /\ "ssh" \notin missed /\ WithNet(p) /\ Wanted(p) # Nothing =>
               KeysInForce(run[p].config, run[p].key - 1)
        /\ run[p].step = "replace" => run[p].read = keys

(* Until the node is up no source is edited and none goes away: what the   *)
(* boot has set is in what the runtime phase reads.                        *)
Sources == {"system", "cmdline", local, "dropin"} \cup ({cloud} \ {"none"})

Says(k) == \E s \in Sources : s # "broken" /\ k \in node.says[s]

Lasting == {"hostname", "password"}

Sourced ==
    /\ stage \in Early => cloud = "none"
    /\ stage # "up" =>
        \A k \in Lasting :
            /\ set[k] \subseteq {"dhcp"} \/ Says(k)
            /\ \A p \in Runner : Past(p) /\ run[p].config[k] # Nothing => Says(k)

(* What the runtime phase has read, or the node that is up was told.       *)
Told == stage \in {"k3s", "up"} \/ (stage = "runtime" /\ Past("rc"))

Seen ==
    /\ Past("rc") => seen = run["rc"].config
    /\ Told /\ ~touched =>
        /\ \A k \in Lasting \ missed : seen[k] = Nothing => set[k] \subseteq {"dhcp"}
        /\ \A k \in Key \ missed :
               cloud = "cloud" /\ k \in node.says["cloud"] => seen[k] \in {"cloud", "dropin"}

K3sOnce ==
    /\ unit # Absent \/ k3s # Absent => node.mode # "install"
    /\ k3s # Absent => stage \notin Early
    /\ stage = "runtime" /\ ~touched => k3s = Absent
    /\ stage \in {"k3s", "up"} /\ ~touched /\ "k3s" \notin missed /\ node.mode # "install" =>
           k3s = seen["k3s"] /\ unit = seen["k3s"]

IInv ==
    /\ TypeOK /\ Runs /\ Alone /\ (\A p \in Runner : Done(p))
    /\ Sourced /\ Seen /\ ConfiguredWhenUp /\ K3sOnce

-----------------------------------------------------------------------------
(* The lists of appliers.                                                  *)

LEMMA Phases ==
    ASSUME NEW ph \in Phase
    PROVE  /\ ph \in {"initrd", "boot", "runtime", "install"}
           /\ Len(Appliers[ph]) \in Nat \ {0}
           /\ \A i \in 1..Len(Appliers[ph]) : Appliers[ph][i] \in Key \cup Commands
<1>0. ph \in {"initrd", "boot", "runtime", "install"}
  BY DEF Phase, Appliers
<1>1. CASE ph = "initrd"
  <2>1. Appliers[ph] = InitApply /\ Len(InitApply) = 6
    BY <1>1 DEF Appliers, InitApply
  <2>2. \A i \in 1..6 : InitApply[i] \in Key \cup Commands
    BY DEF InitApply, Key, Commands
  <2>3. QED
    BY <1>0, <2>1, <2>2
<1>2. CASE ph = "boot"
  <2>1. Appliers[ph] = BootApply /\ Len(BootApply) = 12
    BY <1>2 DEF Appliers, BootApply
  <2>2. \A i \in 1..12 : BootApply[i] \in Key \cup Commands
    BY DEF BootApply, Key, Commands
  <2>3. QED
    BY <1>0, <2>1, <2>2
<1>3. CASE ph = "runtime"
  <2>1. Appliers[ph] = RunApply /\ Len(RunApply) = 12
    BY <1>3 DEF Appliers, RunApply
  <2>2. \A i \in 1..12 : RunApply[i] \in Key \cup Commands
    BY DEF RunApply, Key, Commands
  <2>3. QED
    BY <1>0, <2>1, <2>2
<1>4. CASE ph = "install"
  <2>1. Appliers[ph] = InstallApply /\ Len(InstallApply) = 1
    BY <1>4 DEF Appliers, InstallApply
  <2>2. \A i \in 1..1 : InstallApply[i] \in Key \cup Commands
    BY DEF InstallApply, Key, Commands
  <2>3. QED
    BY <1>0, <2>1, <2>2
<1>5. QED
  BY <1>0, <1>1, <1>2, <1>3, <1>4

LEMMA OnceEach ==
    ASSUME NEW ph \in Phase, NEW i \in 1..Len(Appliers[ph]), NEW j \in 1..Len(Appliers[ph]),
           Appliers[ph][i] = Appliers[ph][j]
    PROVE  i = j
<1>1. CASE ph = "initrd"
  BY <1>1 DEF Appliers, InitApply
<1>2. CASE ph = "boot"
  BY <1>2 DEF Appliers, BootApply
<1>3. CASE ph = "runtime"
  BY <1>3 DEF Appliers, RunApply
<1>4. CASE ph = "install"
  BY <1>4 DEF Appliers, InstallApply
<1>5. QED
  BY <1>1, <1>2, <1>3, <1>4, Phases

(* Files and environment come before every command.                        *)
LEMMA CommandsLast ==
    ASSUME NEW ph \in Phase, NEW i \in 1..Len(Appliers[ph]), Appliers[ph][i] \in Commands
    PROVE  \A k \in {"write_files", "environment"} :
               \E j \in 1..(i - 1) : Appliers[ph][j] = k
<1>1. CASE ph = "initrd"
  <2>1. i = 6
    BY <1>1 DEF Appliers, InitApply, Commands
  <2>2. QED
    BY <1>1, <2>1 DEF Appliers, InitApply
<1>2. CASE ph = "boot"
  <2>1. i = 12
    BY <1>2 DEF Appliers, BootApply, Commands
  <2>2. 10 \in 1..(i - 1) /\ 11 \in 1..(i - 1)
    BY <2>1
  <2>3. QED
    BY <1>2, <2>2 DEF Appliers, BootApply
<1>3. CASE ph = "runtime"
  <2>1. i \in {10, 11}
    BY <1>3 DEF Appliers, RunApply, Commands
  <2>2. 8 \in 1..(i - 1) /\ 9 \in 1..(i - 1)
    BY <2>1
  <2>3. QED
    BY <1>3, <2>2 DEF Appliers, RunApply
<1>4. CASE ph = "install"
  BY <1>4 DEF Appliers, InstallApply, Commands
<1>5. QED
  BY <1>1, <1>2, <1>3, <1>4, Phases

(* Of the runtime phase k3s is the last applier, and all settings but the  *)
(* data sources come before it.                                            *)
LEMMA RuntimeAppliers ==
    /\ "runtime" \in Phase /\ Len(Appliers["runtime"]) = 12
    /\ \A i \in 1..12 : Appliers["runtime"][i] = "k3s" <=> i = 12
    /\ \A k \in (Setting \ {"data_sources"}) \cup {"environment", "ssh"} :
           \E i \in 1..11 : Appliers["runtime"][i] = k
<1>1. /\ "runtime" \in Phase /\ Len(Appliers["runtime"]) = 12
      /\ \A i \in 1..12 : Appliers["runtime"][i] = "k3s" <=> i = 12
  BY DEF Phase, Appliers, RunApply
<1>2. ASSUME NEW k \in (Setting \ {"data_sources"}) \cup {"environment", "ssh"}
      PROVE  \E i \in 1..11 : Appliers["runtime"][i] = k
  <2>1. k \in {"modules", "sysctls", "hostname", "dns", "password", "write_files", "wifi",
               "environment", "ssh"}
    BY DEF Setting, InKernel, InEtc, OnDisk
  <2>2. Appliers["runtime"] = RunApply
    BY DEF Appliers
  <2>3. /\ RunApply[1] = "modules" /\ RunApply[2] = "sysctls" /\ RunApply[3] = "hostname"
        /\ RunApply[4] = "dns" /\ RunApply[5] = "wifi" /\ RunApply[6] = "password"
        /\ RunApply[7] = "ssh" /\ RunApply[8] = "write_files" /\ RunApply[9] = "environment"
    BY DEF RunApply
  <2>4. QED
    BY <2>1, <2>2, <2>3
<1>3. QED
  BY <1>1, <1>2

LEMMA K3sAppliers ==
    ASSUME NEW ph \in Phase, NEW i \in 1..Len(Appliers[ph]), Appliers[ph][i] = "k3s"
    PROVE  ph \in {"boot", "runtime", "install"}
<1>1. \A j \in 1..6 : InitApply[j] # "k3s"
  BY DEF InitApply
<1>2. Appliers["initrd"] = InitApply /\ Len(InitApply) = 6
  BY DEF Appliers, InitApply
<1>3. QED
  BY <1>1, <1>2, Phases

-----------------------------------------------------------------------------
(* How a run goes on.                                                      *)

Stages == {"initrd", "pivot", "boot", "net", "cloud", "runtime", "k3s", "up"}

LEMMA NoRunType == NoRun \in RunType
BY AttemptsAssumption DEF NoRun, RunType, NoConfig, Value

LEMMA KeyLists ==
    ASSUME NEW s \in Source
    PROVE  /\ Len(AuthorizedKeys[s]) \in Nat \ {0}
           /\ \A i \in 1..Len(AuthorizedKeys[s]) : AuthorizedKeys[s][i] \in AllKeys
BY KeysAssumption

(* The run ends: that of the boot lets the node go on.                     *)
LEMMA EndIs ==
    ASSUME TypeOK, NEW p \in Runner, RunOK(p), Busy(p), Ends(p)
    PROVE  /\ run' \in [Runner -> RunType] /\ run'[p] = NoRun
           /\ \A q \in Runner \ {p} : run'[q] = run[q]
           /\ stage' \in Stages
           /\ IF p = "rc" THEN /\ stage = "initrd" => stage' = "pivot"
                               /\ stage = "boot" => stage' = "net"
                               /\ stage = "runtime" => stage' = "k3s"
              ELSE stage' = stage
BY NoRunType DEF TypeOK, RunOK, Ends, After, Stages

(* An applier returns: the next one is called, or the run ends.            *)
LEMMA ReturnIs ==
    ASSUME TypeOK, NEW p \in Runner, RunOK(p), Past(p), Return(p)
    PROVE  /\ run' \in [Runner -> RunType] /\ stage' \in Stages
           /\ \A q \in Runner \ {p} : run'[q] = run[q]
           /\ \/ /\ run[p].pos < Len(Appliers[run[p].phase]) /\ stage' = stage
                 /\ run'[p] = [run[p] EXCEPT !.pos = @ + 1, !.step = "apply", !.key = 1,
                                             !.read = {}, !.tries = 0]
              \/ run[p].pos = Len(Appliers[run[p].phase]) /\ Ends(p)
<1>1. CASE run[p].pos < Len(Appliers[run[p].phase])
  <2> DEFINE r == [run[p] EXCEPT !.pos = @ + 1, !.step = "apply", !.key = 1,
                                 !.read = {}, !.tries = 0]
  <2>1. run \in [Runner -> RunType] /\ run[p] \in RunType /\ stage \in Stages
    BY DEF TypeOK, Stages
  <2>2. r \in RunType
    <3>1. run[p].pos + 1 \in Nat /\ 0 \in 0..(Attempts - 1)
      BY <2>1, AttemptsAssumption DEF RunType
    <3>2. QED
      BY ONLY <2>1, <3>1 DEF RunType
  <2>3. run' = [run EXCEPT ![p] = r] /\ stage' = stage
    BY <1>1, <2>1 DEF Return, RunType
  <2> HIDE DEF r
  <2>4. run'[p] = r /\ run' \in [Runner -> RunType] /\ \A q \in Runner \ {p} : run'[q] = run[q]
    BY <2>1, <2>2, <2>3
  <2>5. QED
    BY <1>1, <2>1, <2>3, <2>4 DEF r
<1>2. CASE ~(run[p].pos < Len(Appliers[run[p].phase]))
  <2>1. Ends(p)
    BY <1>2 DEF Return
  <2>2. Busy(p)
    BY DEF Past, Busy
  <2>3. run[p].pos = Len(Appliers[run[p].phase])
    BY <1>2, <2>2, Phases DEF RunOK
  <2>4. QED
    BY <2>1, <2>2, <2>3, EndIs
<1>3. QED
  BY <1>1, <1>2

LEMMA NextKeyIs ==
    ASSUME TypeOK, NEW p \in Runner, RunOK(p), Past(p), NextKey(p),
           Applier(p) = "ssh", Wanted(p) # Nothing
    PROVE  /\ run' \in [Runner -> RunType] /\ stage' \in Stages
           /\ \A q \in Runner \ {p} : run'[q] = run[q]
           /\ \/ /\ run[p].key < Len(KeyList(p)) /\ stage' = stage
                 /\ run'[p] = [run[p] EXCEPT !.key = @ + 1, !.step = "apply", !.tries = 0]
              \/ run[p].key = Len(KeyList(p)) /\ Return(p)
<1>1. CASE run[p].key < Len(KeyList(p))
  <2> DEFINE r == [run[p] EXCEPT !.key = @ + 1, !.step = "apply", !.tries = 0]
  <2>1. run \in [Runner -> RunType] /\ run[p] \in RunType /\ stage \in Stages
    BY DEF TypeOK, Stages
  <2>2. r \in RunType
    <3>1. run[p].key + 1 \in Nat /\ 0 \in 0..(Attempts - 1)
      BY <2>1, AttemptsAssumption DEF RunType
    <3>2. QED
      BY ONLY <2>1, <3>1 DEF RunType
  <2>3. run' = [run EXCEPT ![p] = r] /\ stage' = stage
    BY <1>1, <2>1 DEF NextKey, RunType
  <2> HIDE DEF r
  <2>4. run'[p] = r /\ run' \in [Runner -> RunType] /\ \A q \in Runner \ {p} : run'[q] = run[q]
    BY <2>1, <2>2, <2>3
  <2>5. QED
    BY <1>1, <2>1, <2>3, <2>4 DEF r
<1>2. CASE ~(run[p].key < Len(KeyList(p)))
  <2>1. Return(p)
    BY <1>2 DEF NextKey
  <2>2. Len(KeyList(p)) \in Nat
    <3>1. Wanted(p) \in Source
      <4>1. Applier(p) \in Key
        BY DEF Key
      <4>2. QED
        BY <4>1 DEF TypeOK, RunType, Wanted, Value
    <3>2. QED
      BY <3>1, KeyLists DEF KeyList
  <2>3. run[p].key = Len(KeyList(p))
    BY <1>2, <2>2 DEF RunOK, Past, Busy
  <2>4. QED
    BY <2>1, <2>3, ReturnIs
<1>3. QED
  BY <1>1, <1>2

(* What an applier may be asked to make of its setting.                    *)
LEMMA PutTypes ==
    ASSUME TypeOK, NEW p \in Runner, RunOK(p), Past(p), Applier(p) \in Setting
    PROVE  /\ Wanted(p) \in Value /\ Put(p) \in [Setting -> SUBSET (Source \cup {"dhcp"})]
           /\ \A k \in Setting \ {"hostname"} : "dhcp" \notin Put(p)[k]
           /\ \A k \in Setting \ {Applier(p)} : Put(p)[k] = set[k]
           /\ Put(p)[Applier(p)] = IF Wanted(p) = Nothing THEN {}
                                  ELSE IF Applier(p) \in Adding
                                       THEN set[Applier(p)] \cup {Wanted(p)} ELSE {Wanted(p)}
           /\ \A k \in Setting \ Adding : Cardinality(Put(p)[k]) <= 1
<1>1. Applier(p) \in Key
  BY DEF Setting, InKernel, InEtc, OnDisk, Key
<1>2. Wanted(p) \in Value /\ (Wanted(p) # Nothing => Wanted(p) \in Source)
  BY <1>1 DEF TypeOK, RunType, Wanted, Value
<1>3. /\ Put(p) \in [Setting -> SUBSET (Source \cup {"dhcp"})]
      /\ \A k \in Setting \ {Applier(p)} : Put(p)[k] = set[k]
      /\ Put(p)[Applier(p)] = IF Wanted(p) = Nothing THEN {}
                             ELSE IF Applier(p) \in Adding
                                  THEN set[Applier(p)] \cup {Wanted(p)} ELSE {Wanted(p)}
  BY <1>2 DEF TypeOK, Put
<1>4. Cardinality({}) = 0 /\ Cardinality({Wanted(p)}) = 1
  BY FS_EmptySet, FS_Singleton
<1>5. ASSUME NEW k \in Setting \ Adding
      PROVE  Cardinality(Put(p)[k]) <= 1
  <2>1. Cardinality(set[k]) <= 1
    BY <1>5 DEF TypeOK
  <2>2. CASE k # Applier(p)
    BY <1>3, <1>5, <2>1, <2>2
  <2>3. CASE k = Applier(p)
    <3>1. Put(p)[k] = {} \/ Put(p)[k] = {Wanted(p)}
      BY <1>3, <1>5, <2>3
    <3>2. QED
      BY <1>4, <3>1
  <2>4. QED
    BY <2>2, <2>3
<1>6. ASSUME NEW k \in Setting \ {"hostname"}
      PROVE  "dhcp" \notin Put(p)[k]
  <2>1. "dhcp" \notin set[k] /\ "dhcp" \notin Source
    BY <1>6 DEF TypeOK, Source
  <2>2. QED
    BY <1>2, <1>3, <1>6, <2>1
<1>7. QED
  BY <1>2, <1>3, <1>5, <1>6

LEMMA LastOfFive ==
    ASSUME NEW S \in SUBSET (1..5), S # {}
    PROVE  \E i \in S : \A j \in S : j <= i
<1>1. CASE 5 \in S
  BY <1>1
<1>2. CASE 5 \notin S /\ 4 \in S
  BY <1>2
<1>3. CASE 5 \notin S /\ 4 \notin S /\ 3 \in S
  BY <1>3
<1>4. CASE 5 \notin S /\ 4 \notin S /\ 3 \notin S /\ 2 \in S
  BY <1>4
<1>5. CASE 5 \notin S /\ 4 \notin S /\ 3 \notin S /\ 2 \notin S
  <2>1. \A i \in S : i = 1
    BY <1>5
  <2>2. PICK m \in S : TRUE
    OBVIOUS
  <2>3. \A j \in S : j <= m
    BY <2>1
  <2>4. QED
    BY <2>3
<1>6. QED
  BY <1>1, <1>2, <1>3, <1>4, <1>5

(* What a key is set to: the last source that has it, if one has.          *)
LEMMA MergedIs ==
    ASSUME TypeOK, NEW ph \in Phase, "broken" \notin Readable(ph), NEW k \in Key
    PROVE  /\ Merged(ph)[k] \in Value
           /\ Merged(ph)[k] # Nothing =>
                  Merged(ph)[k] \in Readable(ph) /\ k \in node.says[Merged(ph)[k]]
           /\ Merged(ph)[k] = Nothing => \A s \in Readable(ph) : k \notin node.says[s]
           /\ "cloud" \in Readable(ph) /\ k \in node.says["cloud"] =>
                  Merged(ph)[k] \in {"cloud", "dropin"}
<1> DEFINE who == {i \in DOMAIN Order : Order[i] \in Readable(ph) /\ k \in node.says[Order[i]]}
<1>1. DOMAIN Order = 1..5
  BY DEF Order
<1>2. local \in {"local", "edited", "broken"} /\ cloud \in {"none", "cloud", "broken"}
  BY DEF TypeOK
<1>3. \A i \in 1..5 : Order[i] \in Readable(ph) => Order[i] \in Source
  BY <1>2 DEF Order, Source
<1>4. \A s \in Readable(ph) : \E i \in 1..5 : Order[i] = s
  BY <1>2 DEF Order, Readable
<1>5. Merged(ph)[k] = IF who = {} THEN Nothing
                      ELSE Order[CHOOSE i \in who : \A j \in who : j <= i]
  BY DEF Merged
<1>6. Nothing \notin Source
  BY DEF Nothing, Source
<1>7. CASE who = {}
  <2>1. Order[4] = "cloud" /\ 4 \in 1..5
    BY DEF Order
  <2>2. QED
    BY <1>1, <1>4, <1>5, <1>7, <2>1 DEF Value
<1>8. CASE who # {}
  <2>1. who \subseteq 1..5
    BY <1>1
  <2> HIDE DEF who
  <2>2. \E i \in who : \A j \in who : j <= i
    BY <1>8, <2>1, LastOfFive
  <2>3. PICK m \in who : m = (CHOOSE i \in who : \A j \in who : j <= i) /\ \A j \in who : j <= m
    BY <2>2
  <2>4. Merged(ph)[k] = Order[m]
    BY <1>5, <1>8, <2>3
  <2>5. m \in 1..5 /\ (4 \in who => m \in {4, 5})
    BY <2>1, <2>3
  <2>6. Order[4] = "cloud" /\ Order[5] = "dropin"
    BY DEF Order
  <2> USE DEF who
  <2>7. QED
    BY <1>1, <1>3, <1>6, <2>4, <2>5, <2>6 DEF Value
<1>9. QED
  BY <1>7, <1>8

LEMMA MergedType ==
    ASSUME TypeOK, NEW ph \in Phase, "broken" \notin Readable(ph)
    PROVE  Merged(ph) \in [Key -> Value]
BY MergedIs DEF Merged

(* Nothing has happened to a run but that it may no longer be alone.       *)
AsBefore(q) ==
    /\ ~Busy(q) => run'[q] = run[q]
    /\ run'[q].phase = run[q].phase /\ run'[q].step = run[q].step
    /\ run'[q].pos = run[q].pos /\ run'[q].key = run[q].key
    /\ run'[q].config = run[q].config /\ run'[q].read = run[q].read

(* A run begins: it is alone if no other is at work, and those that are    *)
(* are no longer.                                                          *)
LEMMA BeginIs ==
    ASSUME TypeOK, Runs, NEW p \in Runner, NEW phase \in Phase, Begin(p, phase)
    PROVE  /\ ~Busy(p) /\ run' \in [Runner -> RunType]
           /\ run'[p].phase = phase /\ run'[p].step = "read" /\ run'[p].pos = 1
           /\ run'[p].key = 1 /\ (run'[p].alone <=> \A r \in Runner : ~Busy(r))
           /\ \A q \in Runner \ {p} : AsBefore(q) /\ (Busy(q) => ~run'[q].alone)
<1>1. run \in [Runner -> RunType]
  BY DEF TypeOK
<1> DEFINE r == [NoRun EXCEPT !.phase = phase, !.step = "read",
                              !.alone = \A s \in Runner : run[s].step = "idle"]
<1>2. r \in RunType /\ r.phase = phase /\ r.step = "read" /\ r.pos = 1 /\ r.key = 1
      /\ (r.alone <=> \A s \in Runner : ~Busy(s))
  <2> DEFINE b == \A s \in Runner : run[s].step = "idle"
  <2>1. b \in BOOLEAN /\ (b <=> \A s \in Runner : ~Busy(s))
    BY DEF Busy
  <2>2. NoRun.pos = 1 /\ NoRun.key = 1
    BY DEF NoRun
  <2> HIDE DEF b
  <2>3. [NoRun EXCEPT !.phase = phase, !.step = "read", !.alone = b] \in RunType
    BY ONLY <2>1, NoRunType, phase \in Phase DEF RunType
  <2>4. QED
    BY <2>1, <2>2, <2>3, NoRunType DEF b, RunType
<1>3. \A q \in Runner : [run[q] EXCEPT !.alone = run[q].step = "idle"] \in RunType
  BY <1>1 DEF RunType
<1>4. run' = [q \in Runner |-> IF q = p THEN r
                              ELSE [run[q] EXCEPT !.alone = run[q].step = "idle"]]
  BY DEF Begin
<1>5. ~Busy(p)
  BY DEF Begin, Busy
<1> HIDE DEF r
<1>6. run' \in [Runner -> RunType]
  BY <1>2, <1>3, <1>4
<1>7. run'[p] = r
  BY <1>4
<1>8. ASSUME NEW q \in Runner \ {p}
      PROVE  AsBefore(q) /\ (Busy(q) => ~run'[q].alone)
  <2> DEFINE b == run[q].step = "idle"
  <2>1. run'[q] = [run[q] EXCEPT !.alone = b] /\ (b <=> ~Busy(q)) /\ b \in BOOLEAN
    BY <1>4 DEF Busy
  <2>2. ~Busy(q) => run[q] = NoRun /\ NoRun.alone = TRUE
    BY DEF Runs, RunOK, NoRun
  <2>3. run[q] \in RunType
    BY <1>1
  <2> HIDE DEF b
  <2>4. run'[q].alone = b
    BY <2>1, <2>3 DEF RunType
  <2>5. ~Busy(q) => run'[q] = run[q]
    BY <2>1, <2>2, <2>3 DEF RunType
  <2>6. QED
    BY <2>1, <2>3, <2>4, <2>5 DEF AsBefore, RunType
<1>9. QED
  BY <1>2, <1>5, <1>6, <1>7, <1>8

(* What a step makes of its own run.                                       *)
Changes(p, r) == run' = [run EXCEPT ![p] = r] /\ stage' = stage

Reads(p) ==
    /\ run[p].step = "read"
    /\ \/ Ends(p)
       \/ /\ "broken" \notin Readable(run[p].phase)
          /\ Changes(p, [run[p] EXCEPT !.step = "apply", !.config = Merged(run[p].phase)])

Works(p) ==
    \/ /\ At(p, "apply") /\ Applier(p) = "environment" /\ Wanted(p) # Nothing
       /\ Changes(p, [run[p] EXCEPT !.step = "truncate", !.read = env])
    \/ At(p, "truncate") /\ Changes(p, [run[p] EXCEPT !.step = "write"])
    \/ At(p, "apply") /\ Waits(p) /\ Changes(p, [run[p] EXCEPT !.step = "waiting"])
    \/ AtKey(p) /\ Changes(p, [run[p] EXCEPT !.step = "extend"])
    \/ /\ AtKey(p) /\ run[p].tries < Attempts - 1
       /\ Changes(p, [run[p] EXCEPT !.tries = @ + 1, !.step = "apply"])
    \/ At(p, "extend") /\ Changes(p, [run[p] EXCEPT !.step = "replace", !.read = keys])

Moves(p) ==
    \/ Reads(p)
    \/ Past(p) /\ Return(p)
    \/ Past(p) /\ Applier(p) = "ssh" /\ Wanted(p) # Nothing /\ NextKey(p)
    \/ Past(p) /\ Works(p)

LEMMA RunMoves ==
    ASSUME TypeOK, NEW p \in Runner, RunOK(p), RunStep(p)
    PROVE  Moves(p) /\ UNCHANGED <<node, local, edits, reboots, cloud, online, touched>>
<1>0. run \in [Runner -> RunType] /\ run[p] \in RunType
  BY DEF TypeOK
<1>1. UNCHANGED <<node, local, edits, reboots, cloud, online, touched>>
  BY DEF RunStep, Read, Apply, Wait, Execute, Fail, ReadEnvironment, TruncateEnvironment,
         WriteEnvironment, NoKeys, SkipKey, GetKey, RetryKey, ExtendKeys, ReplaceKeys,
         FailKey, InstallK3s, NoDownload, nodeVars, sysVars, history
<1> SUFFICES Moves(p)
  BY <1>1
<1> USE DEF Moves, Past, At, Ready
<1>2. CASE Read(p)
  BY <1>0, <1>2 DEF Read, Reads, Changes, RunType
<1>3. CASE Apply(p) \/ Execute(p) \/ Fail(p) \/ WriteEnvironment(p) \/ NoKeys(p)
           \/ InstallK3s(p) \/ NoDownload(p)
  BY <1>3 DEF Apply, Execute, Fail, WriteEnvironment, NoKeys, InstallK3s, NoDownload
<1>4. CASE ReadEnvironment(p)
  BY <1>0, <1>4 DEF ReadEnvironment, Works, Changes, RunType
<1>5. CASE TruncateEnvironment(p)
  BY <1>0, <1>5 DEF TruncateEnvironment, Works, Changes, RunType
<1>6. CASE SkipKey(p)
  BY <1>6 DEF SkipKey, AtKey
<1>7. CASE ReplaceKeys(p)
  BY <1>7 DEF ReplaceKeys, RunOK, Busy
<1>8. CASE GetKey(p)
  BY <1>0, <1>8 DEF GetKey, Works, AtKey, Changes, RunType
<1>9. CASE RetryKey(p)
  BY <1>0, <1>9 DEF RetryKey, Works, AtKey, Changes, RunType
<1>10. CASE ExtendKeys(p)
  BY <1>0, <1>10 DEF ExtendKeys, Works, Changes, RunType
<1>11. CASE Wait(p)
  BY <1>0, <1>11 DEF Wait, Works, Changes, RunType
<1>12. CASE FailKey(p)
  BY <1>12 DEF FailKey, AtKey, RunOK, Busy
<1>13. QED
  BY <1>2, <1>3, <1>4, <1>5, <1>6, <1>7, <1>8, <1>9, <1>10, <1>11, <1>12 DEF RunStep

-----------------------------------------------------------------------------
(* Runs are where they may be.                                             *)

LEMMA IdleOK ==
    ASSUME NEW p \in Runner, run'[p] = NoRun
    PROVE  RunOK(p)'
<1>1. NoRun.step = "idle"
  BY DEF NoRun
<1>2. ~Busy(p)'
  BY <1>1 DEF Busy
<1>3. QED
  BY <1>2 DEF RunOK

LEMMA StaysOK ==
    ASSUME NEW q \in Runner, RunOK(q), AsBefore(q),
           Busy(q) => IF q = "rc" THEN stage' = stage ELSE stage' \notin Early /\ touched'
    PROVE  RunOK(q)'
<1>1. CASE ~Busy(q)
  <2>1. run'[q] = NoRun
    BY <1>1 DEF RunOK, AsBefore
  <2>2. QED
    BY <2>1, IdleOK
<1>2. CASE Busy(q)
  BY <1>2 DEF RunOK, Busy, Past, Applier, Wanted, KeyList, AsBefore
<1>3. QED
  BY <1>1, <1>2

(* The step of a run keeps it in order.                                    *)
LEMMA ReturnOK ==
    ASSUME TypeOK, NEW p \in Runner, RunOK(p), Past(p), Return(p), touched' = touched
    PROVE  RunOK(p)'
<1>0. run[p] \in RunType /\ Busy(p) /\ run[p].pos \in Nat
  BY DEF TypeOK, RunType, Past, Busy
<1>1. CASE run[p].pos < Len(Appliers[run[p].phase]) /\ stage' = stage
           /\ run'[p] = [run[p] EXCEPT !.pos = @ + 1, !.step = "apply", !.key = 1,
                                       !.read = {}, !.tries = 0]
  <2>1. /\ run'[p].phase = run[p].phase /\ run'[p].pos = run[p].pos + 1 /\ run'[p].key = 1
        /\ run'[p].step = "apply" /\ run'[p].config = run[p].config
    BY <1>0, <1>1 DEF RunType
  <2>2. run'[p].pos \in 1..Len(Appliers[run'[p].phase]) /\ run[p].phase \in Phase
    BY <1>0, <1>1, <2>1, Phases DEF RunOK
  <2>3. Applier(p)' = "ssh" /\ Wanted(p)' # Nothing => 1 \in 1..Len(KeyList(p)')
    <3>1. SUFFICES ASSUME Applier(p)' = "ssh", Wanted(p)' # Nothing
                   PROVE  1 \in 1..Len(KeyList(p)')
      OBVIOUS
    <3>2. Wanted(p)' \in Source
      BY <1>0, <2>1, <3>1 DEF Wanted, RunType, Key, Value
    <3>3. QED
      BY <3>2, KeyLists DEF KeyList
  <2>4. QED
    BY <1>0, <1>1, <2>1, <2>2, <2>3 DEF RunOK, Busy, Past
<1>2. CASE Ends(p)
  BY <1>0, <1>2, EndIs, IdleOK
<1>3. QED
  BY <1>1, <1>2, ReturnIs

LEMMA MoveOK ==
    ASSUME TypeOK, NEW p \in Runner, RunOK(p), Moves(p), touched' = touched
    PROVE  /\ RunOK(p)' /\ run' \in [Runner -> RunType] /\ stage' \in Stages
           /\ \A q \in Runner \ {p} : run'[q] = run[q]
           /\ Busy(p) /\ (p # "rc" => stage' = stage)
           /\ p = "rc" => stage' # "up" /\ (stage' = "k3s" => stage = "runtime")
           /\ stage' # stage => Ends(p)
<1>0. run \in [Runner -> RunType] /\ run[p] \in RunType /\ stage \in Stages
  BY DEF TypeOK, Stages
<1>1. Busy(p)
  BY DEF Moves, Reads, Past, Busy
<1>2. CASE Ends(p)
  <2>1. RunOK(p)'
    BY <1>1, <1>2, EndIs, IdleOK
  <2>2. QED
    BY <1>1, <1>2, <2>1, EndIs DEF RunOK
<1>3. ASSUME NEW r \in RunType, Changes(p, r)
      PROVE  /\ run' \in [Runner -> RunType] /\ run'[p] = r
             /\ stage' = stage /\ \A q \in Runner \ {p} : run'[q] = run[q]
  BY <1>0, <1>3 DEF Changes
<1>4. p = "rc" => stage \in {"initrd", "boot", "runtime"}
  BY <1>1 DEF RunOK
<1>5. CASE Past(p) /\ Return(p)
  <2>1. RunOK(p)'
    BY <1>5, ReturnOK
  <2>2. Ends(p) \/ stage' = stage
    BY <1>5, ReturnIs
  <2>3. QED
    BY <1>1, <1>2, <1>4, <1>5, <2>1, <2>2, ReturnIs
<1>6. CASE Past(p) /\ Applier(p) = "ssh" /\ Wanted(p) # Nothing /\ NextKey(p)
  <2>1. CASE Return(p)
    BY <1>5, <1>6, <2>1
  <2>2. CASE run[p].key < Len(KeyList(p)) /\ stage' = stage
             /\ run'[p] = [run[p] EXCEPT !.key = @ + 1, !.step = "apply", !.tries = 0]
    <3>1. /\ run'[p].phase = run[p].phase /\ run'[p].pos = run[p].pos
          /\ run'[p].key = run[p].key + 1 /\ run'[p].step = "apply"
          /\ run'[p].config = run[p].config
      BY <1>0, <2>2 DEF RunType
    <3>2. Wanted(p) \in Source
      BY <1>0, <1>6 DEF Wanted, RunType, Key, Value
    <3>3. run'[p].key \in 1..Len(KeyList(p))
      BY <1>0, <2>2, <3>1, <3>2, KeyLists DEF KeyList, RunType
    <3>4. RunOK(p)'
      BY <1>1, <1>6, <2>2, <3>1, <3>3 DEF RunOK, Busy, Past, Applier, Wanted, KeyList
    <3>5. QED
      BY <1>1, <1>4, <1>6, <2>2, <3>4, NextKeyIs
  <2>3. QED
    BY <1>6, <2>1, <2>2, NextKeyIs
<1>7. CASE Reads(p)
  <2>1. CASE Ends(p)
    BY <1>2, <2>1
  <2>2. ASSUME "broken" \notin Readable(run[p].phase),
               Changes(p, [run[p] EXCEPT !.step = "apply", !.config = Merged(run[p].phase)])
        PROVE  /\ RunOK(p)' /\ run' \in [Runner -> RunType] /\ stage' = stage
               /\ \A q \in Runner \ {p} : run'[q] = run[q]
    <3> DEFINE r == [run[p] EXCEPT !.step = "apply", !.config = Merged(run[p].phase)]
    <3>1. run[p].phase \in Phase
      BY <1>1 DEF RunOK
    <3>2. Merged(run[p].phase) \in [Key -> Value]
      BY <2>2, <3>1, MergedType
    <3>3. r \in RunType /\ r.phase = run[p].phase /\ r.pos = run[p].pos /\ r.key = run[p].key
          /\ r.step = "apply"
      BY <1>0, <3>2 DEF RunType
    <3>4. run' \in [Runner -> RunType] /\ run'[p] = r
          /\ stage' = stage /\ \A q \in Runner \ {p} : run'[q] = run[q]
      BY <1>3, <2>2, <3>3
    <3> HIDE DEF r
    <3>5. r.key = 1 /\ r.pos = 1
      BY <1>1, <1>7, <3>3 DEF Reads, RunOK
    <3>6. Applier(p)' = "ssh" /\ Wanted(p)' # Nothing => 1 \in 1..Len(KeyList(p)')
      <4>1. SUFFICES ASSUME Applier(p)' = "ssh", Wanted(p)' # Nothing
                     PROVE  1 \in 1..Len(KeyList(p)')
        OBVIOUS
      <4>2. Wanted(p)' \in Source
        BY <3>3, <3>4, <4>1 DEF Wanted, RunType, Key, Value
      <4>3. QED
        BY <4>2, KeyLists DEF KeyList
    <3>7. RunOK(p)'
      BY <1>1, <3>3, <3>4, <3>5, <3>6 DEF RunOK, Busy, Past
    <3>8. QED
      BY <3>4, <3>7
  <2>3. QED
    BY <1>0, <1>1, <1>4, <1>7, <2>1, <2>2 DEF Reads
<1>8. CASE Past(p) /\ Works(p)
  <2>1. env \subseteq Source /\ keys \subseteq AllKeys
    BY DEF TypeOK
  <2>2. PICK r \in RunType :
            /\ Changes(p, r)
            /\ r.phase = run[p].phase /\ r.pos = run[p].pos /\ r.key = run[p].key
            /\ r.config = run[p].config
            /\ \/ r.step = "truncate" /\ Applier(p) = "environment" /\ Wanted(p) # Nothing
                  /\ r.read = env
               \/ At(p, "truncate") /\ r.step = "write" /\ r.read = run[p].read
               \/ AtKey(p) /\ r.step \in {"extend", "apply"}
               \/ At(p, "apply") /\ Waits(p) /\ r.step = "waiting"
               \/ At(p, "extend") /\ r.step = "replace" /\ r.read = keys
    <3>1. CASE /\ At(p, "apply") /\ Applier(p) = "environment" /\ Wanted(p) # Nothing
               /\ Changes(p, [run[p] EXCEPT !.step = "truncate", !.read = env])
      <4> DEFINE r == [run[p] EXCEPT !.step = "truncate", !.read = env]
      <4>1. /\ r \in RunType /\ r.phase = run[p].phase /\ r.pos = run[p].pos
            /\ r.key = run[p].key /\ r.config = run[p].config /\ r.step = "truncate"
            /\ r.read = env
        BY <1>0, <2>1 DEF RunType
      <4>2. QED
        BY <3>1, <4>1
    <3>2. CASE At(p, "truncate") /\ Changes(p, [run[p] EXCEPT !.step = "write"])
      <4> DEFINE r == [run[p] EXCEPT !.step = "write"]
      <4>1. /\ r \in RunType /\ r.phase = run[p].phase /\ r.pos = run[p].pos
            /\ r.key = run[p].key /\ r.config = run[p].config /\ r.step = "write"
            /\ r.read = run[p].read
        BY <1>0 DEF RunType
      <4>2. QED
        BY <3>2, <4>1
    <3>3. CASE AtKey(p) /\ Changes(p, [run[p] EXCEPT !.step = "extend"])
      <4> DEFINE r == [run[p] EXCEPT !.step = "extend"]
      <4>1. /\ r \in RunType /\ r.phase = run[p].phase /\ r.pos = run[p].pos
            /\ r.key = run[p].key /\ r.config = run[p].config /\ r.step = "extend"
        BY <1>0 DEF RunType
      <4>2. QED
        BY <3>3, <4>1
    <3>4. CASE /\ AtKey(p) /\ run[p].tries < Attempts - 1
               /\ Changes(p, [run[p] EXCEPT !.tries = @ + 1, !.step = "apply"])
      <4> DEFINE r == [run[p] EXCEPT !.tries = @ + 1, !.step = "apply"]
      <4>1. run[p].tries + 1 \in 0..(Attempts - 1)
        BY <1>0, <3>4, AttemptsAssumption DEF RunType
      <4>2. /\ r \in RunType /\ r.phase = run[p].phase /\ r.pos = run[p].pos
            /\ r.key = run[p].key /\ r.config = run[p].config /\ r.step = "apply"
        BY <1>0, <4>1 DEF RunType
      <4>3. QED
        BY <3>4, <4>2
    <3>5. CASE At(p, "extend") /\ Changes(p, [run[p] EXCEPT !.step = "replace", !.read = keys])
      <4> DEFINE r == [run[p] EXCEPT !.step = "replace", !.read = keys]
      <4>1. /\ r \in RunType /\ r.phase = run[p].phase /\ r.pos = run[p].pos
            /\ r.key = run[p].key /\ r.config = run[p].config /\ r.step = "replace"
            /\ r.read = keys
        BY <1>0, <2>1 DEF RunType
      <4>2. QED
        BY <3>5, <4>1
    <3>6. CASE At(p, "apply") /\ Waits(p) /\ Changes(p, [run[p] EXCEPT !.step = "waiting"])
      <4> DEFINE r == [run[p] EXCEPT !.step = "waiting"]
      <4>1. /\ r \in RunType /\ r.phase = run[p].phase /\ r.pos = run[p].pos
            /\ r.key = run[p].key /\ r.config = run[p].config /\ r.step = "waiting"
        BY <1>0 DEF RunType
      <4>2. QED
        BY <3>6, <4>1
    <3>7. QED
      BY <1>8, <3>1, <3>2, <3>3, <3>4, <3>5, <3>6 DEF Works
  <2>3. run' \in [Runner -> RunType] /\ run'[p] = r
        /\ stage' = stage /\ \A q \in Runner \ {p} : run'[q] = run[q]
    BY <1>3, <2>2
  <2>4. RunOK(p)'
    <3> USE DEF RunOK, Busy, Past, Applier, Wanted, KeyList
    <3>1. CASE r.step = "truncate" /\ Applier(p) = "environment" /\ Wanted(p) # Nothing
      BY <1>1, <2>1, <2>2, <2>3, <3>1
    <3>2. CASE At(p, "truncate") /\ r.step = "write" /\ r.read = run[p].read
      BY <1>1, <2>1, <2>2, <2>3, <3>2 DEF At
    <3>3. CASE AtKey(p) /\ r.step \in {"extend", "apply"}
      BY <1>1, <2>2, <2>3, <3>3 DEF At, AtKey, Ready
    <3>4. CASE At(p, "extend") /\ r.step = "replace" /\ r.read = keys
      BY <1>1, <2>1, <2>2, <2>3, <3>4 DEF At
    <3>5. CASE At(p, "apply") /\ Waits(p) /\ r.step = "waiting"
      <4>1. Applier(p) = "ssh" => Wanted(p) # Nothing
        BY <3>5 DEF Waits, Commands
      <4>2. QED
        BY <1>1, <2>2, <2>3, <3>5, <4>1 DEF At
    <3>6. QED
      BY <2>2, <3>1, <3>2, <3>3, <3>4, <3>5
  <2>5. QED
    BY <1>0, <1>1, <1>4, <2>3, <2>4
<1>9. QED
  BY <1>5, <1>6, <1>7, <1>8 DEF Moves

(* A run that has begun stays as alone as it was.                          *)
LEMMA MovesAlone ==
    ASSUME TypeOK, NEW p \in Runner, RunOK(p), Moves(p)
    PROVE  run'[p].alone = run[p].alone \/ run'[p] = NoRun
<1>0. run \in [Runner -> RunType] /\ run[p] \in RunType /\ Busy(p)
  BY DEF TypeOK, Moves, Reads, Past, Busy
<1>1. CASE Ends(p)
  BY <1>0, <1>1, EndIs
<1>2. CASE Past(p) /\ Return(p)
  BY <1>0, <1>1, <1>2, ReturnIs DEF RunType
<1>3. CASE Past(p) /\ Applier(p) = "ssh" /\ Wanted(p) # Nothing /\ NextKey(p)
  BY <1>0, <1>2, <1>3, NextKeyIs DEF RunType
<1>4. ASSUME NEW r, Changes(p, r)
      PROVE  run'[p] = r
  BY <1>0, <1>4 DEF Changes
<1>5. CASE Reads(p)
  BY <1>0, <1>1, <1>4, <1>5 DEF Reads, RunType
<1>6. CASE Works(p)
  BY <1>0, <1>4, <1>6 DEF Works, RunType
<1>7. QED
  BY <1>2, <1>3, <1>5, <1>6 DEF Moves

(* The steps of the node that leave the runs alone, and its end.           *)
Others ==
    \/ Pivot \/ NetOnline \/ CloudConfig \/ StartK3s \/ GoOnline \/ SupplyHostname
    \/ Edit \/ Flush

Down == Reboot \/ PowerLoss

LEMMA NextIs ==
    ASSUME [Next]_vars
    PROVE  \/ \E p \in Runner : RunStep(p)
           \/ BootBegins
           \/ \E p \in Operator : OperatorBegins(p)
           \/ Others
           \/ Down
           \/ UNCHANGED vars
BY DEF Next, BootStep, Others, Down, Runner

(* A setting is as it was, or it is the name and DHCP has supplied one.    *)
SetAsBefore == set' = set \/ set' = [set EXCEPT !["hostname"] = {"dhcp"}]

LEMMA OthersAre ==
    ASSUME TypeOK, Others
    PROVE  /\ UNCHANGED <<run, touched, seen, missed, forgone, keys, failures, reboots, node,
                          binary, unit>>
           /\ \/ stage' = stage
              \/ stage = "pivot" /\ stage' = "boot"
              \/ stage = "net" /\ stage' = "cloud"
              \/ stage = "cloud" /\ stage' = "runtime"
              \/ stage = "k3s" /\ stage' = "up"
           /\ stage # "pivot" => SetAsBefore /\ UNCHANGED env
           /\ stage' # stage /\ stage # "pivot" => UNCHANGED set
           /\ stage # "k3s" => UNCHANGED k3s
           /\ stage # "up" => UNCHANGED local
           /\ ~CloudConfig => UNCHANGED cloud
           /\ CloudConfig => stage = "cloud" /\ stage' = "runtime"
BY DEF Others, Pivot, NetOnline, CloudConfig, StartK3s, GoOnline, SupplyHostname, Edit, Flush,
       SetAsBefore, Unaltered, nodeVars, sysVars, k3sVars, history, TypeOK

LEMMA SetAsBeforeIs ==
    ASSUME TypeOK, SetAsBefore
    PROVE  /\ set' \in [Setting -> SUBSET (Source \cup {"dhcp"})]
           /\ \A k \in Setting : set'[k] = set[k] \/ (k = "hostname" /\ set'[k] = {"dhcp"})
BY DEF SetAsBefore, TypeOK

LEMMA DownIs ==
    ASSUME TypeOK, Down
    PROVE  /\ run' = [p \in Runner |-> NoRun] /\ stage' = "initrd" /\ cloud' = "none"
           /\ online' = FALSE /\ dirty' = FALSE /\ touched' = FALSE
           /\ env' = {} /\ unit' = Absent /\ k3s' = Absent
           /\ seen' = NoConfig /\ missed' = {} /\ forgone' = {}
           /\ UNCHANGED <<node, edits, failures>> /\ reboots' \in 0..MaxReboots
           /\ local' \in {local, "local"} /\ binary' \in {binary, node.binary}
           /\ keys' \subseteq keys
           /\ \E settings \in SUBSET OnDisk :
                  set' = [k \in Setting |-> IF k \in settings THEN set[k] ELSE {}]
<1>1. \E settings \in SUBSET OnDisk, left \in SUBSET keys, b \in {binary, node.binary} :
          StartsAnew(settings, left, b)
  BY DEF Down, Reboot, PowerLoss
<1>2. PICK settings \in SUBSET OnDisk, left \in SUBSET keys, b \in {binary, node.binary} :
          StartsAnew(settings, left, b)
  BY <1>1
<1>3. /\ run' = [p \in Runner |-> NoRun] /\ stage' = "initrd" /\ cloud' = "none"
      /\ online' = FALSE /\ dirty' = FALSE /\ touched' = FALSE
      /\ env' = {} /\ unit' = Absent /\ k3s' = Absent
      /\ seen' = NoConfig /\ missed' = {} /\ forgone' = {}
      /\ UNCHANGED <<node, edits, failures>> /\ reboots' \in 0..MaxReboots
      /\ local' \in {local, "local"} /\ binary' \in {binary, node.binary}
      /\ keys' \subseteq keys
  BY <1>2, BoundAssumption DEF StartsAnew, TypeOK
<1>4. \E t \in SUBSET OnDisk : set' = [k \in Setting |-> IF k \in t THEN set[k] ELSE {}]
  <2>1. set' = [k \in Setting |-> IF k \in settings THEN set[k] ELSE {}]
    BY <1>2 DEF StartsAnew
  <2> WITNESS settings \in SUBSET OnDisk
  <2>2. QED
    BY <2>1
<1>5. QED
  BY <1>3, <1>4

LEMMA RunsKept ==
    ASSUME TypeOK, Runs, [Next]_vars
    PROVE  Runs' /\ run' \in [Runner -> RunType] /\ stage' \in Stages
<1>0. run \in [Runner -> RunType] /\ stage \in Stages
  BY DEF TypeOK, Stages
<1>1. ASSUME NEW p \in Runner, RunStep(p)
      PROVE  Runs' /\ run' \in [Runner -> RunType] /\ stage' \in Stages
  <2>1. RunOK(p) /\ Moves(p) /\ touched' = touched
    BY <1>1, RunMoves DEF Runs
  <2>2. ASSUME NEW q \in Runner, q # p
        PROVE  RunOK(q)'
    <3>1. run'[q] = run[q] /\ RunOK(q)
      BY <2>1, <2>2, MoveOK DEF Runs
    <3>2. Busy(q) => IF q = "rc" THEN stage' = stage ELSE stage' \notin Early /\ touched'
      <4>1. CASE q = "rc"
        BY <2>1, <2>2, <4>1, MoveOK
      <4>2. CASE q # "rc" /\ Busy(q)
        <5>1. stage \notin Early /\ touched
          BY <3>1, <4>2 DEF RunOK
        <5>2. CASE stage' # stage
          <6>1. p = "rc" /\ Ends(p) /\ Busy(p)
            BY <2>1, <5>2, MoveOK
          <6>2. stage' = "k3s"
            BY <2>1, <5>1, <6>1, EndIs DEF RunOK, Early
          <6>3. QED
            BY <2>1, <4>2, <5>1, <6>2 DEF Early
        <5>3. QED
          BY <2>1, <4>2, <5>1, <5>2
      <4>3. QED
        BY <4>1, <4>2
    <3>3. QED
      BY <3>1, <3>2, StaysOK DEF AsBefore
  <2>3. QED
    BY <2>1, <2>2, MoveOK DEF Runs
<1>2. ASSUME NEW p \in Runner, NEW phase \in Phase, Begin(p, phase), stage' = stage,
             touched => touched',
             IF p = "rc" THEN phase = stage /\ stage \in {"initrd", "boot", "runtime"}
             ELSE phase \in ByHand /\ stage \notin Early /\ touched'
      PROVE  Runs' /\ run' \in [Runner -> RunType] /\ stage' \in Stages
  <2>1. RunOK(p)'
    BY <1>2, BeginIs, Phases DEF RunOK, Busy, Past
  <2>2. ASSUME NEW q \in Runner, q # p
        PROVE  RunOK(q)'
    <3>1. RunOK(q) /\ AsBefore(q)
      BY <1>2, <2>2, BeginIs DEF Runs
    <3>2. QED
      BY <1>2, <3>1, StaysOK DEF RunOK
  <2>3. QED
    BY <1>0, <1>2, <2>1, <2>2, BeginIs DEF Runs
<1>3. CASE BootBegins
  <2>1. stage \in Phase /\ stage \in {"initrd", "boot", "runtime"}
    BY <1>3 DEF BootBegins, Phase, Appliers
  <2>2. Begin("rc", stage) /\ stage' = stage /\ touched' = touched
    BY <1>3 DEF BootBegins, Begin
  <2>3. QED
    BY <1>2, <2>1, <2>2 DEF Runner
<1>4. ASSUME NEW p \in Operator, OperatorBegins(p)
      PROVE  Runs' /\ run' \in [Runner -> RunType] /\ stage' \in Stages
  <2>1. PICK phase \in ByHand : Begin(p, phase)
    BY <1>4 DEF OperatorBegins, ByHand
  <2>2. phase \in Phase /\ p \in Runner /\ p # "rc"
    BY <2>1, OperatorAssumption DEF ByHand, Phase, Appliers, Runner
  <2>3. stage \notin Early /\ touched' /\ stage' = stage
    BY <1>4, <2>1 DEF OperatorBegins, Begin, Early
  <2>4. QED
    BY <1>2, <2>1, <2>2, <2>3
<1>5. CASE Others
  <2>1. UNCHANGED <<run, touched>> /\ (stage' = stage
           \/ (stage \in {"pivot", "net", "cloud", "k3s"} /\ stage' \in Stages
               /\ (stage \notin Early => stage' \notin Early)))
    BY <1>0, <1>5, OthersAre DEF Early, Stages
  <2>2. ASSUME NEW q \in Runner
        PROVE  RunOK(q)'
    <3>1. RunOK(q) /\ AsBefore(q)
      BY <2>1 DEF Runs, AsBefore
    <3>2. QED
      BY <2>1, <3>1, StaysOK DEF RunOK
  <2>3. QED
    BY <1>0, <2>1, <2>2 DEF Runs
<1>6. CASE Down
  <2>1. run' = [p \in Runner |-> NoRun] /\ stage' = "initrd"
    BY <1>6, DownIs
  <2>2. QED
    BY <2>1, IdleOK, NoRunType DEF Runs, Stages
<1>7. CASE UNCHANGED vars
  <2>1. UNCHANGED <<run, stage, touched>>
    BY <1>7 DEF vars, history
  <2>2. ASSUME NEW q \in Runner
        PROVE  RunOK(q)'
    BY <2>1, StaysOK DEF Runs, AsBefore, RunOK
  <2>3. QED
    BY <1>0, <2>1, <2>2 DEF Runs
<1>8. QED
  BY <1>1, <1>3, <1>4, <1>5, <1>6, <1>7, NextIs

LEMMA AloneKept ==
    ASSUME TypeOK, Runs, Alone, [Next]_vars
    PROVE  Alone'
<1>0. run \in [Runner -> RunType]
  BY DEF TypeOK
<1>1. ASSUME NEW p \in Runner, RunStep(p)
      PROVE  Alone'
  <2>1. RunOK(p) /\ Moves(p) /\ touched' = touched
    BY <1>1, RunMoves DEF Runs
  <2>2. (\A q \in Runner \ {p} : run'[q] = run[q]) /\ Busy(p)
    BY <2>1, MoveOK
  <2>3. run'[p].alone = run[p].alone \/ run'[p] = NoRun
    BY <2>1, MovesAlone
  <2>4. NoRun.alone = TRUE /\ NoRun.step = "idle"
    BY DEF NoRun
  <2>5. "rc" \in Runner
    BY DEF Runner
  <2>6. QED
    BY <2>1, <2>2, <2>3, <2>4, <2>5 DEF Alone, Busy
<1>2. ASSUME NEW p \in Runner, NEW phase \in Phase, Begin(p, phase),
             IF p = "rc" THEN touched' = touched ELSE touched'
      PROVE  Alone'
  <2>1. /\ ~Busy(p) /\ run'[p].step = "read" /\ (run'[p].alone <=> \A r \in Runner : ~Busy(r))
        /\ \A q \in Runner \ {p} : run'[q].step = run[q].step /\ (Busy(q) => ~run'[q].alone)
    BY <1>2, BeginIs DEF AsBefore
  <2>2. ASSUME ~touched'
        PROVE  run'["rc"].alone
    <3>1. p = "rc" /\ ~touched
      BY <1>2, <2>2
    <3>2. \A q \in Runner \ {p} : ~Busy(q)
      BY <3>1 DEF Runs, RunOK
    <3>3. QED
      BY <2>1, <3>1, <3>2
  <2>3. QED
    BY <2>1, <2>2 DEF Alone, Busy
<1>3. CASE BootBegins
  <2>1. stage \in Phase /\ "rc" \in Runner
    BY <1>3 DEF BootBegins, Phase, Appliers, Runner
  <2>2. Begin("rc", stage) /\ touched' = touched
    BY <1>3 DEF BootBegins
  <2>3. QED
    BY <1>2, <2>1, <2>2
<1>4. ASSUME NEW p \in Operator, OperatorBegins(p)
      PROVE  Alone'
  BY <1>2, <1>4, OperatorAssumption DEF OperatorBegins, Phase, Appliers, Runner
<1>5. CASE Others \/ UNCHANGED vars
  BY <1>5, OthersAre DEF Alone, Busy, vars, history
<1>6. CASE Down
  <2>1. run' = [p \in Runner |-> NoRun]
    BY <1>6, DownIs
  <2>2. QED
    BY <2>1 DEF Alone, Busy, NoRun, Runner
<1>7. QED
  BY <1>1, <1>3, <1>4, <1>5, <1>6, NextIs

-----------------------------------------------------------------------------
(* What a run does to the rest of the node.                                *)

LEMMA MissedIs ==
    ASSUME TypeOK, NEW p \in Runner, RunStep(p)
    PROVE  /\ missed \subseteq missed' /\ missed' \subseteq Key
           /\ Past(p) => missed' \subseteq missed \cup {Applier(p)}
           /\ ~Past(p) => missed' = missed \/ (Ends(p) /\ missed' = Key)
           /\ forgone \subseteq forgone' /\ failures' \in 0..MaxFailures
<1>0. missed \subseteq Key /\ failures \in 0..MaxFailures /\ {"ssh", "k3s"} \subseteq Key
  BY DEF TypeOK, Key
<1>1. CASE Read(p)
  BY <1>0, <1>1 DEF Read, Past
<1>2. CASE Fail(p)
  <2>1. missed' = missed \cup ({Applier(p)} \cap Key) /\ Past(p) /\ forgone' = forgone
    BY <1>2 DEF Fail, Past, At, history
  <2>2. failures' \in 0..MaxFailures
    BY <1>0, <1>2, BoundAssumption DEF Fail
  <2>3. QED
    BY <1>0, <2>1, <2>2
<1>3. CASE RetryKey(p)
  BY <1>0, <1>3 DEF RetryKey
<1>4. CASE NoDownload(p)
  BY <1>0, <1>4 DEF NoDownload, At, Past, history
<1>5. CASE \/ Apply(p) \/ Wait(p) \/ Execute(p) \/ ReadEnvironment(p)
           \/ TruncateEnvironment(p) \/ WriteEnvironment(p) \/ NoKeys(p) \/ SkipKey(p)
           \/ GetKey(p) \/ ExtendKeys(p) \/ ReplaceKeys(p) \/ InstallK3s(p)
  <2>1. missed' = missed /\ failures' = failures /\ forgone' = forgone
    BY <1>5 DEF Apply, Wait, Execute, ReadEnvironment, TruncateEnvironment, WriteEnvironment,
                NoKeys, SkipKey, GetKey, ExtendKeys, ReplaceKeys, InstallK3s, history
  <2>2. QED
    BY <1>0, <2>1
<1>6. CASE FailKey(p)
  <2>1. missed' = missed /\ forgone' = forgone \cup {ThisKey(p)}
    BY <1>6 DEF FailKey
  <2>2. failures' \in 0..MaxFailures
    BY <1>0, <1>6, BoundAssumption DEF FailKey
  <2>3. QED
    BY <1>0, <2>1, <2>2
<1>7. QED
  BY <1>1, <1>2, <1>3, <1>4, <1>5, <1>6 DEF RunStep

(* What is forgone is the key a run is at.                                 *)
LEMMA ForgoneIs ==
    ASSUME NEW p \in Runner, RunOK(p), RunStep(p)
    PROVE  \/ forgone' = forgone
           \/ /\ Past(p) /\ Applier(p) = "ssh" /\ Wanted(p) # Nothing
              /\ forgone' = forgone \cup {ThisKey(p)}
<1>1. CASE RetryKey(p) \/ FailKey(p)
  BY <1>1 DEF RetryKey, FailKey, AtKey, Ready, RunOK, At, Past, Busy
<1>2. CASE ~(RetryKey(p) \/ FailKey(p))
  BY <1>2 DEF RunStep, Read, Apply, Wait, Execute, Fail, ReadEnvironment, TruncateEnvironment,
              WriteEnvironment, NoKeys, SkipKey, GetKey, ExtendKeys, ReplaceKeys, InstallK3s,
              NoDownload, history
<1>3. QED
  BY <1>1, <1>2

(* A setting is changed by its applier only, and a key to what it says.    *)
LEMMA SetIs ==
    ASSUME NEW p \in Runner, RunStep(p)
    PROVE  \/ set' = set
           \/ /\ Past(p) /\ Applier(p) \in Setting /\ set' = Put(p)
              /\ Wanted(p) # Nothing \/ Applier(p) = "dns"
<1>1. CASE Apply(p)
  BY <1>1 DEF Apply, At, Past
<1>2. CASE Fail(p)
  BY <1>2 DEF Fail, Past
<1>3. CASE \/ Read(p) \/ Wait(p) \/ Execute(p) \/ ReadEnvironment(p)
           \/ TruncateEnvironment(p) \/ WriteEnvironment(p) \/ NoKeys(p) \/ SkipKey(p)
           \/ GetKey(p) \/ RetryKey(p) \/ ExtendKeys(p) \/ ReplaceKeys(p) \/ FailKey(p)
           \/ InstallK3s(p) \/ NoDownload(p)
  BY <1>3 DEF Read, Wait, Execute, ReadEnvironment, TruncateEnvironment, WriteEnvironment,
              NoKeys, SkipKey, GetKey, RetryKey, ExtendKeys, ReplaceKeys, FailKey, InstallK3s,
              NoDownload
<1>4. QED
  BY <1>1, <1>2, <1>3 DEF RunStep

LEMMA EnvIs ==
    ASSUME NEW p \in Runner, RunOK(p), RunStep(p)
    PROVE  \/ env' = env
           \/ /\ Past(p) /\ Applier(p) = "environment" /\ Wanted(p) # Nothing
              /\ env' = {} \/ (At(p, "write") /\ env' = run[p].read \cup {Wanted(p)})
<1>1. CASE TruncateEnvironment(p) \/ WriteEnvironment(p)
  BY <1>1 DEF TruncateEnvironment, WriteEnvironment, RunOK, At, Past, Busy
<1>2. CASE \/ Read(p) \/ Apply(p) \/ Wait(p) \/ Execute(p) \/ Fail(p)
           \/ ReadEnvironment(p) \/ NoKeys(p) \/ SkipKey(p) \/ GetKey(p) \/ RetryKey(p)
           \/ ExtendKeys(p) \/ ReplaceKeys(p) \/ FailKey(p) \/ InstallK3s(p) \/ NoDownload(p)
  BY <1>2 DEF Read, Apply, Wait, Execute, Fail, ReadEnvironment, NoKeys, SkipKey, GetKey,
              RetryKey, ExtendKeys, ReplaceKeys, FailKey, InstallK3s, NoDownload
<1>3. QED
  BY <1>1, <1>2 DEF RunStep

LEMMA KeysAre ==
    ASSUME NEW p \in Runner, RunOK(p), RunStep(p)
    PROVE  \/ keys' = keys
           \/ /\ At(p, "replace") /\ Applier(p) = "ssh" /\ Wanted(p) # Nothing
              /\ keys' = run[p].read \cup {ThisKey(p)}
<1>1. CASE ReplaceKeys(p) \/ FailKey(p)
  BY <1>1 DEF ReplaceKeys, FailKey, Replace, RunOK, At, Past, Busy
<1>2. CASE \/ Read(p) \/ Apply(p) \/ Wait(p) \/ Execute(p) \/ Fail(p)
           \/ ReadEnvironment(p) \/ TruncateEnvironment(p) \/ WriteEnvironment(p)
           \/ NoKeys(p) \/ SkipKey(p) \/ GetKey(p) \/ RetryKey(p) \/ ExtendKeys(p)
           \/ InstallK3s(p) \/ NoDownload(p)
  BY <1>2 DEF Read, Apply, Wait, Execute, Fail, ReadEnvironment, TruncateEnvironment,
              WriteEnvironment, NoKeys, SkipKey, GetKey, RetryKey, ExtendKeys, InstallK3s,
              NoDownload
<1>3. QED
  BY <1>1, <1>2 DEF RunStep

LEMMA K3sIs ==
    ASSUME NEW p \in Runner, RunStep(p)
    PROVE  \/ UNCHANGED k3sVars
           \/ /\ Past(p) /\ Applier(p) = "k3s" /\ ~SkipsK3s(p) /\ Return(p)
              /\ unit' = Wanted(p) /\ k3s' = (IF Restarts(p) THEN Wanted(p) ELSE k3s)
              /\ binary' \in {binary, "usrlocal"}
<1>1. CASE InstallK3s(p)
  BY <1>1 DEF InstallK3s, Ready, At, Past
<1>2. CASE \/ Read(p) \/ Apply(p) \/ Wait(p) \/ Execute(p) \/ Fail(p)
           \/ ReadEnvironment(p) \/ TruncateEnvironment(p) \/ WriteEnvironment(p)
           \/ NoKeys(p) \/ SkipKey(p) \/ GetKey(p) \/ RetryKey(p) \/ ExtendKeys(p)
           \/ ReplaceKeys(p) \/ FailKey(p) \/ NoDownload(p)
  BY <1>2 DEF Read, Apply, Wait, Execute, Fail, ReadEnvironment, TruncateEnvironment,
              WriteEnvironment, NoKeys, SkipKey, GetKey, RetryKey, ExtendKeys, ReplaceKeys,
              FailKey, NoDownload
<1>3. QED
  BY <1>1, <1>2 DEF RunStep

LEMMA SeenIs ==
    ASSUME NEW p \in Runner, RunStep(p)
    PROVE  \/ seen' = seen
           \/ /\ p = "rc" /\ run["rc"].step = "read" /\ "broken" \notin Readable(run[p].phase)
              /\ seen' = Merged(run[p].phase)
<1>1. CASE Read(p)
  BY <1>1 DEF Read
<1>2. CASE ~Read(p)
  BY <1>2 DEF RunStep, Apply, Wait, Execute, Fail, ReadEnvironment, TruncateEnvironment,
              WriteEnvironment, NoKeys, SkipKey, GetKey, RetryKey, ExtendKeys, ReplaceKeys,
              FailKey, InstallK3s, NoDownload, history
<1>3. QED
  BY <1>1, <1>2

LEMMA DirtyIs ==
    ASSUME NEW p \in Runner, RunStep(p)
    PROVE  dirty' \in {dirty, TRUE}
<1>1. CASE ReplaceKeys(p) \/ FailKey(p)
  BY <1>1 DEF ReplaceKeys, FailKey, Replace
<1>2. CASE ~(ReplaceKeys(p) \/ FailKey(p))
  BY <1>2 DEF RunStep, Read, Apply, Wait, Execute, Fail, ReadEnvironment, TruncateEnvironment,
              WriteEnvironment, NoKeys, SkipKey, GetKey, RetryKey, ExtendKeys, InstallK3s,
              NoDownload, nodeVars
<1>3. QED
  BY <1>1, <1>2

-----------------------------------------------------------------------------
LEMMA InitIInv ==
    ASSUME Init
    PROVE  IInv
<1>1. /\ node \in NodeType /\ run = [p \in Runner |-> NoRun] /\ stage = "initrd"
      /\ set = [k \in Setting |-> {}] /\ keys = {} /\ env = {} /\ missed = {}
      /\ forgone = {} /\ dirty = FALSE
      /\ unit = Absent /\ k3s = Absent /\ seen = NoConfig /\ touched = FALSE
  BY NodesAssumption DEF Init
<1>2. /\ binary \in {"sbin", "usrlocal", "none"} /\ local = "local" /\ cloud = "none"
      /\ online = FALSE /\ edits = 0 /\ failures = 0 /\ reboots = 0
  BY NodesAssumption DEF Init, NodeType
<1>3. run \in [Runner -> RunType]
  BY <1>1, NoRunType
<1>4. TypeOK
  <2>1. \A k \in Setting \ Adding : Cardinality(set[k]) <= 1
    BY <1>1, FS_EmptySet
  <2>2. seen \in [Key -> Value] /\ set \in [Setting -> SUBSET (Source \cup {"dhcp"})]
    BY <1>1 DEF NoConfig, Value
  <2>3. edits \in 0..MaxEdits /\ failures \in 0..MaxFailures /\ reboots \in 0..MaxReboots
    BY <1>2, BoundAssumption
  <2>4. QED
    BY <1>1, <1>2, <1>3, <2>1, <2>2, <2>3 DEF TypeOK
<1>5. \A p \in Runner : ~Busy(p) /\ run[p] = NoRun /\ run[p].alone = TRUE
  BY <1>1 DEF Busy, NoRun
<1>6. "rc" \in Runner /\ \A p \in Runner : ~Past(p)
  BY <1>5 DEF Past, Busy, Runner
<1>7. Runs /\ Alone /\ \A p \in Runner : Done(p)
  BY <1>5, <1>6 DEF Runs, RunOK, Alone, Done, Past
<1>8. Lasting \subseteq Setting
  BY DEF Lasting, Setting, InKernel, InEtc
<1>9. Sourced /\ Seen /\ ConfiguredWhenUp /\ K3sOnce
  BY <1>1, <1>2, <1>6, <1>8 DEF Sourced, Seen, Told, ConfiguredWhenUp, K3sOnce, Early
<1>10. QED
  BY <1>4, <1>7, <1>9 DEF IInv

(* The key a run is at is one of its list.                                 *)
LEMMA ThisKeyIs ==
    ASSUME TypeOK, NEW p \in Runner, RunOK(p), Past(p), Applier(p) = "ssh", Wanted(p) # Nothing
    PROVE  /\ Wanted(p) \in Source /\ Len(KeyList(p)) \in Nat \ {0}
           /\ run[p].key \in 1..Len(KeyList(p)) /\ ThisKey(p) \in AllKeys
<1>1. Wanted(p) \in Source
  BY DEF TypeOK, RunType, Wanted, Key, Value
<1>2. run[p].key \in 1..Len(KeyList(p))
  BY DEF RunOK, Past, Busy
<1>3. QED
  BY <1>1, <1>2, KeyLists DEF KeyList, ThisKey

LEMMA TypesKept ==
    ASSUME TypeOK, Runs, [Next]_vars
    PROVE  TypeOK'
<1>0. run' \in [Runner -> RunType] /\ stage' \in Stages
  BY RunsKept
<1> DEFINE Data ==
        /\ node' \in NodeType /\ binary' \in {"sbin", "usrlocal", "none"}
        /\ local' \in {"local", "edited", "broken"}
        /\ cloud' \in {"none", "cloud", "broken"}
        /\ online' \in BOOLEAN /\ touched' \in BOOLEAN /\ dirty' \in BOOLEAN
        /\ set' \in [Setting -> SUBSET (Source \cup {"dhcp"})]
        /\ \A k \in Setting \ Adding : Cardinality(set'[k]) <= 1
        /\ \A k \in Setting \ {"hostname"} : "dhcp" \notin set'[k]
        /\ env' \subseteq Source /\ keys' \subseteq AllKeys /\ forgone' \subseteq AllKeys
        /\ unit' \in Value \cup {Absent} /\ k3s' \in Value \cup {Absent}
        /\ seen' \in [Key -> Value] /\ missed' \subseteq Key
        /\ edits' \in 0..MaxEdits /\ failures' \in 0..MaxFailures /\ reboots' \in 0..MaxReboots
<1> SUFFICES Data
  BY <1>0 DEF TypeOK, Stages
<1>1. ASSUME NEW p \in Runner, RunStep(p)
      PROVE  Data
  <2>0. RunOK(p) /\ run[p] \in RunType
    BY DEF Runs, TypeOK
  <2>1. UNCHANGED <<node, local, edits, reboots, cloud, online, touched>> /\ Moves(p)
    BY <1>1, <2>0, RunMoves
  <2>2. missed' \subseteq Key /\ failures' \in 0..MaxFailures
    BY <1>1, MissedIs
  <2>3. /\ set' \in [Setting -> SUBSET (Source \cup {"dhcp"})]
        /\ \A k \in Setting \ Adding : Cardinality(set'[k]) <= 1
        /\ \A k \in Setting \ {"hostname"} : "dhcp" \notin set'[k]
    <3>1. CASE set' = set
      BY <3>1 DEF TypeOK
    <3>2. CASE Past(p) /\ Applier(p) \in Setting /\ set' = Put(p)
      BY <2>0, <3>2, PutTypes
    <3>3. QED
      BY <1>1, <3>1, <3>2, SetIs
  <2>4. env' \subseteq Source
    <3>1. env \subseteq Source
      BY DEF TypeOK
    <3>2. CASE Past(p) /\ Applier(p) = "environment" /\ Wanted(p) # Nothing
               /\ At(p, "write") /\ env' = run[p].read \cup {Wanted(p)}
      <4>1. Wanted(p) \in Source
        BY <2>0, <3>2 DEF RunType, Wanted, Key, Value
      <4>2. run[p].read \subseteq Source
        BY <2>0, <3>2 DEF RunOK, At, Busy
      <4>3. QED
        BY <3>2, <4>1, <4>2
    <3>3. QED
      BY <1>1, <2>0, <3>1, <3>2, EnvIs
  <2>5. keys' \subseteq AllKeys
    <3>1. keys \subseteq AllKeys
      BY DEF TypeOK
    <3>2. CASE /\ At(p, "replace") /\ Applier(p) = "ssh" /\ Wanted(p) # Nothing
               /\ keys' = run[p].read \cup {ThisKey(p)}
      <4>1. ThisKey(p) \in AllKeys /\ run[p].read \subseteq AllKeys
        BY <2>0, <3>2, ThisKeyIs DEF RunOK, At, Past, Busy
      <4>2. QED
        BY <3>2, <4>1
    <3>3. QED
      BY <1>1, <2>0, <3>1, <3>2, KeysAre
  <2>6. /\ unit' \in Value \cup {Absent} /\ k3s' \in Value \cup {Absent}
        /\ binary' \in {"sbin", "usrlocal", "none"}
    <3>1. CASE UNCHANGED k3sVars
      BY <3>1 DEF k3sVars, TypeOK
    <3>2. CASE /\ Applier(p) = "k3s" /\ unit' = Wanted(p) /\ k3s' \in {Wanted(p), k3s}
               /\ binary' \in {binary, "usrlocal"}
      <4>1. Wanted(p) \in Value
        BY <2>0, <3>2 DEF RunType, Wanted, Key
      <4>2. QED
        BY <3>2, <4>1 DEF TypeOK
    <3>3. QED
      BY <1>1, <3>1, <3>2, K3sIs
  <2>7. seen' \in [Key -> Value]
    <3>1. seen \in [Key -> Value]
      BY DEF TypeOK
    <3>2. run[p].step = "read" => run[p].phase \in Phase
      BY <2>0 DEF RunOK, Busy
    <3>3. QED
      BY <1>1, <3>1, <3>2, SeenIs, MergedType
  <2>8. forgone' \subseteq AllKeys
    BY <1>1, <2>0, ForgoneIs, ThisKeyIs DEF TypeOK
  <2>9. dirty' \in BOOLEAN
    BY <1>1, DirtyIs DEF TypeOK
  <2>10. QED
    BY <2>1, <2>2, <2>3, <2>4, <2>5, <2>6, <2>7, <2>8, <2>9 DEF TypeOK
<1>2. CASE BootBegins \/ \E p \in Operator : OperatorBegins(p)
  BY <1>2 DEF BootBegins, OperatorBegins, Begin, TypeOK, nodeVars, sysVars, k3sVars
<1>3. CASE Others
  <2>1. UNCHANGED <<touched, seen, missed, forgone, keys, failures, reboots, node, binary, unit>>
    BY <1>3, OthersAre
  <2>2. /\ set' \in [Setting -> SUBSET (Source \cup {"dhcp"})] /\ env' \subseteq Source
        /\ \A k \in Setting \ Adding : Cardinality(set'[k]) <= 1
        /\ \A k \in Setting \ {"hostname"} : "dhcp" \notin set'[k]
    <3>1. CASE SetAsBefore /\ UNCHANGED env
      <4>1. Cardinality({"dhcp"}) = 1
        BY FS_Singleton
      <4>2. QED
        BY <3>1, <4>1, SetAsBeforeIs DEF TypeOK
    <3>2. CASE set' = [k \in Setting |-> IF k \in InEtc THEN {} ELSE set[k]] /\ env' = {}
      BY <3>2, FS_EmptySet DEF TypeOK
    <3>3. QED
      BY <1>3, <3>1, <3>2, OthersAre DEF Others, Pivot, NetOnline, CloudConfig, StartK3s,
                              GoOnline, SupplyHostname, Edit, Flush, Unaltered, SetAsBefore
  <2>3. CASE Edit
    BY <2>1, <2>2, <2>3, BoundAssumption DEF Edit, k3sVars, sysVars, TypeOK
  <2>4. CASE ~Edit
    <3>1. /\ UNCHANGED <<local, edits>> /\ cloud' \in {cloud, "cloud", "broken"}
          /\ online' \in {online, TRUE} /\ k3s' \in {k3s, unit} /\ dirty' \in {dirty, FALSE}
      BY <1>3, <2>4 DEF Others, Pivot, NetOnline, CloudConfig, StartK3s, GoOnline,
                        SupplyHostname, Flush, Unaltered, nodeVars, sysVars, k3sVars
    <3>2. QED
      BY <2>1, <2>2, <3>1 DEF TypeOK
  <2>5. QED
    BY <2>3, <2>4
<1>4. CASE Down
  <2>1. PICK settings \in SUBSET OnDisk :
            set' = [k \in Setting |-> IF k \in settings THEN set[k] ELSE {}]
    BY <1>4, DownIs
  <2>2. /\ set' \in [Setting -> SUBSET (Source \cup {"dhcp"})]
        /\ \A k \in Setting \ Adding : Cardinality(set'[k]) <= 1
        /\ \A k \in Setting \ {"hostname"} : "dhcp" \notin set'[k]
    BY <2>1, FS_EmptySet DEF TypeOK
  <2>3. seen' \in [Key -> Value]
    BY <1>4, DownIs DEF NoConfig, Value
  <2>4. node.binary \in {"sbin", "usrlocal", "none"}
    BY DEF TypeOK, NodeType
  <2>5. QED
    BY <1>4, <2>2, <2>3, <2>4, DownIs DEF TypeOK
<1>5. CASE UNCHANGED vars
  BY <1>5 DEF TypeOK, vars, nodeVars, sysVars, k3sVars, history
<1> HIDE DEF Data
<1>6. QED
  BY <1>1, <1>2, <1>3, <1>4, <1>5, NextIs

-----------------------------------------------------------------------------
(* What the appliers that have returned have done stays done.              *)

(* What the applier a run is at has done when it returns.                  *)
ServedNow(p) ==
    Applier(p) \notin missed' =>
        /\ Applier(p) \in Setting /\ Wanted(p) # Nothing => Wanted(p) \in set'[Applier(p)]
        /\ Applier(p) = "dns" /\ Wanted(p) = Nothing => set'[Applier(p)] = {}
        /\ Applier(p) = "environment" /\ Wanted(p) # Nothing => Wanted(p) \in env'
        /\ Applier(p) = "ssh" /\ WithNet(p) /\ Wanted(p) # Nothing =>
               \A i \in 1..Len(KeyList(p)) : KeyList(p)[i] \in keys' \cup forgone'

KeysNow(p) ==
    "ssh" \notin missed' /\ WithNet(p) =>
        \A i \in 1..run[p].key : KeyList(p)[i] \in keys' \cup forgone'

LEMMA NotOthers ==
    ASSUME NEW p \in Runner
    PROVE  /\ Applier(p) = "ssh" => Applier(p) \notin Setting
           /\ Applier(p) = "environment" => Applier(p) \notin Setting
           /\ Applier(p) = "k3s" => Applier(p) \notin Setting
           /\ Applier(p) \in Commands =>
                  Applier(p) \notin Setting /\ Applier(p) \notin {"environment", "ssh", "k3s"}
           /\ "dns" \in Setting
BY DEF Setting, InKernel, InEtc, OnDisk, Commands

(* One more key is there, or given up.                                     *)
LEMMA Gives ==
    ASSUME TypeOK, NEW p \in Runner, RunOK(p), Done(p), run[p].alone, Past(p),
           Applier(p) = "ssh", Wanted(p) # Nothing, missed' = missed,
           keys \subseteq keys', forgone \subseteq forgone',
           ThisKey(p) \in keys' \cup forgone'
    PROVE  KeysNow(p)
<1>0. run[p].key \in Nat
  BY DEF TypeOK, RunType
<1>1. ASSUME "ssh" \notin missed, WithNet(p), NEW i \in 1..run[p].key
      PROVE  KeyList(p)[i] \in keys' \cup forgone'
  <2>1. \A j \in 1..(run[p].key - 1) : KeyList(p)[j] \in keys \cup forgone
    BY <1>1 DEF Done, KeysInForce, KeyList, Wanted
  <2>2. i = run[p].key \/ i \in 1..(run[p].key - 1)
    BY <1>0, <1>1
  <2>3. QED
    BY <2>1, <2>2 DEF ThisKey
<1>2. QED
  BY <1>1 DEF KeysNow

(* Each step that returns has served its key, and each that goes on to the *)
(* next of a list of keys the key it was at.                               *)
LEMMA Serves ==
    ASSUME TypeOK, NEW p \in Runner, RunOK(p), Done(p), run[p].alone, RunStep(p), Past(p)
    PROVE  \/ Return(p) /\ ServedNow(p)
           \/ Applier(p) = "ssh" /\ Wanted(p) # Nothing /\ NextKey(p) /\ KeysNow(p)
           \/ Works(p) /\ (At(p, "extend") => UNCHANGED keys)
<1>0. /\ run \in [Runner -> RunType] /\ run[p] \in RunType /\ ~At(p, "read")
      /\ run[p].phase \in Phase /\ run[p].pos \in 1..Len(Appliers[run[p].phase])
  BY DEF TypeOK, Past, At, RunOK, Busy
<1>1. CASE Apply(p)
  <2>1. CASE Wanted(p) = Nothing /\ Applier(p) # "dns"
    BY <1>1, <2>1, NotOthers DEF Apply, ServedNow
  <2>2. CASE ~(Wanted(p) = Nothing /\ Applier(p) # "dns")
    BY <1>1, <2>2, NotOthers, PutTypes DEF Apply, ServedNow
  <2>3. QED
    BY <2>1, <2>2
<1>2. CASE Execute(p)
  BY <1>2, NotOthers DEF Execute, ServedNow
<1>3. CASE Fail(p)
  <2>1. Applier(p) \in Key => Applier(p) \in missed'
    BY <1>3 DEF Fail
  <2>2. Applier(p) \in Key \cup Commands
    BY <1>0, Phases DEF Applier
  <2>3. "ssh" \in Key /\ "environment" \in Key /\ "dns" \in Key
    BY DEF Key
  <2>4. QED
    BY <1>3, <2>1, <2>2, <2>3, NotOthers DEF Fail, ServedNow
<1>4. CASE ReadEnvironment(p)
  <2>1. CASE Wanted(p) = Nothing
    BY <1>4, <2>1, NotOthers DEF ReadEnvironment, ServedNow
  <2>2. CASE Wanted(p) # Nothing
    BY <1>0, <1>4, <2>2 DEF ReadEnvironment, Works, Changes, RunType, At
  <2>3. QED
    BY <2>1, <2>2
<1>5. CASE TruncateEnvironment(p)
  BY <1>0, <1>5 DEF TruncateEnvironment, Works, Changes, RunType, At
<1>6. CASE WriteEnvironment(p)
  BY <1>6, NotOthers DEF WriteEnvironment, ServedNow, RunOK, At, Past, Busy
<1>7. CASE NoKeys(p)
  BY <1>7, NotOthers DEF NoKeys, ServedNow
<1>8. CASE SkipKey(p)
  BY <1>8 DEF SkipKey, KeysNow, AtKey
<1>9. CASE GetKey(p)
  BY <1>0, <1>9 DEF GetKey, Works, AtKey, Ready, Changes, RunType, At
<1>10. CASE RetryKey(p)
  <2>1. CASE run[p].tries < Attempts - 1
    BY <1>0, <1>10, <2>1 DEF RetryKey, Works, AtKey, Ready, Changes, RunType, At
  <2>2. CASE ~(run[p].tries < Attempts - 1)
    <3>1. /\ Applier(p) = "ssh" /\ Wanted(p) # Nothing /\ NextKey(p)
          /\ forgone' = forgone \cup {ThisKey(p)} /\ UNCHANGED <<keys, missed>>
      BY <1>10, <2>2 DEF RetryKey, AtKey
    <3>2. QED
      BY <3>1, Gives
  <2>3. QED
    BY <2>1, <2>2
<1>11. CASE ExtendKeys(p)
  BY <1>0, <1>11 DEF ExtendKeys, Works, Changes, RunType, At
<1>12. CASE ReplaceKeys(p)
  <2>1. run[p].step = "replace" /\ run[p].read = keys /\ Applier(p) = "ssh"
        /\ Wanted(p) # Nothing /\ UNCHANGED <<missed, forgone>>
    BY <1>12 DEF ReplaceKeys, Done, RunOK, At, Past, Busy, history
  <2>2. keys' = keys \cup {ThisKey(p)} /\ NextKey(p)
    BY <1>12, <2>1 DEF ReplaceKeys, Replace
  <2>3. QED
    BY <2>1, <2>2, Gives
<1>13. CASE InstallK3s(p)
  BY <1>13, NotOthers DEF InstallK3s, ServedNow
<1>14. CASE NoDownload(p)
  BY <1>14, NotOthers DEF NoDownload, ServedNow
<1>15. CASE Read(p)
  BY <1>0, <1>15 DEF Read, At
<1>16. CASE Wait(p)
  BY <1>0, <1>16 DEF Wait, Works, Changes, RunType, At
<1>17. CASE FailKey(p)
  <2>1. /\ Applier(p) = "ssh" /\ Wanted(p) # Nothing /\ NextKey(p) /\ missed' = missed
        /\ forgone' = forgone \cup {ThisKey(p)}
    BY <1>17 DEF FailKey, AtKey, RunOK, At, Past, Busy
  <2>2. keys \subseteq keys'
    BY <1>17 DEF FailKey, Replace, Done, At, Past
  <2>3. QED
    BY <2>1, <2>2, Gives
<1>18. QED
  BY <1>1, <1>2, <1>3, <1>4, <1>5, <1>6, <1>7, <1>8, <1>9, <1>10, <1>11, <1>12, <1>13,
     <1>14, <1>15, <1>16, <1>17 DEF RunStep

(* The appliers before the one a run is at are left alone.                 *)
LEMMA ServedStays ==
    ASSUME TypeOK, NEW p \in Runner, RunOK(p), Done(p), run[p].alone, RunStep(p), Past(p),
           NEW i \in 1..(run[p].pos - 1), run'[p].phase = run[p].phase,
           run'[p].config = run[p].config
    PROVE  Served(Appliers[run[p].phase][i], run[p].phase, run[p].config)'
<1>0. /\ run[p].phase \in Phase /\ run[p].pos \in 1..Len(Appliers[run[p].phase])
      /\ run[p].pos \in Nat
  BY DEF TypeOK, RunType, RunOK, Past, Busy
<1>1. PICK k : k = Appliers[run[p].phase][i]
  OBVIOUS
<1>2. k # Applier(p)
  <2>1. i \in 1..Len(Appliers[run[p].phase]) /\ i # run[p].pos
    BY <1>0, Phases
  <2>2. QED
    BY <1>0, <1>1, <2>1, OnceEach DEF Applier
<1>3. Served(k, run[p].phase, run[p].config)
  BY <1>1 DEF Done
<1>4. missed \subseteq missed'
  BY MissedIs
<1>5. k \in Setting => set'[k] = set[k]
  <2>1. CASE set' = set
    BY <2>1
  <2>2. CASE Applier(p) \in Setting /\ set' = Put(p)
    BY <1>2, <2>2, PutTypes
  <2>3. QED
    BY <2>1, <2>2, SetIs
<1>6. k = "environment" => env' = env
  BY <1>2, EnvIs
<1>7. k = "ssh" => keys' = keys /\ forgone \subseteq forgone'
  BY <1>2, KeysAre, MissedIs
<1>8. "dns" \in Setting
  BY NotOthers
<1>9. Served(k, run[p].phase, run[p].config)'
  BY <1>3, <1>4, <1>5, <1>6, <1>7, <1>8 DEF Served, InForce, ByDHCP, KeysInForce
<1>10. QED
  BY <1>1, <1>9

(* The run that moves.                                                     *)
LEMMA DoneMoves ==
    ASSUME TypeOK, NEW p \in Runner, RunOK(p), Done(p), RunStep(p)
    PROVE  Done(p)'
<1>0. /\ run \in [Runner -> RunType] /\ run[p] \in RunType /\ Moves(p)
      /\ run[p].pos \in Nat /\ run[p].key \in Nat /\ NoRun.step = "idle"
  BY RunMoves DEF TypeOK, RunType, NoRun
<1>1. CASE run'[p] = NoRun
  BY <1>0, <1>1 DEF Done, Past
<1>2. CASE ~Past(p) /\ run'[p] # NoRun
  <2>1. run[p].step = "read" /\ run[p].pos = 1 /\ run[p].key = 1 /\ RunStep(p)
    BY <1>0, <1>2 DEF Moves, Reads, RunOK, Busy
  <2>2. run'[p].pos = 1 /\ run'[p].key = 1 /\ run'[p].step = "apply"
    <3>1. ~Ends(p)
      BY <1>0, <1>2, EndIs DEF Moves, Reads, Busy
    <3>2. Changes(p, [run[p] EXCEPT !.step = "apply", !.config = Merged(run[p].phase)])
      BY <1>0, <1>2, <3>1 DEF Moves, Reads
    <3>3. QED
      BY <1>0, <2>1, <3>2 DEF Changes, RunType
  <2>3. 1..(1 - 1) = {}
    OBVIOUS
  <2>4. QED
    BY <2>2, <2>3 DEF Done, KeysInForce
<1>3. CASE Past(p) /\ run'[p] # NoRun /\ ~run[p].alone
  BY <1>0, <1>3, MovesAlone DEF Done
<1>4. CASE Past(p) /\ run'[p] # NoRun /\ run[p].alone
  <2> DEFINE Before == run'[p].phase = run[p].phase /\ run'[p].config = run[p].config =>
                 \A i \in 1..(run[p].pos - 1) :
                     Served(Appliers[run[p].phase][i], run[p].phase, run[p].config)'
  <2>1. Before
    BY <1>4, ServedStays
  <2> HIDE DEF Before
  <2>2. "ssh" \in Key /\ missed \subseteq missed' /\ {"ssh", "environment", "dns"} \subseteq Key
        /\ "dns" \in Setting
    BY MissedIs, NotOthers DEF Key
  <2>3. CASE Return(p) /\ ServedNow(p)
    <3>1. /\ run[p].pos < Len(Appliers[run[p].phase])
          /\ run'[p] = [run[p] EXCEPT !.pos = @ + 1, !.step = "apply", !.key = 1,
                                      !.read = {}, !.tries = 0]
      BY <1>4, <2>3, ReturnIs, EndIs DEF Past, Busy
    <3>2. /\ run'[p].phase = run[p].phase /\ run'[p].config = run[p].config
          /\ run'[p].pos = run[p].pos + 1 /\ run'[p].key = 1 /\ run'[p].step = "apply"
      BY <1>0, <3>1 DEF RunType
    <3>3. ASSUME NEW i \in 1..(run'[p].pos - 1)
          PROVE  Served(Appliers[run[p].phase][i], run[p].phase, run[p].config)'
      <4>1. CASE i = run[p].pos
        BY <2>2, <2>3, <3>2, <4>1 DEF ServedNow, Served, InForce, ByDHCP, KeysInForce, Applier,
                                       Wanted, WithNet, KeyList
      <4>2. CASE i # run[p].pos
        <5>1. i \in 1..(run[p].pos - 1)
          BY <1>0, <3>2, <4>2
        <5>2. QED
          BY <2>1, <3>2, <5>1 DEF Before
      <4>3. QED
        BY <4>1, <4>2
    <3>4. KeysInForce(run[p].config, run[p].key - 1)'
      <4>1. 1..(1 - 1) = {}
        OBVIOUS
      <4>2. QED
        BY <3>2, <4>1 DEF KeysInForce
    <3>5. QED
      BY <3>2, <3>3, <3>4 DEF Done
  <2>4. CASE Applier(p) = "ssh" /\ Wanted(p) # Nothing /\ NextKey(p) /\ KeysNow(p)
    <3>1. CASE Return(p) /\ run[p].key = Len(KeyList(p))
      <4>1. ServedNow(p)
        BY <2>4, <3>1, NotOthers DEF ServedNow, KeysNow
      <4>2. QED
        BY <2>3, <3>1, <4>1
    <3>2. CASE run'[p] = [run[p] EXCEPT !.key = @ + 1, !.step = "apply", !.tries = 0]
      <4>1. /\ run'[p].phase = run[p].phase /\ run'[p].config = run[p].config
            /\ run'[p].pos = run[p].pos /\ run'[p].key - 1 = run[p].key /\ run'[p].step = "apply"
        BY <1>0, <3>2 DEF RunType
      <4>2. "ssh" \notin missed' /\ WithNet(p) => KeysInForce(run[p].config, run[p].key - 1)'
        BY <2>4, <4>1 DEF KeysNow, KeysInForce, KeyList, Wanted
      <4>3. QED
        BY <2>1, <4>1, <4>2 DEF Done, Before, WithNet
    <3>3. QED
      BY <1>4, <2>4, <3>1, <3>2, NextKeyIs
  <2>5. CASE Works(p) /\ (At(p, "extend") => UNCHANGED keys)
    <3>0. ASSUME NEW r, Changes(p, r)
          PROVE  run'[p] = r
      BY <1>0, <3>0 DEF Changes
    <3>1. /\ run'[p].phase = run[p].phase /\ run'[p].config = run[p].config
          /\ run'[p].pos = run[p].pos /\ run'[p].key = run[p].key
      BY <1>0, <2>5, <3>0 DEF Works, RunType
    <3>2. run'[p].step = "replace" => run'[p].read = keys
      <4>1. CASE At(p, "extend")
        BY <1>0, <2>5, <3>0, <4>1 DEF Works, AtKey, Ready, At, RunType
      <4>2. CASE ~At(p, "extend")
        BY <1>0, <2>5, <3>0, <4>2 DEF Works, AtKey, Ready, At, RunType
      <4>3. QED
        BY <4>1, <4>2
    <3>3. ~At(p, "replace")
      BY <2>5 DEF Works, AtKey, Ready, At
    <3>4. keys' = keys /\ forgone \subseteq forgone'
      BY <3>3, KeysAre, MissedIs
    <3>5. QED
      BY <1>4, <2>1, <2>2, <3>1, <3>2, <3>4 DEF Done, Before, Past, Applier, Wanted, WithNet, KeysInForce
  <2>6. QED
    BY <1>4, <2>3, <2>4, <2>5, Serves
<1>5. QED
  BY <1>1, <1>2, <1>3, <1>4

LEMMA DoneKept ==
    ASSUME TypeOK, Runs, Alone, \A q \in Runner : Done(q), [Next]_vars, NEW p \in Runner
    PROVE  Done(p)'
<1>0. run \in [Runner -> RunType]
  BY DEF TypeOK
<1>1. ASSUME NEW q \in Runner, RunStep(q)
      PROVE  Done(p)'
  <2>1. RunOK(q) /\ Moves(q) /\ Busy(q)
    BY <1>1, RunMoves, MoveOK DEF Runs
  <2>2. CASE q = p
    BY <1>1, <2>1, <2>2, DoneMoves
  <2>3. CASE q # p
    <3>1. run'[p] = run[p]
      BY <1>1, <2>1, <2>3, MoveOK, RunMoves
    <3>2. ~(Busy(p) /\ run[p].alone)
      BY <2>1, <2>3 DEF Alone
    <3>3. QED
      BY <3>1, <3>2 DEF Done, Past, Busy
  <2>4. QED
    BY <2>2, <2>3
<1>2. ASSUME NEW q \in Runner, NEW phase \in Phase, Begin(q, phase)
      PROVE  Done(p)'
  <2>1. CASE p = q
    BY <1>2, <2>1, BeginIs DEF Done, Past
  <2>2. CASE p # q
    <3>1. AsBefore(p) /\ (Busy(p) => ~run'[p].alone)
      BY <1>2, <2>2, BeginIs
    <3>2. QED
      BY <3>1 DEF AsBefore, Done, Past, Busy
  <2>3. QED
    BY <2>1, <2>2
<1>3. CASE BootBegins \/ \E q \in Operator : OperatorBegins(q)
  BY <1>2, <1>3 DEF BootBegins, OperatorBegins, Phase, Appliers, Runner
<1>4. CASE Others
  <2>1. CASE stage = "pivot"
    <3>1. ~Busy(p) /\ run' = run
      BY <1>4, <2>1, OthersAre DEF Runs, RunOK, Early
    <3>2. QED
      BY <3>1 DEF Done, Past, Busy
  <2>2. CASE stage # "pivot"
    <3>1. UNCHANGED <<run, env, keys, missed, forgone>> /\ SetAsBefore /\ "dns" \in Setting
      BY <1>4, <2>2, OthersAre, NotOthers
    <3>2. \A k \in Setting : set'[k] = set[k] \/ (k = "hostname" /\ set'[k] = {"dhcp"})
      BY <3>1, SetAsBeforeIs
    <3>3. ASSUME NEW k, NEW ph, NEW c, Served(k, ph, c)
          PROVE  Served(k, ph, c)'
      BY <3>1, <3>2, <3>3 DEF Served, InForce, ByDHCP, KeysInForce
    <3>4. QED
      BY <3>1, <3>3 DEF Done, Past, KeysInForce, Applier, Wanted, WithNet
  <2>3. QED
    BY <2>1, <2>2
<1>5. CASE Down
  <2>1. run' = [q \in Runner |-> NoRun]
    BY <1>5, DownIs
  <2>2. QED
    BY <2>1 DEF Done, Past, NoRun
<1>6. CASE UNCHANGED vars
  <2>1. UNCHANGED <<run, set, env, keys, missed, forgone>>
    BY <1>6 DEF vars, history
  <2>2. QED
    BY <2>1 DEF Done, Past, Served, InForce, ByDHCP, KeysInForce, Applier, Wanted, WithNet
<1>7. QED
  BY <1>1, <1>3, <1>4, <1>5, <1>6, NextIs

-----------------------------------------------------------------------------
(* What the boot has read, and what it has made of the node.               *)

LEMMA ConfigIs ==
    ASSUME TypeOK, NEW p \in Runner, RunOK(p), Moves(p)
    PROVE  \/ run'[p] = NoRun
           \/ Past(p) /\ run'[p].config = run[p].config
           \/ ~Past(p) /\ "broken" \notin Readable(run[p].phase)
              /\ run'[p].config = Merged(run[p].phase)
<1>0. run \in [Runner -> RunType] /\ run[p] \in RunType /\ Busy(p)
  BY DEF TypeOK, Moves, Reads, Past, Busy
<1>1. CASE Ends(p)
  BY <1>0, <1>1, EndIs
<1>2. CASE Past(p) /\ Return(p)
  BY <1>0, <1>1, <1>2, ReturnIs DEF RunType
<1>3. CASE Past(p) /\ Applier(p) = "ssh" /\ Wanted(p) # Nothing /\ NextKey(p)
  BY <1>0, <1>2, <1>3, NextKeyIs DEF RunType
<1>4. ASSUME NEW r, Changes(p, r)
      PROVE  run'[p] = r
  BY <1>0, <1>4 DEF Changes
<1>5. CASE Reads(p)
  BY <1>0, <1>1, <1>4, <1>5 DEF Reads, RunType, Past
<1>6. CASE Past(p) /\ Works(p)
  BY <1>0, <1>4, <1>6 DEF Works, RunType
<1>7. QED
  BY <1>2, <1>3, <1>5, <1>6 DEF Moves

LEMMA LastingIs ==
    /\ Lasting \subseteq Key /\ Lasting \subseteq Setting
    /\ \A k \in Lasting : k \notin Adding /\ k \notin OnDisk /\ k # "dns"
BY DEF Lasting, Key, Setting, InKernel, InEtc, OnDisk, Adding

LEMMA ReadablesSay ==
    ASSUME TypeOK, NEW ph \in Phase, "broken" \notin Readable(ph), NEW k \in Key
    PROVE  /\ Merged(ph)[k] # Nothing => Says(k)
           /\ Merged("runtime")[k] = Nothing /\ ph = "runtime" => ~Says(k)
<1>1. Readable(ph) \subseteq Sources
  BY DEF Readable, Sources
<1>2. ph = "runtime" => Readable(ph) = Sources
  BY DEF Readable, Sources
<1>3. QED
  BY <1>1, <1>2, MergedIs DEF Says

(* No source goes away but by a reboot, or by hand once the node is up.    *)
LEMMA SaysStays ==
    ASSUME UNCHANGED <<node, local>>, cloud # "none" => cloud' = cloud, NEW k \in Key, Says(k)
    PROVE  Says(k)'
BY DEF Says, Sources

LEMMA SourcedKept ==
    ASSUME TypeOK, Runs, Sourced, [Next]_vars
    PROVE  Sourced'
<1>0. run \in [Runner -> RunType]
  BY DEF TypeOK
<1>1. ASSUME NEW p \in Runner, RunStep(p)
      PROVE  Sourced'
  <2>1. RunOK(p) /\ Moves(p) /\ Busy(p) /\ UNCHANGED <<node, local, cloud, touched>>
    BY <1>1, RunMoves, MoveOK DEF Runs
  <2>2. (stage' # "up" => stage # "up") /\ (stage' \in Early => stage \in Early)
    BY <2>1, EndIs, MoveOK DEF RunOK, Early
  <2>3. \A q \in Runner \ {p} : run'[q] = run[q]
    BY <2>1, MoveOK
  <2>4. ASSUME stage' # "up", NEW k \in Lasting, ~(set'[k] \subseteq {"dhcp"})
        PROVE  Says(k)'
    <3>1. CASE set'[k] = set[k]
      BY <2>1, <2>2, <2>4, <3>1, SaysStays, LastingIs DEF Sourced
    <3>2. CASE set'[k] # set[k]
      <4>1. Past(p) /\ Applier(p) \in Setting /\ set' = Put(p)
        BY <1>1, <3>2, SetIs
      <4>2. Applier(p) = k /\ Wanted(p) # Nothing
        BY <2>1, <2>4, <3>2, <4>1, PutTypes, LastingIs
      <4>3. Says(k)
        BY <2>2, <2>4, <4>1, <4>2 DEF Sourced, Wanted
      <4>4. QED
        BY <2>1, <4>3, SaysStays, LastingIs
    <3>3. QED
      BY <3>1, <3>2
  <2>5. ASSUME stage' # "up", NEW k \in Lasting, NEW q \in Runner, Past(q)',
               run'[q].config[k] # Nothing
        PROVE  Says(k)'
    <3>1. CASE run'[q] = run[q]
      BY <2>1, <2>2, <2>5, <3>1, SaysStays, LastingIs DEF Sourced, Past
    <3>2. CASE q = p /\ Past(p) /\ run'[p].config = run[p].config
      BY <2>1, <2>2, <2>5, <3>2, SaysStays, LastingIs DEF Sourced
    <3>3. CASE q = p /\ "broken" \notin Readable(run[p].phase)
               /\ run'[p].config = Merged(run[p].phase)
      BY <2>1, <2>5, <3>3, ReadablesSay, SaysStays, LastingIs DEF RunOK
    <3>4. NoRun.step = "idle"
      BY DEF NoRun
    <3>5. QED
      BY <2>1, <2>3, <2>5, <3>1, <3>2, <3>3, <3>4, ConfigIs DEF Past
  <2>6. QED
    BY <2>1, <2>2, <2>4, <2>5 DEF Sourced
<1>2. ASSUME NEW p \in Runner, NEW phase \in Phase, Begin(p, phase)
      PROVE  Sourced'
  <2>1. UNCHANGED <<node, local, cloud, stage, set>>
    BY <1>2 DEF Begin, nodeVars, sysVars
  <2>2. \A q \in Runner : Past(q)' => Past(q) /\ run'[q].config = run[q].config
    BY <1>2, BeginIs DEF AsBefore, Past
  <2>3. QED
    BY <2>1, <2>2, SaysStays, LastingIs DEF Sourced
<1>3. CASE BootBegins \/ \E q \in Operator : OperatorBegins(q)
  BY <1>2, <1>3 DEF BootBegins, OperatorBegins, Phase, Appliers, Runner
<1>4. CASE Others
  <2>1. /\ UNCHANGED <<node, run>> /\ (stage # "up" => UNCHANGED local)
        /\ cloud # "none" => cloud' = cloud
        /\ stage' # "up" => stage # "up"
        /\ stage' \in Early => stage \in Early /\ cloud' = cloud
    BY <1>4, OthersAre DEF Sourced, Early
  <2>2. \A k \in Lasting : ~(set'[k] \subseteq {"dhcp"}) => set'[k] = set[k]
    <3>1. CASE SetAsBefore
      BY <3>1, SetAsBeforeIs, LastingIs
    <3>2. CASE Pivot
      BY <3>2, LastingIs DEF Pivot
    <3>3. QED
      BY <1>4, <3>1, <3>2, OthersAre DEF Others, NetOnline, CloudConfig, StartK3s, GoOnline,
            SupplyHostname, Edit, Flush, Unaltered, SetAsBefore
  <2>3. QED
    BY <2>1, <2>2, SaysStays, LastingIs DEF Sourced, Past
<1>5. CASE Down
  <2>1. run' = [q \in Runner |-> NoRun] /\ (\A k \in Lasting : set'[k] = {}) /\ cloud' = "none"
    BY <1>5, DownIs, LastingIs
  <2>2. QED
    BY <2>1 DEF Sourced, Past, NoRun
<1>6. CASE UNCHANGED vars
  <2>1. UNCHANGED <<node, local, cloud, stage, run, set>>
    BY <1>6 DEF vars, nodeVars, sysVars
  <2>2. QED
    BY <2>1, SaysStays, LastingIs DEF Sourced, Past
<1>7. QED
  BY <1>1, <1>3, <1>4, <1>5, <1>6, NextIs

(* A run that has not got past reading reads.                              *)
LEMMA OnlyReads ==
    ASSUME NEW p \in Runner, RunStep(p), ~Past(p)
    PROVE  Read(p)
BY DEF RunStep, Apply, Wait, Execute, Fail, ReadEnvironment, TruncateEnvironment,
       WriteEnvironment, NoKeys, SkipKey, GetKey, RetryKey, ExtendKeys, ReplaceKeys, FailKey,
       InstallK3s, NoDownload, AtKey, Ready, At, Past

(* Without runs by hand it is the boot that is at work.                    *)
LEMMA OnlyTheBoot ==
    ASSUME TypeOK, Runs, NEW p \in Runner, RunStep(p), ~touched'
    PROVE  p = "rc" /\ ~touched /\ RunOK("rc") /\ Moves("rc") /\ Busy("rc")
           /\ stage \in {"initrd", "boot", "runtime"} /\ run["rc"].phase = stage
BY RunMoves, MoveOK DEF Runs, RunOK

LEMMA SeenKept ==
    ASSUME TypeOK, Runs, Sourced, Seen, [Next]_vars
    PROVE  Seen'
<1>0. run \in [Runner -> RunType] /\ "rc" \in Runner /\ NoRun.step = "idle"
  BY DEF TypeOK, Runner, NoRun
<1> DEFINE Clear ==
        /\ \A k \in Lasting \ missed' : seen'[k] = Nothing => set'[k] \subseteq {"dhcp"}
        /\ \A k \in Key \ missed' :
               cloud' = "cloud" /\ k \in node'.says["cloud"] => seen'[k] \in {"cloud", "dropin"}
<1>1. ASSUME NEW p \in Runner, RunStep(p)
      PROVE  Seen'
  <2>0. RunOK(p) /\ Moves(p) /\ touched' = touched /\ \A q \in Runner \ {p} : run'[q] = run[q]
    BY <1>1, RunMoves, MoveOK DEF Runs
  <2>1. Past("rc")' => seen' = run'["rc"].config
    <3>1. CASE p # "rc"
      BY <1>0, <1>1, <2>0, <3>1, SeenIs DEF Seen, Past
    <3>2. CASE p = "rc" /\ Read(p)
      <4>1. CASE Ends(p)
        BY <1>0, <2>0, <3>2, <4>1, EndIs, MoveOK DEF Past
      <4>2. CASE ~Ends(p)
        BY <1>0, <3>2, <4>2 DEF Read, RunType
      <4>3. QED
        BY <4>1, <4>2
    <3>3. CASE p = "rc" /\ ~Read(p)
      <4>1. Past(p)
        BY <1>1, <2>0, <3>3, OnlyReads
      <4>2. seen' = seen
        BY <1>1, <3>3, <4>1, SeenIs DEF Past
      <4>3. QED
        BY <1>0, <2>0, <3>3, <4>1, <4>2, ConfigIs DEF Seen, Past
    <3>4. QED
      BY <3>1, <3>2, <3>3
  <2>2. ASSUME Told', ~touched'
        PROVE  Clear
    <3>0. /\ p = "rc" /\ ~touched /\ stage \in {"initrd", "boot", "runtime"}
          /\ run["rc"].phase = stage
      BY <1>1, <2>2, OnlyTheBoot
    <3>1. stage = "runtime"
      <4>1. CASE stage' = stage
        BY <2>2, <3>0, <4>1 DEF Told
      <4>2. CASE Ends(p)
        BY <2>0, <2>2, <3>0, <4>2, EndIs, MoveOK DEF Told
      <4>3. QED
        BY <2>0, <4>1, <4>2, MoveOK
    <3>2. CASE Past(p)
      <4>1. Told /\ seen = run["rc"].config /\ seen' = seen /\ missed \subseteq missed'
        BY <1>1, <3>0, <3>1, <3>2, SeenIs, MissedIs DEF Told, Seen, Past
      <4>2. ASSUME NEW k \in Lasting \ missed', seen'[k] = Nothing
            PROVE  set'[k] \subseteq {"dhcp"}
        <5>1. set[k] \subseteq {"dhcp"}
          BY <3>0, <4>1, <4>2 DEF Seen
        <5>2. CASE set' = set
          BY <5>1, <5>2
        <5>3. CASE /\ Applier(p) \in Setting /\ set' = Put(p)
                   /\ Wanted(p) # Nothing \/ Applier(p) = "dns"
          <6>1. k # Applier(p)
            BY <3>0, <4>1, <4>2, <5>3, LastingIs DEF Wanted
          <6>2. QED
            BY <2>0, <3>2, <4>2, <5>1, <5>3, <6>1, PutTypes, LastingIs
        <5>4. QED
          BY <1>1, <5>2, <5>3, SetIs
      <4>3. UNCHANGED <<cloud, node>>
        BY <1>1, <2>0, RunMoves
      <4>4. QED
        BY <3>0, <4>1, <4>2, <4>3 DEF Seen
    <3>3. CASE ~Past(p)
      <4>1. Read(p)
        BY <1>1, <2>0, <3>3, OnlyReads
      <4>2. CASE missed' = Key
        BY <4>2, LastingIs
      <4>3. CASE missed' # Key
        <5>1. "broken" \notin Readable("runtime") /\ seen' = Merged("runtime") /\ set' = set
              /\ UNCHANGED <<cloud, node>>
          BY <3>0, <3>1, <4>1, <4>3 DEF Read, sysVars, nodeVars
        <5>2. \A k \in Lasting : Merged("runtime")[k] = Nothing => ~Says(k)
          BY <5>1, ReadablesSay, RuntimeAppliers, LastingIs
        <5>3. cloud = "cloud" => "cloud" \in Readable("runtime")
          BY DEF Readable
        <5>4. \A k \in Key : cloud = "cloud" /\ k \in node.says["cloud"] =>
                  Merged("runtime")[k] \in {"cloud", "dropin"}
          BY <5>1, <5>3, MergedIs, RuntimeAppliers
        <5>5. QED
          BY <3>1, <5>1, <5>2, <5>4 DEF Sourced
      <4>4. QED
        BY <4>2, <4>3
    <3>4. QED
      BY <3>2, <3>3
  <2>3. QED
    BY <2>1, <2>2 DEF Seen
<1>2. ASSUME NEW p \in Runner, NEW phase \in Phase, Begin(p, phase), touched => touched',
             IF p = "rc" THEN stage \in {"initrd", "boot", "runtime"} ELSE touched'
      PROVE  Seen'
  <2>1. UNCHANGED <<seen, stage, set, missed, cloud, node>>
    BY <1>2 DEF Begin, sysVars, nodeVars
  <2>2. Past("rc")' => Past("rc") /\ run'["rc"].config = run["rc"].config /\ p # "rc"
    BY <1>0, <1>2, BeginIs DEF AsBefore, Past
  <2>3. QED
    BY <1>2, <2>1, <2>2 DEF Seen, Told
<1>3. CASE BootBegins
  BY <1>2, <1>3 DEF BootBegins, Phase, Appliers, Runner
<1>4. ASSUME NEW p \in Operator, OperatorBegins(p)
      PROVE  Seen'
  BY <1>2, <1>4, OperatorAssumption DEF OperatorBegins, Phase, Appliers, Runner
<1>5. CASE Others
  <2>1. UNCHANGED <<run, seen, touched, missed, node>>
    BY <1>5, OthersAre
  <2>2. Told' /\ ~touched => Told /\ SetAsBefore /\ cloud' = cloud
    <3>1. Past("rc") => stage \in {"initrd", "boot", "runtime"}
      BY <1>0 DEF Runs, RunOK, Past, Busy
    <3>2. QED
      BY <1>5, <2>1, <3>1, OthersAre DEF Told, Past
  <2>3. SetAsBefore => \A k \in Lasting : set[k] \subseteq {"dhcp"} => set'[k] \subseteq {"dhcp"}
    BY SetAsBeforeIs, LastingIs
  <2>4. QED
    BY <2>1, <2>2, <2>3 DEF Seen, Past
<1>6. CASE Down
  <2>1. run' = [q \in Runner |-> NoRun] /\ stage' = "initrd"
    BY <1>6, DownIs
  <2>2. QED
    BY <1>0, <2>1 DEF Seen, Told, Past
<1>7. CASE UNCHANGED vars
  <2>1. UNCHANGED <<seen, touched, stage, run, set, missed, cloud, node>>
    BY <1>7 DEF vars, history, sysVars, nodeVars
  <2>2. QED
    BY <2>1 DEF Seen, Told, Past
<1>8. QED
  BY <1>1, <1>3, <1>4, <1>5, <1>6, <1>7, NextIs

(* The last step of the boot's run at runtime: k3s is at it.               *)
LEMMA LastStep ==
    ASSUME TypeOK, Runs, RunStep("rc"), stage' \in {"k3s", "up"}, ~touched'
    PROVE  /\ stage = "runtime" /\ run["rc"].phase = "runtime" /\ stage' = "k3s"
           /\ missed' = Key \/ (Past("rc") /\ run["rc"].pos = 12 /\ Applier("rc") = "k3s")
<1>0. "rc" \in Runner /\ run \in [Runner -> RunType]
  BY DEF Runner, TypeOK
<1>1. /\ ~touched /\ RunOK("rc") /\ Moves("rc") /\ Busy("rc")
      /\ stage \in {"initrd", "boot", "runtime"} /\ run["rc"].phase = stage
  BY <1>0, OnlyTheBoot
<1>2. Ends("rc") /\ stage = "runtime" /\ stage' = "k3s"
  <2>1. stage' # stage
    BY <1>1
  <2>2. Ends("rc")
    BY <1>0, <1>1, <2>1, MoveOK, RunMoves
  <2>3. QED
    BY <1>0, <1>1, <2>2, EndIs
<1>3. run'["rc"] = NoRun /\ NoRun.step = "idle" /\ stage' # stage
  BY <1>0, <1>1, <1>2, EndIs DEF NoRun
<1>4. CASE Read("rc")
  <2>1. missed' = Key
    BY <1>0, <1>3, <1>4 DEF Read, RunType
  <2>2. QED
    BY <1>1, <1>2, <2>1
<1>5. CASE ~Read("rc")
  <2>1. Past("rc")
    BY <1>0, <1>1, <1>5, OnlyReads
  <2>2. Return("rc")
    <3>1. ~Reads("rc")
      BY <2>1 DEF Reads, Past
    <3>2. ~Works("rc")
      BY <1>3 DEF Works, Changes
    <3>3. CASE Applier("rc") = "ssh" /\ Wanted("rc") # Nothing /\ NextKey("rc")
      BY <1>0, <1>1, <1>3, <2>1, <3>3, NextKeyIs
    <3>4. QED
      BY <1>1, <3>1, <3>2, <3>3 DEF Moves
  <2>3. run["rc"].pos = Len(Appliers[run["rc"].phase])
    BY <1>0, <1>1, <1>3, <2>1, <2>2, ReturnIs
  <2>4. run["rc"].pos = 12 /\ Appliers["runtime"][12] = "k3s"
    BY <1>1, <1>2, <2>3, RuntimeAppliers
  <2>5. QED
    BY <1>1, <1>2, <2>1, <2>4 DEF Applier
<1>6. QED
  BY <1>4, <1>5

LEMMA ConfiguredKept ==
    ASSUME TypeOK, Runs, Alone, Seen, Seen', Done("rc"), ConfiguredWhenUp, [Next]_vars
    PROVE  ConfiguredWhenUp'
<1>0. run \in [Runner -> RunType] /\ "rc" \in Runner
  BY DEF TypeOK, Runner
<1>1. ASSUME UNCHANGED <<seen, missed, forgone, env, keys>>, SetAsBefore,
             stage' \in {"k3s", "up"} /\ ~touched' => stage \in {"k3s", "up"} /\ ~touched
      PROVE  ConfiguredWhenUp'
  <2>1. \A k \in Setting : set'[k] = set[k] \/ (k = "hostname" /\ set'[k] = {"dhcp"})
    BY <1>1, SetAsBeforeIs
  <2>2. {"hostname", "dns", "password"} \subseteq Setting
    BY DEF Setting, InKernel, InEtc
  <2>3. QED
    BY <1>1, <2>1, <2>2 DEF ConfiguredWhenUp, ByDHCP
<1>2. ASSUME NEW p \in Runner, RunStep(p)
      PROVE  ConfiguredWhenUp'
  <2> SUFFICES ASSUME stage' \in {"k3s", "up"}, ~touched', NEW k \in Key \ missed'
               PROVE  /\ k \in Setting \ {"data_sources"} /\ seen'[k] # Nothing =>
                             seen'[k] \in set'[k] \/ ByDHCP(k)'
                      /\ k \in {"hostname", "dns", "password"} /\ seen'[k] = Nothing =>
                             set'[k] = {} \/ ByDHCP(k)'
                      /\ k = "environment" /\ seen'[k] # Nothing => seen'[k] \in env'
                      /\ k = "ssh" /\ seen'[k] # Nothing =>
                             \A i \in DOMAIN AuthorizedKeys[seen'[k]] :
                                 AuthorizedKeys[seen'[k]][i] \in keys' \cup forgone'
    BY DEF ConfiguredWhenUp
  <2>1. p = "rc" /\ ~touched /\ RunOK("rc")
    BY <1>2, OnlyTheBoot
  <2>2. /\ run["rc"].phase = "runtime" /\ stage' = "k3s"
        /\ Past("rc") /\ run["rc"].pos = 12 /\ Applier("rc") = "k3s"
    BY <1>2, <2>1, LastStep
  <2>3. UNCHANGED <<set, env, keys, seen, forgone>> /\ missed \subseteq missed'
    <3>1. Applier(p) # "environment" /\ Applier(p) # "ssh" /\ Applier(p) \notin Setting
      BY <1>2, <2>1, <2>2, NotOthers
    <3>2. UNCHANGED <<set, env, keys, forgone>>
      BY <1>2, <2>1, <3>1, SetIs, EnvIs, KeysAre, ForgoneIs
    <3>3. seen' = seen /\ missed \subseteq missed'
      BY <1>2, <2>1, <2>2, SeenIs, MissedIs DEF Past
    <3>4. QED
      BY <3>2, <3>3
  <2>4. seen = run["rc"].config /\ run["rc"].alone
    BY <2>1, <2>2 DEF Seen, Alone
  <2>5. \A i \in 1..11 : Served(Appliers["runtime"][i], "runtime", seen)
    <3>1. 12 - 1 = 11
      OBVIOUS
    <3>2. QED
      BY <2>2, <2>4, <3>1 DEF Done
  <2>6. k \in (Setting \ {"data_sources"}) \cup {"environment", "ssh"} => Served(k, "runtime", seen)
    <3>1. ASSUME k \in (Setting \ {"data_sources"}) \cup {"environment", "ssh"}
          PROVE  Served(k, "runtime", seen)
      <4>1. PICK i \in 1..11 : Appliers["runtime"][i] = k
        BY <3>1, RuntimeAppliers
      <4>2. QED
        BY <2>5, <4>1
    <3>2. QED
      BY <3>1
  <2>7. k \in {"hostname", "password"} /\ seen'[k] = Nothing => set'[k] = {} \/ ByDHCP(k)'
    <3>1. k \in {"hostname", "password"} /\ seen'[k] = Nothing => set'[k] \subseteq {"dhcp"}
      BY <2>2 DEF Seen, Told, Lasting
    <3>2. "password" \in Setting \ {"hostname"} /\ set' = set
      BY <2>3 DEF Setting, InEtc
    <3>3. "dhcp" \notin set'["password"]
      BY <3>2 DEF TypeOK
    <3>4. QED
      BY <3>1, <3>3 DEF ByDHCP
  <2>8. k = "ssh" /\ seen[k] # Nothing => DOMAIN AuthorizedKeys[seen[k]] = 1..Len(AuthorizedKeys[seen[k]])
    <3>1. k = "ssh" /\ seen[k] # Nothing => seen[k] \in Source
      BY DEF TypeOK, Value, Key
    <3>2. QED
      BY <3>1, KeysAssumption
  <2>9. "dns" \in Setting \ {"data_sources"} /\ k \notin missed
    BY <2>3, NotOthers
  <2>10. QED
    BY <2>3, <2>6, <2>7, <2>8, <2>9 DEF Served, InForce, ByDHCP, KeysInForce
<1>3. CASE BootBegins
  <2>1. stage' \notin {"k3s", "up"}
    BY <1>3 DEF BootBegins, Begin
  <2>2. QED
    BY <2>1 DEF ConfiguredWhenUp
<1>4. ASSUME NEW p \in Operator, OperatorBegins(p)
      PROVE  ConfiguredWhenUp'
  BY <1>4 DEF OperatorBegins, ConfiguredWhenUp
<1>5. CASE Others
  <2>1. CASE stage \in {"k3s", "up"}
    BY <1>1, <1>5, <2>1, OthersAre
  <2>2. CASE stage \notin {"k3s", "up"}
    BY <1>5, <2>2, OthersAre DEF ConfiguredWhenUp
  <2>3. QED
    BY <2>1, <2>2
<1>6. CASE Down
  BY <1>6, DownIs DEF ConfiguredWhenUp
<1>7. CASE UNCHANGED vars
  BY <1>1, <1>7 DEF vars, history, SetAsBefore
<1>8. QED
  BY <1>2, <1>3, <1>4, <1>5, <1>6, <1>7, NextIs

LEMMA K3sKept ==
    ASSUME TypeOK, Runs, Seen, K3sOnce, [Next]_vars
    PROVE  K3sOnce'
<1>0. run \in [Runner -> RunType] /\ "rc" \in Runner
  BY DEF TypeOK, Runner
<1>1. ASSUME NEW p \in Runner, RunStep(p)
      PROVE  K3sOnce'
  <2>0. /\ RunOK(p) /\ Moves(p) /\ Busy(p) /\ UNCHANGED <<touched, node>>
        /\ stage' # stage => Ends(p)
    BY <1>1, RunMoves, MoveOK DEF Runs
  <2>1. CASE UNCHANGED k3sVars
    <3>1. UNCHANGED <<unit, k3s>>
      BY <2>1 DEF k3sVars
    <3>2. k3s' # Absent => stage' \notin Early
      <4>1. stage \notin Early => stage' \notin Early
        BY <2>0, EndIs, MoveOK DEF RunOK, Early
      <4>2. QED
        BY <3>1, <4>1 DEF K3sOnce
    <3>3. stage' = "runtime" => stage = "runtime"
      BY <2>0, EndIs, MoveOK DEF RunOK
    <3>4. ASSUME stage' \in {"k3s", "up"}, ~touched', "k3s" \notin missed',
                 node'.mode # "install"
          PROVE  k3s' = seen'["k3s"] /\ unit' = seen'["k3s"]
      <4>1. p = "rc"
        BY <1>1, <3>4, OnlyTheBoot
      <4>2. "k3s" \in Key
        BY DEF Key
      <4>3. Past("rc") /\ Applier("rc") = "k3s" /\ run["rc"].phase = "runtime"
        BY <1>1, <3>4, <4>1, <4>2, LastStep
      <4>4. PICK a : a = Applier("rc")
        OBVIOUS
      <4>5. InstallK3s("rc")
        <5>1. \/ InstallK3s("rc") \/ NoDownload("rc") \/ Fail("rc") \/ Execute("rc")
              \/ Wait("rc") \/ TruncateEnvironment("rc") \/ WriteEnvironment("rc")
              \/ ExtendKeys("rc") \/ ReplaceKeys("rc") \/ FailKey("rc")
          BY <1>1, <4>1, <4>3, NotOthers DEF RunStep, Read, Apply, ReadEnvironment, NoKeys,
                SkipKey, GetKey, RetryKey, AtKey, Past
        <5>2. ~(NoDownload("rc") \/ Fail("rc"))
          BY <3>4, <4>2, <4>3 DEF NoDownload, Fail
        <5>3. ~Execute("rc")
          BY <1>0, <4>3, NotOthers DEF Execute
        <5>4. ~(TruncateEnvironment("rc") \/ WriteEnvironment("rc") \/ ExtendKeys("rc")
                \/ ReplaceKeys("rc") \/ FailKey("rc"))
          BY <2>0, <4>1, <4>3 DEF TruncateEnvironment, WriteEnvironment, ExtendKeys,
                ReplaceKeys, FailKey, AtKey, RunOK, At
        <5>5. ~Wait("rc")
          BY <1>1, <3>4, <4>1, OnlyTheBoot DEF Wait
        <5>6. QED
          BY <5>1, <5>2, <5>3, <5>4, <5>5
      <4>6. ~SkipsK3s("rc")
        BY <2>0, <3>4, <4>3 DEF SkipsK3s, Restarts
      <4>7. unit' = Wanted("rc") /\ k3s' = Wanted("rc")
        BY <4>3, <4>5, <4>6, <2>1 DEF InstallK3s, Restarts, k3sVars
      <4>8. seen' = seen /\ seen = run["rc"].config
        BY <1>1, <4>1, <4>3, SeenIs DEF Past, Seen
      <4>9. QED
        BY <4>3, <4>7, <4>8 DEF Wanted
    <3>5. QED
      BY <2>0, <3>1, <3>2, <3>3, <3>4 DEF K3sOnce
  <2>2. CASE /\ Past(p) /\ Applier(p) = "k3s" /\ ~SkipsK3s(p) /\ Return(p)
             /\ unit' = Wanted(p) /\ k3s' = (IF Restarts(p) THEN Wanted(p) ELSE k3s)
    <3>1. node'.mode # "install"
      BY <2>0, <2>2 DEF SkipsK3s
    <3>2. run[p].phase \in {"boot", "runtime", "install"}
      BY <2>0, <2>2, K3sAppliers DEF RunOK, Applier
    <3>3. Past(p)
      BY <2>2
    <3>4. CASE run[p].phase = "boot"
      <4>1. p = "rc" /\ stage = "boot" /\ k3s' = k3s
        BY <2>0, <2>2, <3>4 DEF RunOK, ByHand, Restarts
      <4>2. k3s' = Absent
        BY <4>1 DEF K3sOnce, Early
      <4>3. stage' \in {"boot", "net"}
        BY <2>0, <4>1, EndIs
      <4>4. QED
        BY <3>1, <4>2, <4>3 DEF K3sOnce
    <3>5. CASE run[p].phase # "boot"
      <4>1. k3s' = Wanted(p)
        BY <2>2, <3>5 DEF Restarts
      <4>2. CASE p # "rc"
        <5>1. touched' /\ stage' \notin Early
          BY <2>0, <4>2, MoveOK DEF RunOK
        <5>2. QED
          BY <3>1, <5>1 DEF K3sOnce
      <4>3. CASE p = "rc"
        <5>1. run[p].phase = "runtime" /\ stage = "runtime"
          BY <2>0, <3>2, <3>5, <4>3 DEF RunOK
        <5>2. run[p].pos = 12
          BY <2>0, <2>2, <5>1, RuntimeAppliers DEF RunOK, Applier
        <5>3. Ends(p) /\ stage' = "k3s"
          <6>1. ~(run[p].pos < Len(Appliers[run[p].phase]))
            BY <5>1, <5>2, RuntimeAppliers
          <6>2. Ends(p)
            BY <2>2, <6>1 DEF Return
          <6>3. QED
            BY <2>0, <4>3, <5>1, <6>2, EndIs
        <5>4. seen' = seen /\ seen = run["rc"].config
          BY <1>1, <3>3, <4>3, SeenIs DEF Past, Seen
        <5>5. QED
          BY <2>2, <3>1, <4>1, <4>3, <5>3, <5>4 DEF K3sOnce, Early, Wanted
      <4>4. QED
        BY <4>2, <4>3
    <3>6. QED
      BY <3>4, <3>5
  <2>3. QED
    BY <1>1, <2>1, <2>2, K3sIs
<1>2. CASE BootBegins \/ \E p \in Operator : OperatorBegins(p)
  <2>1. UNCHANGED <<unit, k3s, node, stage, seen, missed>> /\ (touched => touched')
    <3>1. CASE BootBegins
      BY <3>1 DEF BootBegins, Begin, k3sVars, nodeVars
    <3>2. ASSUME NEW p \in Operator, OperatorBegins(p)
          PROVE  UNCHANGED <<unit, k3s, node, stage, seen, missed>> /\ touched'
      BY <3>2 DEF OperatorBegins, Begin, k3sVars, nodeVars
    <3>3. QED
      BY <1>2, <3>1, <3>2
  <2>2. QED
    BY <2>1 DEF K3sOnce
<1>3. CASE Others
  <2>1. UNCHANGED <<touched, seen, missed, node, unit>>
    BY <1>3, OthersAre
  <2>2. CASE StartK3s
    <3>1. stage = "k3s" /\ stage' = "up" /\ k3s' = IF k3s = Absent THEN unit ELSE k3s
      BY <2>2 DEF StartK3s
    <3>2. QED
      BY <2>1, <3>1 DEF K3sOnce, Early
  <2>3. CASE ~StartK3s
    <3>1. k3s' = k3s
      BY <1>3, <2>3 DEF Others, Pivot, NetOnline, CloudConfig, GoOnline, SupplyHostname, Edit,
                        Flush, Unaltered, k3sVars
    <3>2. \/ stage' = stage \/ (stage \in {"pivot", "net", "cloud"} /\ stage' \notin {"k3s", "up"})
          \/ stage = "k3s" /\ stage' = "up"
      BY <1>3, OthersAre
    <3>3. QED
      BY <2>1, <3>1, <3>2 DEF K3sOnce, Early
  <2>4. QED
    BY <2>2, <2>3
<1>4. CASE Down
  <2>1. unit' = Absent /\ k3s' = Absent /\ stage' = "initrd"
    BY <1>4, DownIs
  <2>2. QED
    BY <2>1 DEF K3sOnce
<1>5. CASE UNCHANGED vars
  BY <1>5 DEF K3sOnce, vars, history, k3sVars, nodeVars
<1>6. QED
  BY <1>1, <1>2, <1>3, <1>4, <1>5, NextIs

-----------------------------------------------------------------------------
(* The theorems.                                                           *)

LEMMA NextIInv ==
    ASSUME IInv, [Next]_vars
    PROVE  IInv'
<1>1. TypeOK /\ Runs /\ Alone /\ (\A p \in Runner : Done(p)) /\ Sourced /\ Seen
      /\ ConfiguredWhenUp /\ K3sOnce /\ "rc" \in Runner
  BY DEF IInv, Runner
<1>2. TypeOK' /\ Runs' /\ Alone'
  BY <1>1, TypesKept, RunsKept, AloneKept
<1>3. ASSUME NEW p \in Runner
      PROVE  Done(p)'
  BY <1>1, <1>3, DoneKept
<1>4. Sourced' /\ Seen' /\ K3sOnce'
  BY <1>1, SourcedKept, SeenKept, K3sKept
<1>5. ConfiguredWhenUp'
  BY <1>1, <1>4, ConfiguredKept
<1>6. (\A p \in Runner : Done(p))'
  BY <1>3 DEF Runner
<1>7. QED
  BY <1>2, <1>4, <1>5, <1>6 DEF IInv

(* The invariant of a node that configures itself, whatever fails and      *)
(* whoever runs `edgi config` next to the boot.                            *)
THEOREM ConfigureInvariant == Spec => []IInv
<1>1. Init => IInv
  BY InitIInv
<1>2. IInv /\ [Next]_vars => IInv'
  BY NextIInv
<1>3. QED
  BY <1>1, <1>2, PTL DEF Spec

(* Every variable has its type: among others a run never gets past its     *)
(* last attempt, and a setting that is not added to has one source.        *)
THEOREM ConfigureTypes == Spec => []TypeOK
<1>1. IInv => TypeOK
  BY DEF IInv
<1>2. QED
  BY <1>1, ConfigureInvariant, PTL

(* Every command of `init_cmd`, `boot_cmd`, `run_cmd`, and the installer,  *)
(* finds the files and the variables of its own configuration.             *)
THEOREM CommandsFindTheirFiles == Spec => []FilesBeforeCommands
<1>1. ASSUME IInv
      PROVE  FilesBeforeCommands
  <2> SUFFICES ASSUME NEW p \in Runner, run[p].step \in {"apply", "waiting"},
                      Applier(p) \in Commands, run[p].alone,
                      NEW k \in {"write_files", "environment"} \ missed,
                      run[p].config[k] # Nothing
               PROVE  IF k = "environment" THEN run[p].config[k] \in env
                      ELSE run[p].config[k] \in set[k]
    BY DEF FilesBeforeCommands
  <2>1. RunOK(p) /\ Done(p) /\ Past(p) /\ Busy(p)
    BY <1>1 DEF IInv, Runs, Past, Busy
  <2>2. run[p].phase \in Phase /\ run[p].pos \in 1..Len(Appliers[run[p].phase])
    BY <2>1 DEF RunOK
  <2>3. PICK j \in 1..(run[p].pos - 1) : Appliers[run[p].phase][j] = k
    BY <2>2, CommandsLast DEF Applier
  <2>4. Served(k, run[p].phase, run[p].config)
    BY <2>1, <2>3 DEF Done
  <2>5. "write_files" \in Setting
    BY DEF Setting, InEtc
  <2>6. QED
    BY <2>4, <2>5 DEF Served, InForce, ByDHCP
<1>2. QED
  BY <1>1, ConfigureInvariant, PTL

(* A node that has come up is configured as its sources said when the      *)
(* runtime phase read them, but for the settings and the single keys that  *)
(* failed, and for a name DHCP has supplied.                               *)
THEOREM UpAsConfigured == Spec => []ConfiguredWhenUp
<1>1. IInv => ConfiguredWhenUp
  BY DEF IInv
<1>2. QED
  BY <1>1, ConfigureInvariant, PTL

(* k3s does not start before the runtime phase, nor with anything but what *)
(* that phase has read, user data that have been downloaded before it      *)
(* included, and not at all where EDGI is being installed.                 *)
THEOREM K3sWaits == Spec => []K3sWhenConfigured
<1>1. ASSUME IInv
      PROVE  K3sWhenConfigured
  <2>1. TypeOK /\ K3sOnce /\ Seen /\ "k3s" \in Key
    BY <1>1 DEF IInv, Key
  <2>2. QED
    BY <2>1 DEF K3sOnce, K3sWhenConfigured, Seen, Told, TypeOK, Early
<1>2. QED
  BY <1>1, ConfigureInvariant, PTL

(* An authorised key stays so: authorizeSSHKey writes back what it read,   *)
(* and nobody else has written in between if the run is alone; neither a   *)
(* failure nor a reboot takes one, and a loss of power only as long as the *)
(* file has not reached the disk.                                          *)
THEOREM NoKeyIsLost == Spec => KeysKept
<1> DEFINE Kept ==
        \/ keys \subseteq keys'
        \/ \E p \in Runner : At(p, "replace") /\ ~run[p].alone
        \/ PowerLoss /\ dirty
        \/ Reboot /\ node.mode = "install"
<1>1. ASSUME IInv, [Next]_vars
      PROVE  Kept
  <2>1. ASSUME NEW p \in Runner, RunStep(p)
        PROVE  Kept
    <3>1. RunOK(p) /\ Done(p)
      BY <1>1 DEF IInv, Runs
    <3>2. At(p, "replace") /\ run[p].alone => run[p].read = keys
      BY <3>1 DEF Done, At, Past
    <3>3. QED
      BY <2>1, <3>1, <3>2, KeysAre
  <2>2. CASE BootBegins \/ (\E p \in Operator : OperatorBegins(p)) \/ UNCHANGED vars
    BY <2>2 DEF BootBegins, OperatorBegins, Begin, vars
  <2>3. CASE Others
    BY <1>1, <2>3, OthersAre DEF IInv
  <2>4. CASE Reboot
    BY <2>4 DEF Reboot, StartsAnew
  <2>5. CASE PowerLoss
    BY <2>5 DEF PowerLoss, StartsAnew
  <2>6. QED
    BY <1>1, <2>1, <2>2, <2>3, <2>4, <2>5, NextIs DEF Down
<1>2. IInv /\ [Next]_vars => [Kept]_vars
  BY <1>1
<1>3. QED
  BY <1>2, ConfigureInvariant, PTL DEF Spec, KeysKept
=============================================================================
