---------------------------- MODULE HealthPromises ----------------------------
(***************************************************************************)
(* What the health checks promise, check by check: on which observations a *)
(* check should be OK, on which CRITICAL, and on which it could not look   *)
(* at all. These are stated from the help texts of the commands and the    *)
(* docstrings of their parts, in terms of what the node is like, and know  *)
(* nothing of the order in which the code looks at things.                 *)
(***************************************************************************)
EXTENDS ChecksHost, ChecksNet, ChecksGpu, ChecksService

Never(o) == FALSE
Exists(seq, P(_)) == \E i \in DOMAIN seq : P(seq[i])
All(seq, P(_)) == \A i \in DOMAIN seq : P(seq[i])

(* A command that did not exit with 0 was not able to look; of a pipeline  *)
(* it is the first command that does, and a filter may well exit with 1.   *)
CmdFailed(out) == out.rc # 0
PipedFailed(out) == out.rcs[1] # 0
OutFailed(o) == CmdFailed(o.out)
PipedOutFailed(o) == PipedFailed(o.out)

(* The return codes of the commands of an observation. *)
Rc(out) == {out.rc}
PipedRcs(out) == ToSet(out.rcs)
OutRc(o) == Rc(o.out)
PipedOutRcs(o) == PipedRcs(o.out)
EachRc(outs) == UNION { Rc(outs[i]) : i \in DOMAIN outs }
EachPipedRcs(outs) == UNION { PipedRcs(outs[i]) : i \in DOMAIN outs }

(* A command's output, or a pipeline's, is one of a few texts. *)
Reads(F, good, bad) ==
  LET Good(out) == out.text \in good
      Bad(out) == out.rc = 0 /\ out.text \in bad
  IN CommandCheck(F, Good, Bad, CmdFailed, Rc)
PipeReads(F, good, bad) ==
  LET Good(out) == out.text \in good
      Bad(out) == out.rcs[1] = 0 /\ out.text \in bad
  IN CommandCheck(F, Good, Bad, PipedFailed, PipedRcs)

-----------------------------------------------------------------------------
(* The parts of check_nvidia_smi that walk the devices: fine on all of     *)
(* them, or faulty on one that could be read.                              *)
Walks(F, Sound(_)) ==
  LET Read(d) == d.call = "fine"
  IN Check(F, LAMBDA o : o.count = "fine" /\ All(o.devices, LAMBDA d : Read(d) /\ Sound(d)),
           LAMBDA o : o.count = "fine" /\ Exists(o.devices, LAMBDA d : Read(d) /\ ~Sound(d)),
           LAMBDA o : o.count # "fine" \/ Exists(o.devices, LAMBDA d : ~Read(d)))
WalksOwn(F, Sound(_)) ==
  LET Read(d) == d.call = "fine"
      Counted(o) == o.type = "prolog" \/ o.count = "fine"
  IN Check(F, LAMBDA o : Counted(o) /\ All(o.devices, LAMBDA d : Read(d) /\ Sound(d)),
           LAMBDA o : Counted(o) /\ Exists(o.devices, LAMBDA d : Read(d) /\ ~Sound(d)),
           LAMBDA o : ~Counted(o) \/ Exists(o.devices, LAMBDA d : ~Read(d)))

UpTo2(d) == d.reading <= 2

-----------------------------------------------------------------------------
Promises ==
  [ processor_freq |-> Reads(ProcessorFreq, {"enough"}, {"below"}),
    cpufreq_governor |-> PipeReads(CpufreqGovernor, {"expected"}, {"other", "several"}),
    check_mem_size |->
      LET Size(o) == Total(LAMBDA l : l[1] * l[2], o.lines)
          Dimms(o) == Total(LAMBDA l : l[1], o.lines)
          Good(o) == o.out.text = "lines" /\ Size(o) = 64 /\ Dimms(o) = 4
          Bad(o) == o.known /\ o.out.rcs[1] = 0 /\ o.out.text = "lines"
                    /\ (Size(o) # 64 \/ Dimms(o) # 4)
      IN CommandCheck(CheckMemSize, Good, Bad, PipedOutFailed, PipedOutRcs),
    check_buddyinfo |->
      LET Short(z) == z.zone = "Normal" /\ All(z.blocks, LAMBDA n : n < 10)
          NoZone(z) == z.zone = "no zone line"
          Good(zones) == ~Exists(zones, Short)
          Bad(zones) == Exists(zones, Short) /\ ~Exists(zones, NoZone)
          Unreadable(zones) == Exists(zones, NoZone)
      IN Check(CheckBuddyinfo, Good, Bad, Unreadable),
    check_clocksource |-> Reads(CheckClocksource, {"tsc"}, {"hpet", ""}),
    disk_usage |->
      LET Full(v) == v.rc = 0 /\ v.text = "full"
          Low(v) == v.text = "low"
      IN CommandCheck(DiskUsage, LAMBDA vols : All(vols, Low), LAMBDA vols : Exists(vols, Full),
               LAMBDA vols : Exists(vols, CmdFailed), EachRc),
    mounted_directory |->
      LET Absent(out) == out.rcs[1] = 0 /\ out.text = ""
          Mounted(out) == out.text \in {"dir", "longer name"}
      IN CommandCheck(MountedDirectory, LAMBDA dirs : All(dirs, Mounted),
               LAMBDA dirs : Exists(dirs, Absent), LAMBDA dirs : Exists(dirs, PipedFailed),
                      EachPipedRcs),
    file_exists |->
      LET Wanted(o) == IF o.shouldNotExist THEN "absent" ELSE "there"
          Raising(o) == Exists(o.files, LAMBDA f : f = "raises")
      IN Lapsing(FileExists, LAMBDA o : All(o.files, LAMBDA f : f = Wanted(o)),
               LAMBDA o : Exists(o.files, LAMBDA f : f \notin {Wanted(o), "raises"}),
               Raising, LAMBDA o : IF Raising(o) THEN "raises" ELSE "none"),
    directory_exists |->
      Check(DirectoryExists, LAMBDA dirs : All(dirs, LAMBDA f : f = "there"),
            LAMBDA dirs : Exists(dirs, LAMBDA f : f = "absent"),
            LAMBDA dirs : Exists(dirs, LAMBDA f : f = "raises")),
    check_mountpoint |->
      LET Rcs(m) == {m.fstabRc, m.mountsRc}
          Unread(m) == Rcs(m) # {0}
          Unexpected(m) == m.mounts \ m.fstab # {}
      IN Lapsing(CheckMountpoint, LAMBDA ms : All(ms, LAMBDA m : m.fstab = m.mounts),
               LAMBDA ms : Exists(ms, LAMBDA m : ~Unread(m) /\ m.fstab \ m.mounts # {}),
               LAMBDA ms : Exists(ms, Unread),
               LAMBDA ms : CASE Exists(ms, LAMBDA m : BySignal(Rcs(m))) -> "killed"
                             [] ~Exists(ms, LAMBDA m : BySignal(Rcs(m))) /\ Exists(ms, Unexpected) -> "not in fstab"
                             [] OTHER -> "none"),
    disk_size |->
      LET Fits(o) == Compare(o.size, o.op, 2)
      IN CommandCheck(DiskSize, LAMBDA o : o.out.text = "number" /\ Fits(o),
               LAMBDA o : o.out.rcs = <<0, 0>> /\ o.out.text = "number" /\ ~Fits(o), PipedOutFailed,
                      PipedOutRcs),
    memtest |->
      Check(Memtest, LAMBDA rcs : rcs # <<>> /\ All(rcs, LAMBDA rc : rc = 0),
            LAMBDA rcs : Exists(rcs, LAMBDA rc : rc \notin {0, Raises}),
            LAMBDA rcs : Exists(rcs, LAMBDA rc : rc = Raises)),
    check_sensors |->
      CommandCheck(CheckSensors, LAMBDA out : out.text \subseteq {"ok"},
            LAMBDA out : out.rc = 0 /\ out.text \cap {"fan", "power", "psu"} # {},
            CmdFailed, Rc),
    check_sel |->
      CommandCheck(CheckSel, LAMBDA o : "asserted error" \notin o.out.text,
            LAMBDA o : o.out.rc = 0 /\ "asserted error" \in o.out.text, OutFailed,
                   OutRc),
    check_blockdev |->
      LET Read(o) == o.manifest /\ ~Exists(o.disks, LAMBDA d : d.log = "empty")
          Sound(d) == d.log = "there" /\ d.size = "full" /\ d.used <= 80 /\ d.spare = "enough" /\ ~d.idle
      IN Check(CheckBlockdev, LAMBDA o : All(o.disks, Sound),
               LAMBDA o : Read(o) /\ Exists(o.disks, LAMBDA d : ~Sound(d)), LAMBDA o : ~Read(o)),

    (* The links and the devices behind them. *)
    check_iblink |->
      LET Sound(c) == c = SoundCard
          Hard(c) == ~c.bound \/ ~c.mlx \/ ~c.infiniband \/ ~c.active \/ ~c.rate
                     \/ c.state = "other" \/ (c.state = "4: ACTIVE" /\ ~c.operstate)
      IN Check(CheckIblink, LAMBDA o : All(o.cards, Sound) ,
               LAMBDA o : o.manifest /\ Exists(o.cards, Hard), LAMBDA o : ~o.manifest),
    check_ibstat |->
      LET Up(l) == l = "up"
      IN CommandCheck(CheckIbstat, LAMBDA o : o.out.text = "lines" /\ All(o.lines, Up),
               LAMBDA o : o.out.rcs[1] = 0 /\ o.out.text = "lines" /\ ~All(o.lines, Up), PipedOutFailed,
                      PipedOutRcs),
    check_ib_interfaces |->
      LET Up(o) == Len(SelectSeq(o.interfaces, LAMBDA itf : itf.type = "infiniband" /\ itf.operstate = "UP"))
      IN CommandCheck(CheckIbInterfaces, LAMBDA o : o.out.text = "json" /\ Up(o) = o.expected,
               LAMBDA o : o.out.rc = 0 /\ o.out.text = "json" /\ Up(o) # o.expected, OutFailed, OutRc),
    check_ethlink |->
      LET Addressed(i) == ~i.phys \/ i.config = "same mac"
          Sound(i) == Addressed(i) /\ i.operstate = "UP" /\ i.flags /\ i.mtu /\ i.speed # "other"
          Hard(i) == ~Addressed(i) \/ i.operstate = "DOWN" \/ ~i.flags
      IN Check(CheckEthlink, LAMBDA o : o.manifest = "without eth" \/ All(o.interfaces, Sound),
               LAMBDA o : /\ o.manifest = "with eth" /\ Exists(o.interfaces, Hard)
                          /\ All(o.interfaces, LAMBDA i : i.listed),
               LAMBDA o : o.manifest = "none"),
    check_hca |->
      CommandCheck(CheckHca, LAMBDA o : o.out.text = "count" /\ o.found = o.expected,
            LAMBDA o : o.out.rc = 0 /\ o.out.text = "count" /\ o.found < o.expected, OutFailed,
            OutRc),
    check_pci |->
      LET Sound(d) == d.link /\ d.width /\ d.speed = "expected"
      IN Check(CheckPci, LAMBDA o : All(o.devices, Sound),
               LAMBDA o : o.manifest /\ Exists(o.devices, LAMBDA d : ~d.link \/ ~d.width \/ d.speed = "other"),
               LAMBDA o : ~o.manifest),

    (* check_nvidia_smi.py *)
    gpu_num |->
      Check(CheckGpuNum, LAMBDA o : o.count = "fine" /\ o.present = o.expected,
            LAMBDA o : o.count = "fine" /\ o.present # o.expected, LAMBDA o : o.count # "fine"),
    clock_freq |-> Walks(CheckAppClockFreq, LAMBDA d : d.reading = <<2, 2>>),
    (* Modelled step by step in GpuProcesses. *)
    running_procs_and_kill |->
      { [code |-> c, published |-> CodeOf(c), lapse |-> "none", good |-> c = OK, bad |-> FALSE]
          : c \in {OK, WARN, CRITICAL, Raised(UNKNOWN)} },
    running_procs |-> WalksOwn(CheckRunningProcs, LAMBDA d : d.reading # "alive"),
    gpu_temperature |->
      LET Read(d) == d.call = "fine"
          Set(o) == o.threshold = "given"
      IN Check(CheckGpuTemp,
               LAMBDA o : Set(o) /\ o.count = "fine" /\ All(o.devices, LAMBDA d : Read(d) /\ UpTo2(d)),
               LAMBDA o : o.count = "fine" /\ Exists(o.devices, LAMBDA d : Read(d) /\ ~UpTo2(d)),
               LAMBDA o : Set(o) /\ (o.count # "fine" \/ ~All(o.devices, Read))),
    gpu_mem_usage |-> WalksOwn(CheckMemUsage, UpTo2),
    gpu_retired_pages |->
      Walks(CheckRetiredPages, LAMBDA d : d.reading = [single |-> 2, double |-> 2, pending |-> 0]),
    ecc_uncorrected_volatile_total |-> Walks(CheckEccUncorrectedVolatileTotal, UpTo2),
    ecc_corrected_volatile_total |-> Walks(CheckEccCorrectedVolatileTotal, UpTo2),
    vbios_mismatch |->
      LET Read(d) == d.call = "fine"
          Versions(o) == { o.devices[i].reading : i \in { j \in DOMAIN o.devices : Read(o.devices[j]) } }
          Agreed(o) == Versions(o) \cup ({o.expected} \ {""})
      IN Check(CheckVbiosMismatch,
               LAMBDA o : o.count = "fine" /\ All(o.devices, Read) /\ Cardinality(Agreed(o)) <= 1,
               LAMBDA o : o.count = "fine" /\ Versions(o) # {} /\ Cardinality(Agreed(o)) > 1,
               LAMBDA o : o.count # "fine" \/ ~All(o.devices, Read)),
    row_remap |-> Walks(CheckRowRemap, LAMBDA d : d.reading = [pending |-> 0, failure |-> 0]),
    row_remap_pending |-> Walks(CheckRowRemapPending, LAMBDA d : d.reading.pending = 0),
    row_remap_failed |-> Walks(CheckRowRemapFailed, LAMBDA d : d.reading.failure = 0),

    (* check_dcgmi.py and check_nccl.py *)
    diag |->
      LET Counts(t, s) == ~t.excluded /\ t.status = s
          Read(o) == o.out.text = "tests" /\ o.out.rc \in {0, 205}
      IN CommandCheck(DcgmiDiag,
               LAMBDA o : /\ o.out.text = "tests"
                          /\ All(o.tests, LAMBDA t : ~Counts(t, "Fail") /\ ~Counts(t, "Warn")),
               LAMBDA o : Read(o) /\ Exists(o.tests, LAMBDA t : Counts(t, "Fail")),
               LAMBDA o : o.out.rc \notin {0, 205}, OutRc),
    nvlink_errors |->
      LET High(c) == c.kind # "other" /\ c.value = "high"
          Garbled(c) == c.kind # "other" /\ c.value = "not a number"
          Read(r) == r.out.rc = 0 /\ r.out.text = "json"
          Lapse(gpus) ==
            CASE BySignal(UNION { OutRc(gpus[i]) : i \in DOMAIN gpus }) -> "killed"
              [] ~BySignal(UNION { OutRc(gpus[i]) : i \in DOMAIN gpus })
                 /\ Exists(gpus, LAMBDA r : Exists(r.counters, Garbled)) -> "not a number"
              [] OTHER -> "none"
      IN Publishing(NvlinkErrors, LastGpu,
               LAMBDA gpus : All(gpus, LAMBDA r : ~Exists(r.counters, High)),
               LAMBDA gpus : Exists(gpus, LAMBDA r : Read(r) /\ Exists(r.counters, High)),
               LAMBDA gpus : Exists(gpus, OutFailed), Lapse),
    nvlink_status |->
      LET Down(l) == l \in {"D", "X"}
      IN CommandCheck(NvlinkStatus, LAMBDA o : o.out.text = "lines" /\ ~Exists(o.links, Down),
               LAMBDA o : o.out.rcs[1] = 0 /\ o.out.text = "lines" /\ Exists(o.links, Down),
               PipedOutFailed, PipedOutRcs),
    check_nccl |->
      LET Below(o) == {"critical"} \cup IF o.warnThreshold THEN {"low"} ELSE {}
      IN CommandCheck(CheckNccl,
               LAMBDA o : All(o.outputs, LAMBDA out : out.text \in {"low", "high"} \ Below(o)),
               LAMBDA o : Exists(o.outputs, LAMBDA out : out.rc = 0 /\ out.text = "critical"),
               LAMBDA o : Exists(o.outputs, CmdFailed), LAMBDA o : EachRc(o.outputs)),

    (* Slurm, services, accounts, logs and processes. *)
    slurmctld_count |->
      CommandCheck(SlurmctldCount, LAMBDA o : o.out.text = "number" /\ o.found >= o.expected,
            LAMBDA o : o.out.rcs[1] = 0 /\ o.out.text = "number" /\ o.found < o.expected,
            PipedOutFailed, PipedOutRcs),
    node_slurm_state |->
      CommandCheck(NodeSlurmState, LAMBDA out : "critical" \notin out.text /\ "good" \in out.text,
            Never, CmdFailed, Rc),
    cluster_availability |->
      LET Share(o, percent) == o.bad * 100 > percent * (o.good + o.bad)
      IN CommandCheck(ClusterAvailability,
               LAMBDA o : o.out.text = "lines" /\ o.good + o.bad > 0 /\ ~Share(o, 25),
               LAMBDA o : o.out.rcs[1] = 0 /\ o.out.text = "lines" /\ Share(o, 50), PipedOutFailed,
               PipedOutRcs),
    service_status |->
      CommandCheck(ServiceStatus, LAMBDA outs : All(outs, LAMBDA out : out.rc = 0),
            LAMBDA outs : Exists(outs, LAMBDA out : out.rc = 1), LAMBDA outs : Exists(outs, CmdFailed),
            EachRc),
    package_version |-> Reads(PackageVersion, {"expected"}, {"other"}),
    ssh_connection |->
      CommandCheck(SshConnection, LAMBDA outs : All(outs, LAMBDA out : out.rc = 0),
            LAMBDA outs : Exists(outs, LAMBDA out : out.rc > 0),
            LAMBDA outs : Exists(outs, CmdFailed), EachRc),
    password_status |-> PipeReads(PasswordStatus, {"expected"}, {"other"}),
    check_path_access_by_user |->
      CommandCheck(CheckPathAccessByUser, LAMBDA out : out.rc = 0, LAMBDA out : out.rc = 1, CmdFailed,
            Rc),
    check_ssh_certs |->
      LET Asked(o) == o.ipa = 0 /\ o.ssh = 0
      IN CommandCheck(CheckSshCerts, LAMBDA o : Asked(o) /\ o.registered # {} /\ o.registered \subseteq o.shown,
               LAMBDA o : Asked(o) /\ ~(o.registered \subseteq o.shown),
               LAMBDA o : ~Asked(o),
               LAMBDA o : {o.ipa, o.ssh}),
    link_flaps |->
      CommandCheck(LinkFlaps, LAMBDA out : out.text \cap {"ib", "eth"} = {},
            LAMBDA out : out.rc = 0 /\ "ib" \in out.text, LAMBDA out : out.rc \notin {0, 1}, Rc),
    xid |->
      CommandCheck(Xid, LAMBDA out : out.text \subseteq {"no colon"},
            LAMBDA out : out.rcs[1] = 0 /\ "critical" \in out.text, PipedFailed, PipedRcs),
    io_errors |-> PipeReads(IoErrors, {""}, {"devices"}),
    check_running_process |->
      CommandCheck(CheckRunningProcess, LAMBDA outs : All(outs, LAMBDA out : out.text = "lines"),
            LAMBDA outs : Exists(outs, LAMBDA out : out.rcs[1] = 0 /\ out.text = ""),
            LAMBDA outs : Exists(outs, PipedFailed), EachPipedRcs),
    check_zombie |->
      CommandCheck(CheckZombie, LAMBDA o : ~Exists(o.zombies, LAMBDA z : z \in {"old", "no age"}),
            Never, PipedOutFailed, PipedOutRcs),
    check_dstate |->
      LET Stuck(p) == p.named /\ p.rc # Raises /\ (p.rc = 1 \/ p.said = 1)
          Silent(p) == Stuck(p) /\ p.rc # 1
          KilledAny(o) == BySignal({o.list} \cup { o.procs[i].rc : i \in DOMAIN o.procs })
      IN Lapsing(CheckDstate, LAMBDA o : ~Exists(o.procs, Stuck),
               LAMBDA o : /\ o.list = 0 /\ Exists(o.procs, Stuck)
                          /\ All(o.procs, LAMBDA p : ~p.named \/ p.rc # Raises),
               LAMBDA o : o.list # 0,
               LAMBDA o : CASE Exists(o.procs, Silent) -> "one line"
                            [] ~Exists(o.procs, Silent) /\ KilledAny(o) -> "killed"
                            [] OTHER -> "none"),
    uptime |-> PipeReads(Uptime, {"long"}, {}),
    check_module |->
      LET Loaded(r) == r.out.text = "number" /\ r.appearances >= r.count
          Short(r) == r.out.rcs[1] = 0 /\ r.out.text = "number" /\ r.appearances < r.count
      IN CommandCheck(CheckModule, LAMBDA modules : All(modules, Loaded),
               LAMBDA modules : Exists(modules, Short),
               LAMBDA modules : Exists(modules, PipedOutFailed),
               LAMBDA modules : UNION { PipedOutRcs(modules[i]) : i \in DOMAIN modules }),
    check_dnf_repos |-> Reads(CheckDnfRepos, {"repos"}, {""}) ]
=============================================================================
