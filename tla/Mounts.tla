------------------------------- MODULE Mounts -------------------------------
(***************************************************************************)
(* The plugins that read the table of mounted file systems entry by entry  *)
(* (lib/mountlist.c): check_ifmountfs, check_readonlyfs and check_selinux. *)
(* Meanwhile file systems are mounted, unmounted and made read-only, and   *)
(* SELinux changes its mode.                                               *)
(*                                                                         *)
(* The kernel lists the mounts in the order they were made, the new ones   *)
(* at the end; each mount is made at most once.                            *)
(***************************************************************************)
EXTENDS Plugin, Sequences, FiniteSets, SequencesExt

CONSTANTS
    Mount,          \* the mounts there may be,
    MountOf,        \* and what each one is
    Dir,            \* the names a command line may give
    Automount,      \* what autofs mounts when a name is opened, or NULL
    MountHosts,     \* what the host may be like
    MaxMountEvents, \* bound: the changes of the mounts and of SELinux
    MountsOptions   \* the command lines

\* The types of ME_DUMMY.
DummyTypes ==
    {"cgroup2", "bfs", "tracefs", "cgroup", "configfs", "debugfs", "devpts", "devtmpfs",
     "fusectl", "hugetlbfs", "mqueue", "pstore", "rpc_pipefs", "securityfs", "selinuxfs",
     "sysfs", "devfs", "binfmt_misc", "none", "autofs", "proc"}
Types == DummyTypes \cup {"ext4", "nfs", "cifs"}

\* colon, slashes: whether the device has a colon, or begins with two slashes.
MountEntry == [mountdir : Dir, devname : Dir, type : Types, colon : BOOLEAN, slashes : BOOLEAN]
Tokens == {"ro", "rw", "errors=remount-ro"}

\* permissive: the option that check_selinux is given.
MountsCommandLine ==
    [program : {"ifmountfs", "readonlyfs", "selinux"}, argv : Seq(Dir), list : BOOLEAN,
     exclude_mode : BOOLEAN, show_all_fs : BOOLEAN, show_local_fs : BOOLEAN,
     fs_select : SUBSET Types, fs_exclude : SUBSET Types,
     permissive : {"none", "-p", "-P", "--permissive-is-critical"}]

ASSUME MountsAssumption ==
    /\ MountOf \in [Mount -> MountEntry] /\ Automount \in [Dir -> Mount \cup {NULL}]
    /\ MaxMountEvents \in Nat
    /\ \A h \in MountHosts :
         /\ h.table \in BOOLEAN /\ h.enforce \in {0, 1} /\ h.openable \subseteq Dir
         /\ h.mounted \in Seq(Mount) /\ h.opts \in [Mount -> SUBSET Tokens]
    /\ MountsOptions \subseteq MountsCommandLine

VARIABLES
    optind,             \* the next argument to open
    mount_list,         \* struct mount_entry
    selinux_mnt,        \* the mount of selinuxfs found, or NULL
    mtab, opts,         \* the kernel: the mounts in order, the options of each
    enforce,            \* the mode of SELinux
    mountHost,          \* what else the host has
    mountSeen, roSeen,  \* ghosts: the mounts, those read-only: all the time, some time
    modes,              \* ghost: the modes since the plugin reads
    mountEvents

found == <<optind, mount_list, selinux_mnt>>
host == <<mtab, opts, enforce, mountHost, mountSeen, roSeen, modes, mountEvents>>
mountsVars == <<found, host>>

MountsPrograms == {"ifmountfs", "readonlyfs", "selinux"}

\* A mutant: any option that speaks of read-only.
fs_check_if_readonlyAny(tokens) == tokens \cap {"ro", "errors=remount-ro"} # {}

fs_check_if_readonly(tokens) == "ro" \in tokens

ReadOnly(table, options) == {m \in Range(table) : "ro" \in options[m]}

MountsInit ==
    /\ optind = 1 /\ mount_list = <<>> /\ selinux_mnt = NULL
    /\ mountHost \in Either(MountsPrograms, MountHosts)
    /\ mtab = mountHost.mounted /\ opts = mountHost.opts /\ enforce = mountHost.enforce
    /\ mountSeen = Since(Range(mtab)) /\ roSeen = Since(ReadOnly(mtab, opts))
    /\ modes = {enforce} /\ mountEvents = 0

Watched == pc \in {"mtab", "entries", "enforce", "value"}

\* The ghosts start when the table is opened: what the plugin has mounted by then is
\* part of it.
Remember(table, options) ==
    /\ mountSeen' = IF Watched THEN Meeting(mountSeen, Range(table)) ELSE Since(Range(table))
    /\ roSeen' = IF Watched THEN Meeting(roSeen, ReadOnly(table, options))
                 ELSE Since(ReadOnly(table, options))

\* A mount is made or goes away, or is made again with other options; or setenforce.
MountsChange ==
    /\ pc \in {"open", "mtab", "entries", "enforce", "value"} /\ Runs(MountsPrograms)
    /\ mountEvents < MaxMountEvents /\ mountEvents' = mountEvents + 1
    /\ \/ /\ \E m \in Mount \ mountSeen.ever : mtab' = Append(mtab, m)
          /\ UNCHANGED <<opts, enforce>>
       \/ \E k \in DOMAIN mtab : mtab' = RemoveAt(mtab, k)
          /\ UNCHANGED <<opts, enforce>>
       \/ \E m \in Range(mtab) :
            opts' = [opts EXCEPT ![m] = IF "ro" \in @ THEN {"rw"} ELSE {"ro"}]
          /\ UNCHANGED <<mtab, enforce>>
       \/ Runs({"selinux"}) /\ enforce' = 1 - enforce /\ UNCHANGED <<mtab, opts>>
    /\ Remember(mtab', opts') /\ modes' = modes \cup {enforce'}
    /\ UNCHANGED <<main, found, mountHost>>

-----------------------------------------------------------------------------
MountsBadOptions ==
    \/ Runs({"ifmountfs"}) /\ opt.argv = <<>> /\ ~opt.list
    \/ Runs({"readonlyfs"}) /\ \/ opt.fs_select \cap opt.fs_exclude # {}
                               \/ opt.argv = <<>> /\ opt.exclude_mode
    \/ Runs({"selinux"}) /\ opt.permissive = "-P"   \* not in the option string

\* The file systems named are opened first.
Opens == Runs({"readonlyfs"}) /\ ~opt.exclude_mode

MountsParseOptions ==
    /\ pc = "options" /\ Runs(MountsPrograms) /\ UNCHANGED mountsVars
    /\ IF MountsBadOptions THEN GiveUp ELSE Goto(IF Opens THEN "open" ELSE "mtab")

\* What the opening of a name mounts: where autofs is mounted, its file system.
Triggered(name) ==
    IF \E m \in Range(mtab) : MountOf[m].mountdir = name /\ MountOf[m].type = "autofs"
    THEN {Automount[name]} \ (Range(mtab) \cup {NULL}) ELSE {}

\* open() of an argument.
OpenArgument ==
    /\ pc = "open" /\ optind <= Len(opt.argv)
    /\ UNCHANGED <<mount_list, selinux_mnt, opts, enforce, mountHost, modes, mountEvents>>
    /\ LET name == opt.argv[optind]
       IN IF name \notin mountHost.openable
          THEN GiveUp /\ UNCHANGED <<optind, mtab, mountSeen, roSeen>>
          ELSE /\ IF Triggered(name) = {} THEN UNCHANGED mtab
                  ELSE \E m \in Triggered(name) : mtab' = Append(mtab, m)
               /\ Remember(mtab', opts) /\ optind' = optind + 1 /\ UNCHANGED main

AllOpened ==
    /\ pc = "open" /\ optind > Len(opt.argv) /\ Goto("mtab") /\ UNCHANGED mountsVars

\* setmntent(); without a table SELinux is taken to be disabled.
OpenMtab ==
    /\ pc = "mtab" /\ UNCHANGED mountsVars
    /\ IF mountHost.table THEN Goto("entries")
       ELSE IF Runs({"selinux"}) THEN Exit(STATE_CRITICAL) ELSE GiveUp

\* The places of the mounts that getmntent() has still to return.
Unread == {p \in DOMAIN mtab : \A k \in DOMAIN mount_list : mount_list[k].id # mtab[p]}

\* read_file_system_list: one more entry.
ReadMount ==
    /\ pc = "entries" /\ UNCHANGED <<main, optind, selinux_mnt, host>>
    /\ \E p \in Unread :
         /\ \A q \in Unread : p <= q
         /\ mount_list' = Append(mount_list,
                [id |-> mtab[p], readonly |-> fs_check_if_readonly(opts[mtab[p]])])

Entry(k) == MountOf[mount_list[k].id]
me_dummy(me) == me.type \in DummyTypes
me_remote(me) == me.colon \/ (me.slashes /\ me.type \in {"smbfs", "cifs"})

skip_mount_entry(me) ==
    \/ me_remote(me) /\ opt.show_local_fs
    \/ me_dummy(me) /\ ~opt.show_all_fs
    \/ opt.fs_select # {} /\ me.type \notin opt.fs_select
    \/ me.type \in opt.fs_exclude

At(dir) == {k \in DOMAIN mount_list : Entry(k).mountdir = dir}

\* check_entry of check_readonlyfs: the first entry that is skipped ends the search.
ReadonlyAt(dir) ==
    \E k \in At(dir) : /\ mount_list[k].readonly
                       /\ \A j \in At(dir) : j <= k => ~skip_mount_entry(Entry(j))

\* check_all_entries
AnyReadonly ==
    \E k \in DOMAIN mount_list :
       /\ mount_list[k].readonly /\ ~skip_mount_entry(Entry(k))
       /\ opt.exclude_mode => {Entry(k).devname, Entry(k).mountdir} \cap Range(opt.argv) = {}

\* A mutant: the last argument decides.
UnmountedLast == At(Last(opt.argv)) = {}

\* The loop of check_ifmountfs over its arguments.
Unmounted == \E dir \in Range(opt.argv) : At(dir) = {}

CriticalIf(condition) == IF condition THEN STATE_CRITICAL ELSE STATE_OK

\* The end of the table, and the verdict of check_ifmountfs and check_readonlyfs.
JudgeMounts ==
    /\ pc = "entries" /\ Unread = {} /\ ~Runs({"selinux"}) /\ UNCHANGED mountsVars
    /\ IF mount_list = <<>> \/ (Runs({"ifmountfs"}) /\ opt.list) THEN GiveUp
       ELSE Exit(CriticalIf(
              IF Runs({"ifmountfs"}) THEN Unmounted
              ELSE IF opt.exclude_mode \/ opt.argv = <<>> THEN AnyReadonly
              ELSE \E dir \in Range(opt.argv) : ReadonlyAt(dir)))

\* file_system_type_exists: the first mount of selinuxfs.
FindSelinux ==
    /\ pc = "entries" /\ Unread = {} /\ Runs({"selinux"})
    /\ LET all == {k \in DOMAIN mount_list : Entry(k).type = "selinuxfs"}
       IN IF all = {} THEN Exit(STATE_CRITICAL) /\ UNCHANGED selinux_mnt
          ELSE /\ \E k \in all : /\ \A j \in all : k <= j
                                 /\ selinux_mnt' = mount_list[k].id
               /\ Goto("enforce")
    /\ UNCHANGED <<optind, mount_list, host>>

\* is_selinux_enabled: is the file "enforce" there,
FindEnforce ==
    /\ pc = "enforce" /\ UNCHANGED mountsVars
    /\ IF selinux_mnt \in Range(mtab) THEN Goto("value") ELSE Exit(STATE_CRITICAL)

\* A mutant: permissive is enabled.
ReadEnforceAny ==
    /\ pc = "value" /\ UNCHANGED mountsVars
    /\ IF selinux_mnt \notin Range(mtab) THEN GiveUp ELSE Exit(STATE_OK)

\* and what does it say?
ReadEnforce ==
    /\ pc = "value" /\ UNCHANGED mountsVars
    /\ IF selinux_mnt \notin Range(mtab) THEN GiveUp
       ELSE Exit(IF enforce = 1 \/ opt.permissive = "-p" THEN STATE_OK
                 ELSE IF opt.permissive = "--permissive-is-critical" THEN STATE_CRITICAL
                 ELSE STATE_WARNING)

MountsPlugin ==
    \/ MountsParseOptions \/ OpenArgument \/ AllOpened \/ OpenMtab \/ ReadMount
    \/ JudgeMounts \/ FindSelinux \/ FindEnforce \/ ReadEnforce

MountsSpec == /\ opt \in MountsOptions /\ PluginInit /\ MountsInit
              /\ [][MountsPlugin \/ MountsChange]_<<main, mountsVars>>

-----------------------------------------------------------------------------
MountsTypeOK ==
    /\ optind \in Nat \ {0}
    /\ mount_list \in Seq([id : Mount, readonly : BOOLEAN])
    /\ selinux_mnt \in Mount \cup {NULL} /\ mtab \in Seq(Mount)
    /\ opts \in [Mount -> SUBSET Tokens] /\ enforce \in {0, 1} /\ mountHost \in MountHosts
    /\ mountSeen.ever \subseteq Mount /\ roSeen.ever \subseteq Mount
    /\ modes \subseteq {0, 1} /\ mountEvents \in 0 .. MaxMountEvents

\* check_ifmountfs, while mounts come and go: what was mounted all the time is found,
\* what never was is missed.
MountedIsFound ==
    Runs({"ifmountfs"}) /\ Judged =>
        LET DirsOf(set) == {MountOf[m].mountdir : m \in set}
        IN /\ exit = STATE_OK => Range(opt.argv) \subseteq DirsOf(mountSeen.ever)
           /\ exit = STATE_CRITICAL => ~(Range(opt.argv) \subseteq DirsOf(mountSeen.steady))

\* The file systems check_readonlyfs is asked about: what its options select, at the
\* directories it is given, or but for them.
Asked(m) ==
    LET me == MountOf[m]
    IN /\ opt.fs_select = {} \/ me.type \in opt.fs_select
       /\ me.type \notin opt.fs_exclude
       /\ me_dummy(me) => opt.show_all_fs
       /\ opt.show_local_fs => ~me_remote(me)
       /\ IF opt.exclude_mode THEN {me.devname, me.mountdir} \cap Range(opt.argv) = {}
          ELSE opt.argv = <<>> \/ me.mountdir \in Range(opt.argv)

\* Another mount hides it from a search by directory: one that is not asked about,
\* at the same directory.
Shadowed(m) ==
    Opens /\ \E n \in mountSeen.ever : /\ MountOf[n].mountdir = MountOf[m].mountdir
                                       /\ skip_mount_entry(MountOf[n])

\* check_readonlyfs: a file system asked about that was read-only all the time makes
\* it CRITICAL, unless it is shadowed, and one that was never read-only does not; nor
\* does one that is not asked about.
ReadonlyIsCritical ==
    Runs({"readonlyfs"}) /\ Judged =>
        /\ exit = STATE_CRITICAL => \E m \in roSeen.ever : Asked(m)
        /\ exit = STATE_OK => \A m \in roSeen.steady : Asked(m) => Shadowed(m)

\* The comment's claim that the arguments are opened so that the partition is
\* automounted and found in the table: the shadow of its own autofs included.
AutomountedIsChecked ==
    Runs({"readonlyfs"}) /\ Judged /\ Opens =>
        (exit = STATE_OK => \A m \in roSeen.steady : ~Asked(m))

\* check_selinux: OK only if SELinux enforced at some time, or if permissive is
\* allowed, on a host with a selinuxfs at some time; not OK only if at some time it did
\* not, or one selinuxfs was not there all the time.
EnforcingIsOK ==
    Runs({"selinux"}) /\ Judged =>
        LET Selinuxfs(set) == {m \in set : MountOf[m].type = "selinuxfs"}
        IN /\ exit = STATE_OK => /\ Selinuxfs(mountSeen.ever) # {}
                                 /\ 1 \in modes \/ opt.permissive = "-p"
           /\ exit # STATE_OK => \/ ~mountHost.table
                                 \/ Selinuxfs(mountSeen.steady) = {}
                                 \/ Selinuxfs(mountSeen.ever \ mountSeen.steady) # {}
                                 \/ 0 \in modes /\ opt.permissive # "-p"

\* Why the exit status may be UNKNOWN.
MountsReason ==
    \/ MountsBadOptions
    \/ ~mountHost.table /\ ~Runs({"selinux"})
    \/ Runs({"ifmountfs"}) /\ opt.list
    \/ mountSeen.steady = {}
    \/ Opens /\ ~(Range(opt.argv) \subseteq mountHost.openable)
    \/ Runs({"selinux"}) /\ \E m \in mountSeen.ever \ mountSeen.steady :
                               MountOf[m].type = "selinuxfs"
=============================================================================
