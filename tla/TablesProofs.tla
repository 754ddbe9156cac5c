---------------------------- MODULE TablesProofs ----------------------------
(***************************************************************************)
(* Proofs about the plugins that walk a table of the kernel that changes   *)
(* while they walk it, for every table and every sequence of changes: the  *)
(* mounts, the processes and login records, the TCP sockets and the CPUs.  *)
(***************************************************************************)
EXTENDS Mounts, Processes, TcpTable, Topology, CommonLemmas

-----------------------------------------------------------------------------
(***************************************************************************)
(* The mounts: check_readonlyfs, check_ifmountfs and check_selinux.        *)
(***************************************************************************)

\* The ghosts enclose what is mounted, what is read-only and the mode.
Enclosed ==
    /\ mountSeen.steady \subseteq Range(mtab) /\ Range(mtab) \subseteq mountSeen.ever
    /\ roSeen.steady \subseteq ReadOnly(mtab, opts)
    /\ ReadOnly(mtab, opts) \subseteq roSeen.ever
    /\ enforce \in modes

\* Every entry read was mounted at some time; it is read-only if its mount was so all
\* the time, and only if its mount was so at some time.
ListedTruly ==
    \A k \in DOMAIN mount_list :
       /\ mount_list[k].id \in mountSeen.ever
       /\ mount_list[k].readonly => mount_list[k].id \in roSeen.ever
       /\ mount_list[k].id \in roSeen.steady => mount_list[k].readonly

\* What has been read at each place of main().
Phase ==
    /\ pc \in {"options", "open", "mtab"} => mount_list = <<>>
    /\ pc \in {"enforce", "value"} =>
          /\ opt.program = "selinux" /\ selinux_mnt \in mountSeen.ever
          /\ MountOf[selinux_mnt].type = "selinuxfs"

\* The three verdicts.
Verdicts == MountedIsFound /\ ReadonlyIsCritical /\ EnforcingIsOK

\* The inductive invariant.
MountsInv ==
    /\ MountsTypeOK /\ opt \in MountsOptions
    /\ Enclosed /\ ListedTruly /\ Phase /\ Verdicts

-----------------------------------------------------------------------------
(* Sequences *)

\* A table without one of its mounts, or with one more.
LEMMA TableType ==
    ASSUME NEW S, NEW s \in Seq(S)
    PROVE  /\ Range(s) \subseteq S
           /\ \A k \in DOMAIN s : RemoveAt(s, k) \in Seq(S)
           /\ \A m \in S : Append(s, m) \in Seq(S)
<1>1. \A k \in DOMAIN s : s[k] \in S
  OBVIOUS
<1>2. ASSUME NEW k \in DOMAIN s PROVE RemoveAt(s, k) \in Seq(S)
  <2>1. SubSeq(s, 1, k - 1) \in Seq(S) /\ SubSeq(s, k + 1, Len(s)) \in Seq(S)
    OBVIOUS
  <2> QED BY <2>1 DEF RemoveAt
<1> QED BY <1>1, <1>2 DEF Range

\* An entry is appended behind the others.
LEMMA AppendedEntry ==
    ASSUME NEW S, NEW s \in Seq(S), NEW e \in S
    PROVE  /\ Append(s, e) \in Seq(S)
           /\ DOMAIN Append(s, e) = DOMAIN s \cup {Len(s) + 1}
           /\ \A k \in DOMAIN s : Append(s, e)[k] = s[k]
           /\ Append(s, e)[Len(s) + 1] = e
OBVIOUS

-----------------------------------------------------------------------------
(* The ghosts *)

\* Whether the plugin has opened the table or not, the ghosts enclose the table
\* after it has changed.
LEMMA RememberEncloses ==
    ASSUME NEW table \in Seq(Mount), NEW options, Remember(table, options)
    PROVE  /\ mountSeen'.steady \subseteq Range(table)
           /\ Range(table) \subseteq mountSeen'.ever
           /\ roSeen'.steady \subseteq ReadOnly(table, options)
           /\ ReadOnly(table, options) \subseteq roSeen'.ever
           /\ mountSeen.ever \subseteq Mount => mountSeen'.ever \subseteq Mount
           /\ roSeen.ever \subseteq Mount => roSeen'.ever \subseteq Mount
           /\ Watched => /\ mountSeen'.steady \subseteq mountSeen.steady
                         /\ mountSeen.ever \subseteq mountSeen'.ever
                         /\ roSeen'.steady \subseteq roSeen.steady
                         /\ roSeen.ever \subseteq roSeen'.ever
<1>1. Range(table) \subseteq Mount /\ ReadOnly(table, options) \subseteq Range(table)
  BY TableType DEF ReadOnly
<1>2. CASE Watched
  BY <1>1, <1>2 DEF Remember, Meeting
<1>3. CASE ~Watched
  BY <1>1, <1>3 DEF Remember, Since
<1> QED BY <1>2, <1>3

\* A change of the mounts or of the mode keeps the invariant.
LEMMA ChangeKeeps ==
    ASSUME MountsInv, MountsChange
    PROVE  MountsInv'
<1>1. /\ pc \in {"open", "mtab", "entries", "enforce", "value"}
      /\ UNCHANGED <<pc, opt, exit, optind, mount_list, selinux_mnt, mountHost>>
      /\ modes' = modes \cup {enforce'} /\ mountEvents < MaxMountEvents
      /\ mountEvents' = mountEvents + 1 /\ Remember(mtab', opts')
  BY DEF MountsChange, main, found
<1>2. mtab' \in Seq(Mount) /\ opts' \in [Mount -> SUBSET Tokens] /\ enforce' \in {0, 1}
  <2>0. mtab \in Seq(Mount) /\ opts \in [Mount -> SUBSET Tokens] /\ enforce \in {0, 1}
    BY DEF MountsInv, MountsTypeOK
  <2>1. CASE \E m \in Mount \ mountSeen.ever : mtab' = Append(mtab, m) /\ UNCHANGED <<opts, enforce>>
    BY <2>0, <2>1, TableType
  <2>2. CASE \E k \in DOMAIN mtab : mtab' = RemoveAt(mtab, k) /\ UNCHANGED <<opts, enforce>>
    BY <2>0, <2>2, TableType
  <2>3. CASE \E m \in Range(mtab) :
                /\ opts' = [opts EXCEPT ![m] = IF "ro" \in @ THEN {"rw"} ELSE {"ro"}]
                /\ UNCHANGED <<mtab, enforce>>
    BY <2>0, <2>3 DEF Tokens
  <2>4. CASE enforce' = 1 - enforce /\ UNCHANGED <<mtab, opts>>
    BY <2>0, <2>4
  <2> QED BY <2>1, <2>2, <2>3, <2>4 DEF MountsChange
<1>3. /\ mountSeen'.steady \subseteq Range(mtab') /\ Range(mtab') \subseteq mountSeen'.ever
      /\ roSeen'.steady \subseteq ReadOnly(mtab', opts')
      /\ ReadOnly(mtab', opts') \subseteq roSeen'.ever
      /\ mountSeen'.ever \subseteq Mount /\ roSeen'.ever \subseteq Mount
      /\ Watched => /\ mountSeen.ever \subseteq mountSeen'.ever
                    /\ roSeen'.steady \subseteq roSeen.steady
                    /\ roSeen.ever \subseteq roSeen'.ever
  BY <1>1, <1>2, RememberEncloses DEF MountsInv, MountsTypeOK
<1>4. MountsTypeOK'
  BY <1>1, <1>2, <1>3, MountsAssumption DEF MountsInv, MountsTypeOK
<1>5. Enclosed'
  BY <1>1, <1>3 DEF Enclosed, ReadOnly
<1>6. ListedTruly' /\ Phase'
  <2>1. CASE Watched
    BY <1>1, <1>3, <2>1 DEF MountsInv, ListedTruly, Phase
  <2>2. CASE ~Watched
    <3>1. pc = "open" /\ mount_list' = <<>>
      BY <1>1, <2>2 DEF Watched, MountsInv, Phase
    <3> QED BY <1>1, <3>1 DEF ListedTruly, Phase
  <2> QED BY <2>1, <2>2
<1>7. Verdicts'
  BY <1>1 DEF Verdicts, MountedIsFound, ReadonlyIsCritical, EnforcingIsOK, Judged
<1> QED BY <1>1, <1>4, <1>5, <1>6, <1>7 DEF MountsInv

-----------------------------------------------------------------------------
(* The plugins *)

\* The first states.
LEMMA InitIInv == (opt \in MountsOptions /\ PluginInit /\ MountsInit) => MountsInv
<1> SUFFICES ASSUME opt \in MountsOptions, PluginInit, MountsInit
             PROVE  MountsInv
  OBVIOUS
<1>1. opt.program \in MountsPrograms
  BY MountsAssumption DEF MountsCommandLine, MountsPrograms
<1>2. mountHost \in MountHosts
  BY <1>1 DEF MountsInit, Either, Runs
<1>3. mtab \in Seq(Mount) /\ opts \in [Mount -> SUBSET Tokens] /\ enforce \in {0, 1}
  BY <1>2, MountsAssumption DEF MountsInit
<1>4. MountsTypeOK
  BY <1>2, <1>3, TableType, MountsAssumption DEF MountsInit, MountsTypeOK, Since, ReadOnly
<1>5. Enclosed /\ ListedTruly /\ Phase
  BY DEF MountsInit, PluginInit, Enclosed, ListedTruly, Phase, Since
<1>6. Verdicts
  BY DEF PluginInit, Verdicts, MountedIsFound, ReadonlyIsCritical, EnforcingIsOK, Judged
<1> QED BY <1>4, <1>5, <1>6 DEF MountsInv

\* A step of main() within the table that gives no verdict keeps what is known.
LEMMA QuietStep ==
    ASSUME MountsInv, UNCHANGED mountsVars, opt' = opt, pc' # "exited",
           pc' \in {"open", "mtab"} => pc \in {"options", "open", "mtab"},
           pc' # "options",
           pc' \in {"enforce", "value"} => pc \in {"enforce", "value"}
    PROVE  MountsInv'
<1>1. MountsTypeOK' /\ Enclosed' /\ ListedTruly' /\ Phase'
  BY DEF MountsInv, MountsTypeOK, Enclosed, ReadOnly, ListedTruly, Phase, mountsVars, found, host
<1>2. Verdicts'
  BY DEF Verdicts, MountedIsFound, ReadonlyIsCritical, EnforcingIsOK, Judged
<1> QED BY <1>1, <1>2 DEF MountsInv

\* The end of main() keeps the invariant if its verdict is justified.
LEMMA LastStep ==
    ASSUME MountsInv, UNCHANGED mountsVars, opt' = opt, pc' = "exited", Verdicts'
    PROVE  MountsInv'
BY DEF MountsInv, MountsTypeOK, Enclosed, ReadOnly, ListedTruly, Phase, mountsVars, found, host

\* Giving up is no verdict.
LEMMA GiveUpIsNoVerdict ==
    ASSUME GiveUp
    PROVE  Verdicts' /\ pc' = "exited" /\ opt' = opt
BY DEF GiveUp, Exit, Verdicts, MountedIsFound, ReadonlyIsCritical, EnforcingIsOK, Judged

\* The options are parsed.
LEMMA ParseStep ==
    ASSUME MountsInv, MountsParseOptions
    PROVE  MountsInv'
<1>1. CASE MountsBadOptions
  BY <1>1, GiveUpIsNoVerdict, LastStep DEF MountsParseOptions
<1>2. CASE ~MountsBadOptions
  BY <1>2, QuietStep DEF MountsParseOptions, Goto
<1> QED BY <1>1, <1>2

\* What the opening of an argument mounts is part of what was there at the start.
LEMMA OpenStep ==
    ASSUME MountsInv, OpenArgument
    PROVE  MountsInv'
<1> DEFINE name == opt.argv[optind]
<1>1. CASE name \notin mountHost.openable
  <2>1. GiveUp /\ UNCHANGED mountsVars
    BY <1>1 DEF OpenArgument, mountsVars, found, host
  <2> QED BY <2>1, GiveUpIsNoVerdict, LastStep
<1>2. CASE name \in mountHost.openable
  <2>1. /\ pc = "open" /\ optind' = optind + 1 /\ Remember(mtab', opts)
        /\ UNCHANGED <<pc, opt, exit, mount_list, selinux_mnt, opts, enforce,
                       mountHost, modes, mountEvents>>
    BY <1>2 DEF OpenArgument, main
  <2>2. mtab' \in Seq(Mount)
    <3>1. ASSUME NEW m \in Triggered(name), mtab' = Append(mtab, m)
          PROVE  mtab' \in Seq(Mount)
      <4>1. m \in {Automount[name]} \ {NULL}
        BY DEF Triggered
      <4>2. opt.argv \in Seq(Dir) /\ optind \in 1 .. Len(opt.argv)
        BY MountsAssumption DEF OpenArgument, MountsInv, MountsTypeOK, MountsCommandLine
      <4>3. m \in Mount
        BY <4>1, <4>2, MountsAssumption
      <4> QED BY <3>1, <4>3, TableType DEF MountsInv, MountsTypeOK
    <3>2. CASE mtab' = mtab
      BY <3>2 DEF MountsInv, MountsTypeOK
    <3> QED BY <1>2, <3>1, <3>2 DEF OpenArgument
  <2>3. MountsTypeOK' /\ Enclosed'
    BY <2>1, <2>2, RememberEncloses DEF MountsInv, MountsTypeOK, Enclosed, ReadOnly
  <2>4. mount_list' = <<>>
    BY <2>1 DEF MountsInv, Phase
  <2>5. ListedTruly' /\ Phase' /\ Verdicts'
    BY <2>1, <2>4 DEF ListedTruly, Phase, Verdicts, MountedIsFound, ReadonlyIsCritical,
                      EnforcingIsOK, Judged
  <2> QED BY <2>1, <2>3, <2>5 DEF MountsInv
<1> QED BY <1>1, <1>2

\* An entry is read as it is then.
LEMMA ReadStep ==
    ASSUME MountsInv, ReadMount
    PROVE  MountsInv'
<1>1. PICK p \in Unread :
          mount_list' = Append(mount_list,
              [id |-> mtab[p], readonly |-> fs_check_if_readonly(opts[mtab[p]])])
  BY DEF ReadMount
<1>2. /\ pc = "entries"
      /\ UNCHANGED <<pc, opt, exit, optind, selinux_mnt, mtab, opts, enforce, mountHost,
                     mountSeen, roSeen, modes, mountEvents>>
  BY DEF ReadMount, main, host
<1> DEFINE Read == [id |-> mtab[p], readonly |-> fs_check_if_readonly(opts[mtab[p]])]
<1>3. /\ mtab[p] \in Range(mtab) /\ mtab[p] \in Mount
      /\ Read \in [id : Mount, readonly : BOOLEAN]
      /\ mount_list \in Seq([id : Mount, readonly : BOOLEAN])
  BY <1>1, TableType DEF Unread, Range, MountsInv, MountsTypeOK, fs_check_if_readonly
<1>4. /\ mount_list' \in Seq([id : Mount, readonly : BOOLEAN])
      /\ DOMAIN mount_list' = DOMAIN mount_list \cup {Len(mount_list) + 1}
      /\ \A k \in DOMAIN mount_list : mount_list'[k] = mount_list[k]
      /\ mount_list'[Len(mount_list) + 1] = Read
  BY <1>1, <1>3, AppendedEntry
<1>5. /\ Read.id \in mountSeen.ever
      /\ Read.readonly => Read.id \in roSeen.ever
      /\ Read.id \in roSeen.steady => Read.readonly
  BY <1>3 DEF MountsInv, Enclosed, ReadOnly, fs_check_if_readonly
<1> HIDE DEF Read
<1>6. ListedTruly'
  BY <1>2, <1>4, <1>5 DEF MountsInv, ListedTruly
<1>7. MountsTypeOK' /\ Enclosed' /\ Phase'
  BY <1>2, <1>4 DEF MountsInv, MountsTypeOK, Enclosed, ReadOnly, Phase
<1>8. Verdicts'
  BY <1>2 DEF Verdicts, MountedIsFound, ReadonlyIsCritical, EnforcingIsOK, Judged
<1> QED BY <1>2, <1>6, <1>7, <1>8 DEF MountsInv

-----------------------------------------------------------------------------
(* The verdicts *)

\* At the end of the table all that is mounted is listed.
LEMMA AllListed ==
    ASSUME MountsInv, Unread = {}
    PROVE  \A m \in mountSeen.steady \cup roSeen.steady :
              \E k \in DOMAIN mount_list : mount_list[k].id = m
<1>1. \A m \in Range(mtab) : \E k \in DOMAIN mount_list : mount_list[k].id = m
  BY DEF Unread, Range
<1> QED BY <1>1 DEF MountsInv, Enclosed, ReadOnly

\* A mount is found at its directory.
LEMMA FoundAt ==
    ASSUME NEW k \in DOMAIN mount_list
    PROVE  k \in At(MountOf[mount_list[k].id].mountdir)
BY DEF At, Entry

\* check_ifmountfs.
LEMMA IfMountsVerdict ==
    ASSUME MountsInv, Unread = {}
    PROVE  /\ ~Unmounted => \A dir \in Range(opt.argv) :
                               \E m \in mountSeen.ever : MountOf[m].mountdir = dir
           /\ Unmounted => \E dir \in Range(opt.argv) :
                               \A m \in mountSeen.steady : MountOf[m].mountdir # dir
<1>1. ASSUME NEW dir, At(dir) # {}
      PROVE  \E m \in mountSeen.ever : MountOf[m].mountdir = dir
  <2>1. PICK k \in DOMAIN mount_list : Entry(k).mountdir = dir
    BY <1>1 DEF At
  <2> QED BY <2>1 DEF Entry, MountsInv, ListedTruly
<1>2. ASSUME NEW dir, At(dir) = {}, NEW m \in mountSeen.steady
      PROVE  MountOf[m].mountdir # dir
  BY <1>2, AllListed, FoundAt
<1> QED BY <1>1, <1>2 DEF Unmounted

\* What check_readonlyfs skips, the options do not select.
LEMMA SelectedByOptions ==
    ASSUME NEW m, Runs({"readonlyfs"}), opt.exclude_mode \in BOOLEAN
    PROVE  Asked(m) <=>
             /\ ~skip_mount_entry(MountOf[m])
             /\ IF opt.exclude_mode
                THEN {MountOf[m].devname, MountOf[m].mountdir} \cap Range(opt.argv) = {}
                ELSE opt.argv = <<>> \/ MountOf[m].mountdir \in Range(opt.argv)
BY DEF Asked, skip_mount_entry

\* check_readonlyfs without arguments, or with arguments to leave out.
LEMMA AllEntriesVerdict ==
    ASSUME MountsInv, Unread = {}, Runs({"readonlyfs"}), opt.exclude_mode \in BOOLEAN,
           opt.exclude_mode \/ opt.argv = <<>>
    PROVE  /\ AnyReadonly => \E m \in roSeen.ever : Asked(m)
           /\ ~AnyReadonly => \A m \in roSeen.steady : ~Asked(m)
<1>1. ASSUME AnyReadonly
      PROVE  \E m \in roSeen.ever : Asked(m)
  <2>1. PICK k \in DOMAIN mount_list :
          /\ mount_list[k].readonly /\ ~skip_mount_entry(Entry(k))
          /\ opt.exclude_mode =>
                {Entry(k).devname, Entry(k).mountdir} \cap Range(opt.argv) = {}
    BY <1>1 DEF AnyReadonly
  <2>2. Asked(mount_list[k].id)
    BY <2>1, SelectedByOptions DEF Entry
  <2> QED BY <2>1, <2>2 DEF MountsInv, ListedTruly
<1>2. ASSUME ~AnyReadonly, NEW m \in roSeen.steady, Asked(m)
      PROVE  FALSE
  <2>1. PICK k \in DOMAIN mount_list : mount_list[k].id = m
    BY AllListed
  <2>2. mount_list[k].readonly
    BY <2>1 DEF MountsInv, ListedTruly
  <2>3. /\ ~skip_mount_entry(Entry(k))
        /\ opt.exclude_mode =>
              {Entry(k).devname, Entry(k).mountdir} \cap Range(opt.argv) = {}
    BY <1>2, <2>1, SelectedByOptions DEF Entry
  <2> QED BY <1>2, <2>2, <2>3 DEF AnyReadonly
<1> QED BY <1>1, <1>2

\* check_readonlyfs with arguments.
LEMMA ArgumentsVerdict ==
    ASSUME MountsInv, Unread = {}, Runs({"readonlyfs"}), opt.exclude_mode = FALSE,
           opt.argv # <<>>
    PROVE  LET critical == \E dir \in Range(opt.argv) : ReadonlyAt(dir)
           IN /\ critical => \E m \in roSeen.ever : Asked(m)
              /\ ~critical => \A m \in roSeen.steady : Asked(m) => Shadowed(m)
<1>0. DOMAIN mount_list \subseteq Nat
  BY DEF MountsInv, MountsTypeOK
<1>1. ASSUME NEW dir \in Range(opt.argv), ReadonlyAt(dir)
      PROVE  \E m \in roSeen.ever : Asked(m)
  <2>1. PICK k \in At(dir) : /\ mount_list[k].readonly
                             /\ \A j \in At(dir) : j <= k => ~skip_mount_entry(Entry(j))
    BY <1>1 DEF ReadonlyAt
  <2>2. k \in DOMAIN mount_list /\ Entry(k).mountdir = dir
    BY DEF At
  <2>3. ~skip_mount_entry(Entry(k))
    BY <1>0, <2>1, <2>2
  <2>4. Asked(mount_list[k].id)
    BY <1>1, <2>2, <2>3, SelectedByOptions DEF Entry
  <2> QED BY <2>1, <2>2, <2>4 DEF MountsInv, ListedTruly
<1>2. ASSUME NEW m \in roSeen.steady, Asked(m), \A dir \in Range(opt.argv) : ~ReadonlyAt(dir)
      PROVE  Shadowed(m)
  <2> DEFINE dir == MountOf[m].mountdir
  <2>1. PICK k \in DOMAIN mount_list : mount_list[k].id = m
    BY AllListed
  <2>2. mount_list[k].readonly /\ k \in At(dir)
    BY <2>1, FoundAt DEF MountsInv, ListedTruly
  <2>3. dir \in Range(opt.argv)
    BY <1>2, SelectedByOptions
  <2>4. PICK j \in At(dir) : skip_mount_entry(Entry(j))
    BY <1>2, <2>2, <2>3 DEF ReadonlyAt
  <2>5. /\ mount_list[j].id \in mountSeen.ever
        /\ MountOf[mount_list[j].id].mountdir = dir
        /\ skip_mount_entry(MountOf[mount_list[j].id])
    BY <2>4 DEF At, Entry, MountsInv, ListedTruly
  <2> QED BY <2>5 DEF Shadowed, Opens
<1> QED BY <1>1, <1>2

\* The end of the table, for check_ifmountfs and check_readonlyfs.
LEMMA JudgeStep ==
    ASSUME MountsInv, JudgeMounts
    PROVE  MountsInv'
<1>0. Unread = {} /\ UNCHANGED mountsVars /\ opt.program # "selinux"
  BY DEF JudgeMounts, Runs
<1>1. /\ opt.program \in {"ifmountfs", "readonlyfs", "selinux"}
      /\ opt.exclude_mode \in BOOLEAN
  BY MountsAssumption DEF MountsInv, MountsCommandLine
<1>2. CASE mount_list = <<>> \/ (Runs({"ifmountfs"}) /\ opt.list)
  BY <1>0, <1>2, GiveUpIsNoVerdict, LastStep DEF JudgeMounts
<1>3. CASE /\ ~(mount_list = <<>> \/ (Runs({"ifmountfs"}) /\ opt.list))
           /\ opt.program = "ifmountfs"
  <2>1. pc' = "exited" /\ opt' = opt /\ exit' = CriticalIf(Unmounted)
    BY <1>3 DEF JudgeMounts, Exit, Runs
  <2>2. UNCHANGED <<mountSeen, roSeen, mountHost, modes>>
    BY <1>0 DEF mountsVars, host
  <2>3. MountedIsFound'
    <3>1. CASE Unmounted
      BY <1>0, <2>1, <2>2, <3>1, IfMountsVerdict
         DEF MountedIsFound, CriticalIf, STATE_OK, STATE_CRITICAL
    <3>2. CASE ~Unmounted
      BY <1>0, <2>1, <2>2, <3>2, IfMountsVerdict
         DEF MountedIsFound, CriticalIf, STATE_OK, STATE_CRITICAL
    <3> QED BY <3>1, <3>2
  <2>4. Verdicts'
    BY <1>3, <2>1, <2>3 DEF Verdicts, ReadonlyIsCritical, EnforcingIsOK, Runs
  <2> QED BY <1>0, <2>1, <2>4, LastStep
<1>4. CASE mount_list # <<>> /\ opt.program = "readonlyfs"
  <2> DEFINE critical == IF opt.exclude_mode \/ opt.argv = <<>> THEN AnyReadonly
                         ELSE \E dir \in Range(opt.argv) : ReadonlyAt(dir)
  <2>1. pc' = "exited" /\ opt' = opt /\ exit' = CriticalIf(critical)
    BY <1>4 DEF JudgeMounts, Exit, Runs
  <2>2. UNCHANGED <<mountSeen, roSeen, mountHost, modes>>
    BY <1>0 DEF mountsVars, host
  <2>3. /\ critical => \E m \in roSeen.ever : Asked(m)
        /\ ~critical => \A m \in roSeen.steady : Asked(m) => Shadowed(m)
    <3>1. Runs({"readonlyfs"})
      BY <1>4 DEF Runs
    <3>2. CASE opt.exclude_mode \/ opt.argv = <<>>
      BY <1>0, <1>1, <3>1, <3>2, AllEntriesVerdict
    <3>3. CASE ~(opt.exclude_mode \/ opt.argv = <<>>)
      BY <1>0, <1>1, <3>1, <3>3, ArgumentsVerdict
    <3> QED BY <3>2, <3>3
  <2>4. \A m : (Asked(m) <=> Asked(m)') /\ (Shadowed(m) <=> Shadowed(m)')
    BY <2>1, <2>2 DEF Asked, Shadowed, Opens, Runs, skip_mount_entry
  <2> HIDE DEF critical
  <2>5. ReadonlyIsCritical'
    BY <2>1, <2>2, <2>3, <2>4 DEF ReadonlyIsCritical, CriticalIf, STATE_OK, STATE_CRITICAL
  <2>6. Verdicts'
    BY <1>4, <2>1, <2>5 DEF Verdicts, MountedIsFound, EnforcingIsOK, Runs
  <2> QED BY <1>0, <2>1, <2>6, LastStep
<1> QED BY <1>0, <1>1, <1>2, <1>3, <1>4 DEF Runs

-----------------------------------------------------------------------------
(* check_selinux *)

\* A step that ends check_selinux keeps the invariant if EnforcingIsOK holds then.
LEMMA SelinuxEnds ==
    ASSUME MountsInv, UNCHANGED mountsVars, opt' = opt, pc' = "exited",
           opt.program = "selinux", EnforcingIsOK'
    PROVE  MountsInv'
BY LastStep DEF Verdicts, MountedIsFound, ReadonlyIsCritical, Runs

\* setmntent(): without a table it ends CRITICAL.
LEMMA OpenMtabStep ==
    ASSUME MountsInv, OpenMtab
    PROVE  MountsInv'
<1>1. CASE mountHost.table
  BY <1>1, QuietStep DEF OpenMtab, Goto
<1>2. CASE ~mountHost.table /\ Runs({"selinux"})
  <2>1. UNCHANGED mountsVars /\ Exit(STATE_CRITICAL)
    BY <1>2 DEF OpenMtab
  <2>2. EnforcingIsOK'
    BY <1>2, <2>1 DEF Exit, EnforcingIsOK, mountsVars, host, STATE_OK, STATE_CRITICAL
  <2> QED BY <1>2, <2>1, <2>2, SelinuxEnds DEF Exit, Runs
<1>3. CASE ~mountHost.table /\ ~Runs({"selinux"})
  BY <1>3, GiveUpIsNoVerdict, LastStep DEF OpenMtab
<1> QED BY <1>1, <1>2, <1>3

\* The search for selinuxfs at the end of the table.
LEMMA FindStep ==
    ASSUME MountsInv, FindSelinux
    PROVE  MountsInv'
<1> DEFINE all == {k \in DOMAIN mount_list : Entry(k).type = "selinuxfs"}
<1>0. /\ Unread = {} /\ opt.program = "selinux"
      /\ UNCHANGED <<optind, mount_list, mtab, opts, enforce, mountHost, mountSeen,
                     roSeen, modes, mountEvents>>
  BY DEF FindSelinux, Runs, host
<1>1. CASE all = {}
  <2>1. UNCHANGED mountsVars /\ Exit(STATE_CRITICAL)
    BY <1>0, <1>1 DEF FindSelinux, mountsVars, found, host
  <2>2. \A m \in mountSeen.steady : MountOf[m].type # "selinuxfs"
    BY <1>0, <1>1, AllListed DEF Entry
  <2>3. EnforcingIsOK'
    BY <1>0, <2>1, <2>2 DEF Exit, EnforcingIsOK, STATE_OK, STATE_CRITICAL
  <2> QED BY <1>0, <2>1, <2>3, SelinuxEnds DEF Exit
<1>2. CASE all # {}
  <2>1. pc' = "enforce" /\ UNCHANGED <<opt, exit>>
    BY <1>2 DEF FindSelinux, Goto
  <2>2. PICK k \in all : selinux_mnt' = mount_list[k].id
    BY <1>2 DEF FindSelinux
  <2>3. /\ mount_list[k].id \in mountSeen.ever
        /\ MountOf[mount_list[k].id].type = "selinuxfs"
    BY <2>2 DEF Entry, MountsInv, ListedTruly
  <2>4. MountsTypeOK' /\ Phase'
    BY <1>0, <2>1, <2>2, <2>3 DEF MountsInv, MountsTypeOK, Phase
  <2>5. Enclosed' /\ ListedTruly'
    BY <1>0, <2>1 DEF MountsInv, Enclosed, ReadOnly, ListedTruly
  <2>6. Verdicts'
    BY <2>1 DEF Verdicts, MountedIsFound, ReadonlyIsCritical, EnforcingIsOK, Judged
  <2> QED BY <2>1, <2>4, <2>5, <2>6 DEF MountsInv
<1> QED BY <1>1, <1>2

\* A selinuxfs that was found and is no longer mounted was not there all the time.
LEMMA GoneSince ==
    ASSUME MountsInv, pc \in {"enforce", "value"}, selinux_mnt \notin Range(mtab)
    PROVE  /\ selinux_mnt \in mountSeen.ever \ mountSeen.steady
           /\ MountOf[selinux_mnt].type = "selinuxfs"
BY DEF MountsInv, Phase, Enclosed

\* access() of the file "enforce".
LEMMA FindEnforceStep ==
    ASSUME MountsInv, FindEnforce
    PROVE  MountsInv'
<1>1. CASE selinux_mnt \in Range(mtab)
  BY <1>1, QuietStep DEF FindEnforce, Goto
<1>2. CASE selinux_mnt \notin Range(mtab)
  <2>1. UNCHANGED mountsVars /\ Exit(STATE_CRITICAL) /\ pc = "enforce"
    BY <1>2 DEF FindEnforce
  <2>2. EnforcingIsOK'
    BY <1>2, <2>1, GoneSince
       DEF Exit, EnforcingIsOK, mountsVars, host, STATE_OK, STATE_CRITICAL
  <2> QED BY <2>1, <2>2, SelinuxEnds DEF Exit, MountsInv, Phase
<1> QED BY <1>1, <1>2

\* The mode is read.
LEMMA ReadEnforceStep ==
    ASSUME MountsInv, ReadEnforce
    PROVE  MountsInv'
<1>0. pc = "value" /\ UNCHANGED mountsVars
  BY DEF ReadEnforce
<1>1. CASE selinux_mnt \notin Range(mtab)
  BY <1>0, <1>1, GiveUpIsNoVerdict, LastStep DEF ReadEnforce
<1>2. CASE selinux_mnt \in Range(mtab)
  <2>1. /\ pc' = "exited" /\ opt' = opt
        /\ exit' = (IF enforce = 1 \/ opt.permissive = "-p" THEN STATE_OK
                    ELSE IF opt.permissive = "--permissive-is-critical" THEN STATE_CRITICAL
                    ELSE STATE_WARNING)
    BY <1>2 DEF ReadEnforce, Exit
  <2>2. UNCHANGED <<mountSeen, mountHost, modes>>
    BY <1>0 DEF mountsVars, host
  <2>3. /\ selinux_mnt \in mountSeen.ever /\ MountOf[selinux_mnt].type = "selinuxfs"
        /\ enforce \in modes /\ enforce \in {0, 1} /\ opt.program = "selinux"
    BY <1>0 DEF MountsInv, Phase, Enclosed, MountsTypeOK
  <2>4. EnforcingIsOK'
    BY <2>1, <2>2, <2>3 DEF EnforcingIsOK, STATE_OK, STATE_WARNING, STATE_CRITICAL
  <2> QED BY <1>0, <2>1, <2>3, <2>4, SelinuxEnds
<1> QED BY <1>1, <1>2

-----------------------------------------------------------------------------
\* The inductive invariant holds throughout.
THEOREM MountsInductive == MountsSpec => []MountsInv
<1>1. MountsInv /\ [MountsPlugin \/ MountsChange]_<<main, mountsVars>> => MountsInv'
  <2> SUFFICES ASSUME MountsInv, [MountsPlugin \/ MountsChange]_<<main, mountsVars>>
               PROVE  MountsInv'
    OBVIOUS
  <2>1. CASE UNCHANGED <<main, mountsVars>>
    BY <2>1 DEF MountsInv, MountsTypeOK, Enclosed, ReadOnly, ListedTruly, Phase, Verdicts,
                MountedIsFound, ReadonlyIsCritical, EnforcingIsOK, Judged, Asked, Shadowed,
                Opens, Runs, skip_mount_entry, main, mountsVars, found, host
  <2>2. CASE AllOpened
    BY <2>2, QuietStep DEF AllOpened, Goto
  <2>3. CASE MountsPlugin
    BY <2>2, <2>3, ParseStep, OpenStep, OpenMtabStep, ReadStep, JudgeStep, FindStep,
       FindEnforceStep, ReadEnforceStep DEF MountsPlugin
  <2>4. CASE MountsChange
    BY <2>4, ChangeKeeps
  <2> QED BY <2>1, <2>3, <2>4
<1> QED BY <1>1, InitIInv, PTL DEF MountsSpec

\* Type correctness of the plugins that read the table of mounts.
THEOREM MountsTypeCorrect == MountsSpec => []MountsTypeOK
<1>1. MountsInv => MountsTypeOK
  BY DEF MountsInv
<1> QED BY <1>1, MountsInductive, PTL

\* check_ifmountfs: what is mounted all the time is found, what never is is missed,
\* whatever is mounted and unmounted while the table is read.
THEOREM MountedFound == MountsSpec => []MountedIsFound
<1>1. MountsInv => MountedIsFound
  BY DEF MountsInv, Verdicts
<1> QED BY <1>1, MountsInductive, PTL

\* check_readonlyfs: a file system asked about that is read-only all the time makes it
\* CRITICAL unless it is shadowed, and nothing else does.
THEOREM ReadonlyCritical == MountsSpec => []ReadonlyIsCritical
<1>1. MountsInv => ReadonlyIsCritical
  BY DEF MountsInv, Verdicts
<1> QED BY <1>1, MountsInductive, PTL

\* check_selinux: its verdict is that of a mode SELinux had since the table was opened.
THEOREM EnforcingOK == MountsSpec => []EnforcingIsOK
<1>1. MountsInv => EnforcingIsOK
  BY DEF MountsInv, Verdicts
<1> QED BY <1>1, MountsInductive, PTL

-----------------------------------------------------------------------------
(***************************************************************************)
(* The processes and the login records: check_nbprocs and check_users.     *)
(***************************************************************************)

\* What is counted: a thread of a process, or a record, with its user.
Member == (PID \cup Slot) \X Uid \X (1 .. MaxThreads)

\* The nodes of the list, after its head.
Nodes == 2 .. Len(plist)

\* The number in each node.
Nbr == [k \in Nodes |-> plist[k].nbr]

\* What one user has of a set.
OfUser(set, u) == {t \in set : t[2] = u}

\* The types, and what is at each place of the program.
ProcTypes ==
    /\ opt \in ProcessesOptions /\ ProcessesTypeOK
    /\ pc \in {"options", "proc", "utmp", "verdict", "exited"}
    /\ pc = "proc" => Runs({"nbprocs"})
    /\ pc = "utmp" => Runs({"users"})
    /\ pc # "exited" => exit = RUNNING
    /\ \A p \in entries : p <= cursor
    /\ Runs({"users"}) => entries = {}
    /\ pc = "options" => entries = {} /\ cursor = 0

\* What is there now lies between the ghosts.
ProcGhosts ==
    /\ procSeen.steady \subseteq Counted(procs, utmp)
    /\ Counted(procs, utmp) \subseteq procSeen.ever /\ procSeen.ever \subseteq Member
    /\ procSeen = [steady |-> procSeen.steady, ever |-> procSeen.ever]

\* No user is in the list twice, and the nodes add up to the head.
ListAddsUp ==
    /\ Len(plist) >= 1 /\ \A k \in Nodes : plist[k].uid \in Uid
    /\ \A j, k \in Nodes : plist[j].uid = plist[k].uid => j = k
    /\ plist[1].nbr = SumFunctionOnSet(Nbr, Nodes)

\* A set of what has been counted: it was there at some time and is behind the cursor,
\* and what was there all the time is in it or still to come; the list has it by user.
IsTally(C) ==
    /\ C \subseteq procSeen.ever /\ Cardinality(C) = number
    /\ pc \in {"options", "proc", "utmp"} =>
         /\ \A t \in C : t[1] <= cursor /\ t[1] \notin entries
         /\ \A t \in procSeen.steady : t \in C \/ t[1] \in entries \/ t[1] > cursor
    /\ pc = "verdict" \/ Judged => procSeen.steady \subseteq C
    /\ Runs({"nbprocs"}) =>
         /\ \A k \in Nodes : plist[k].nbr = Cardinality(OfUser(C, plist[k].uid))
         /\ \A t \in C : \E k \in Nodes : plist[k].uid = t[2]

\* The inductive invariant of the two counts.
ProcInv ==
    /\ ProcTypes /\ ProcGhosts /\ ListAddsUp
    /\ \E C \in SUBSET procSeen.ever : IsTally(C)

-----------------------------------------------------------------------------
(* The list of the users *)

Node == [uid : Uid \cup {NULL}, nbr : Nat]

\* A node whose number grows.
LEMMA NodeGrows ==
    ASSUME NEW list \in Seq(Node), NEW e \in 1 .. Len(list), NEW inc \in Nat,
           NEW new, new = [list EXCEPT ![e].nbr = @ + inc]
    PROVE  /\ new \in Seq(Node) /\ Len(new) = Len(list)
           /\ new[e] = [uid |-> list[e].uid, nbr |-> list[e].nbr + inc]
           /\ \A k \in (1 .. Len(list)) \ {e} : new[k] = list[k]
<1> DEFINE x == [list[e] EXCEPT !.nbr = @ + inc]
<1>1. list[e] \in Node
  OBVIOUS
<1>2. x = [uid |-> list[e].uid, nbr |-> list[e].nbr + inc] /\ x \in Node
  BY <1>1 DEF Node
<1>3. new = [list EXCEPT ![e] = x]
  OBVIOUS
<1> HIDE DEF x
<1>4. new \in Seq(Node) /\ Len(new) = Len(list) /\ new[e] = x
      /\ \A k \in (1 .. Len(list)) \ {e} : new[k] = list[k]
  BY <1>2, <1>3
<1> QED BY <1>2, <1>4

\* The head of the list gets what is added.
LEMMA HeadCounts ==
    ASSUME NEW list \in Seq(Node), Len(list) >= 1, NEW inc \in Nat,
           NEW counted, counted = [list EXCEPT ![1].nbr = @ + inc]
    PROVE  /\ counted \in Seq(Node) /\ Len(counted) = Len(list)
           /\ counted[1].nbr = list[1].nbr + inc
           /\ \A k \in 2 .. Len(list) : counted[k] = list[k]
<1>1. Len(list) \in Nat /\ 1 \in 1 .. Len(list)
  OBVIOUS
<1>2. /\ counted \in Seq(Node) /\ Len(counted) = Len(list)
      /\ counted[1] = [uid |-> list[1].uid, nbr |-> list[1].nbr + inc]
      /\ \A k \in (1 .. Len(list)) \ {1} : counted[k] = list[k]
  BY <1>1, NodeGrows
<1> QED BY <1>1, <1>2

\* A user who is not in the list gets a new node at its end.
LEMMA NewNode ==
    ASSUME NEW list \in Seq(Node), Len(list) >= 1, NEW uid \in Uid, NEW inc \in Nat,
           \A k \in 2 .. Len(list) : list[k].uid # uid,
           NEW grown, grown = procs_list_node_add(uid, inc, list)
    PROVE  /\ grown \in Seq(Node) /\ grown[1].nbr = list[1].nbr + inc
           /\ Len(grown) = Len(list) + 1
           /\ grown[Len(grown)].uid = uid /\ grown[Len(grown)].nbr = inc
           /\ \A k \in 2 .. Len(list) : grown[k] = list[k]
<1> DEFINE n == Len(list)
<1>0. PICK counted : counted = [list EXCEPT ![1].nbr = @ + inc]
  OBVIOUS
<1>1. n \in Nat /\ n >= 1
  OBVIOUS
<1>2. counted \in Seq(Node) /\ Len(counted) = n /\ counted[1].nbr = list[1].nbr + inc
      /\ \A k \in 2 .. n : counted[k] = list[k]
  BY SMTT(30), <1>0, <1>1, HeadCounts
<1>3. NodeOf(uid, list) = {}
  BY DEF NodeOf
<1>4. grown = Append(counted, [uid |-> uid, nbr |-> inc])
  BY <1>0, <1>3 DEF procs_list_node_add
<1>5. [uid |-> uid, nbr |-> inc] \in Node
  BY DEF Node
<1>6. grown \in Seq(Node) /\ Len(grown) = n + 1 /\ grown[n + 1] = [uid |-> uid, nbr |-> inc]
      /\ \A k \in 1 .. n : grown[k] = counted[k]
  BY <1>1, <1>2, <1>4, <1>5
<1>7. grown[1].nbr = list[1].nbr + inc /\ \A k \in 2 .. n : grown[k] = list[k]
  BY <1>1, <1>2, <1>6
<1> QED BY <1>6, <1>7

\* The node of a user who is in the list counts on.
LEMMA OldNode ==
    ASSUME NEW list \in Seq(Node), Len(list) >= 1, NEW uid \in Uid, NEW inc \in Nat,
           \A j, k \in 2 .. Len(list) : list[j].uid = list[k].uid => j = k,
           NEW e \in 2 .. Len(list), list[e].uid = uid,
           NEW grown, grown = procs_list_node_add(uid, inc, list)
    PROVE  /\ grown \in Seq(Node) /\ grown[1].nbr = list[1].nbr + inc
           /\ Len(grown) = Len(list)
           /\ grown[e].uid = uid /\ grown[e].nbr = list[e].nbr + inc
           /\ \A k \in (2 .. Len(list)) \ {e} : grown[k] = list[k]
<1> DEFINE n == Len(list)
<1>0. PICK counted : counted = [list EXCEPT ![1].nbr = @ + inc]
  OBVIOUS
<1>1. n \in Nat /\ n >= 1
  OBVIOUS
<1>2. counted \in Seq(Node) /\ Len(counted) = n /\ counted[1].nbr = list[1].nbr + inc
      /\ \A k \in 2 .. n : counted[k] = list[k]
  BY SMTT(30), <1>0, <1>1, HeadCounts
<1>3. NodeOf(uid, list) = {e}
  BY DEF NodeOf
<1>4. Min(NodeOf(uid, list)) = e
  BY <1>3 DEF Min
<1>5. grown = [counted EXCEPT ![e].nbr = @ + inc]
  BY <1>0, <1>3, <1>4 DEF procs_list_node_add
<1>6. /\ grown \in Seq(Node) /\ Len(grown) = n
      /\ grown[e] = [uid |-> uid, nbr |-> list[e].nbr + inc]
      /\ \A k \in (1 .. n) \ {e} : grown[k] = counted[k]
  <2>1. counted[e] = list[e] /\ e \in 1 .. Len(counted)
    BY <1>1, <1>2
  <2>2. counted \in Seq(Node)
    BY <1>2
  <2> HIDE DEF n
  <2>3. /\ grown \in Seq(Node) /\ Len(grown) = Len(counted)
        /\ grown[e] = [uid |-> counted[e].uid, nbr |-> counted[e].nbr + inc]
        /\ \A k \in (1 .. Len(counted)) \ {e} : grown[k] = counted[k]
    BY SMTT(30), <1>5, <2>1, <2>2, NodeGrows
  <2>4. Len(counted) = n
    BY <1>2
  <2> QED BY <2>1, <2>3, <2>4
<1>7. grown[1].nbr = list[1].nbr + inc
  BY <1>1, <1>2, <1>6
<1>8. \A k \in (2 .. n) \ {e} : grown[k] = list[k]
  BY <1>1, <1>2, <1>6
<1> QED BY <1>6, <1>7, <1>8

\* The threads of a process, or the first.
ThreadsOf(ps, p) ==
    {<<p, ps[p].uid, k>> : k \in 1 .. (IF opt.threads = "no" THEN 1 ELSE ps[p].threads)}

\* The number of them.
HowMany(ps, p) == IF opt.threads = "no" THEN 1 ELSE ps[p].threads

\* They are as many as the process has, and of its user.
LEMMA TheThreads ==
    ASSUME NEW ps \in [PID -> Process \cup {NULL}], NEW p \in PID, ps[p] # NULL
    PROVE  /\ ps[p].uid \in Uid /\ HowMany(ps, p) \in Nat
           /\ IsFiniteSet(ThreadsOf(ps, p)) /\ Cardinality(ThreadsOf(ps, p)) = HowMany(ps, p)
           /\ \A t \in ThreadsOf(ps, p) : t[1] = p /\ t[2] = ps[p].uid
<1>1. ps[p] \in Process
  OBVIOUS
<1>2. ps[p].uid \in Uid /\ HowMany(ps, p) \in Nat
  BY <1>1, ProcessesAssumption DEF Process, HowMany
<1> DEFINE n == HowMany(ps, p)
           f == [k \in 1 .. n |-> <<p, ps[p].uid, k>>]
<1>3. ThreadsOf(ps, p) = {<<p, ps[p].uid, k>> : k \in 1 .. n}
  BY DEF ThreadsOf, HowMany
<1>4. f \in Bijection(1 .. n, ThreadsOf(ps, p))
  BY <1>3 DEF Bijection, Injection, IsInjective, Surjection
<1>5. ExistsBijection(1 .. n, ThreadsOf(ps, p))
  BY <1>4, Zenon DEF ExistsBijection
<1>6. Cardinality(ThreadsOf(ps, p)) = n
  BY <1>2, <1>5, FS_CountingElements
<1>7. IsFiniteSet(ThreadsOf(ps, p))
  BY <1>2, <1>5, FS_NatBijection
<1> QED BY <1>2, <1>3, <1>6, <1>7

\* The members are finitely many.
LEMMA FiniteMember == IsFiniteSet(Member)
<1> DEFINE A == PID \cup Slot
           K == 1 .. MaxThreads
           P == (A \X Uid) \X K
           f == [x \in P |-> <<x[1][1], x[1][2], x[2]>>]
<1>1. IsFiniteSet(A)
  BY FS_Union, ProcessesAssumption
<1>2. IsFiniteSet(K)
  BY FS_Interval, ProcessesAssumption
<1>3. IsFiniteSet(A \X Uid)
  BY <1>1, FS_Product, ProcessesAssumption
<1>4. IsFiniteSet(P)
  BY <1>2, <1>3, FS_Product
<1> HIDE DEF A, K
<1>5. Member \subseteq {f[x] : x \in P}
  <2> SUFFICES ASSUME NEW m \in Member PROVE m \in {f[x] : x \in P}
    OBVIOUS
  <2>0. PICK a \in A, u \in Uid, k \in K : m = <<a, u, k>>
    <3>1. m \in A \X Uid \X K
      BY DEF Member, A, K
    <3>2. m[1] \in A /\ m[2] \in Uid /\ m[3] \in K /\ m = <<m[1], m[2], m[3]>>
      BY <3>1
    <3> QED BY <3>2
  <2>1. <<<<a, u>>, k>> \in P
    OBVIOUS
  <2>2. f[<<<<a, u>>, k>>] = <<a, u, k>>
    BY <2>1
  <2> QED BY <2>0, <2>1, <2>2
<1> HIDE DEF f, P
<1>6. IsFiniteSet({f[x] : x \in P})
  BY <1>4, FiniteImage
<1> QED BY <1>5, <1>6, FS_Subset

\* What is counted, by process or by session.
LEMMA CountedIs ==
    ASSUME opt \in ProcessesOptions,
           NEW ps \in [PID -> Process \cup {NULL}], NEW records \in [Slot -> Record]
    PROVE  /\ Counted(ps, records) \subseteq Member
           /\ IsFiniteSet(Counted(ps, records))
           /\ Runs({"nbprocs"}) =>
                \A t : t \in Counted(ps, records) <=>
                         \E p \in PID : ps[p] # NULL /\ t \in ThreadsOf(ps, p)
           /\ Runs({"users"}) =>
                \A t : t \in Counted(ps, records) <=>
                         \E s \in Slot : records[s] \in Uid /\ t = <<s, records[s], 1>>
<1>1. Runs({"nbprocs"}) \/ Runs({"users"})
  BY ProcessesAssumption DEF ProcessesCommandLine, Runs
<1>2. ASSUME Runs({"nbprocs"}), NEW t
      PROVE  t \in Counted(ps, records) <=> \E p \in PID : ps[p] # NULL /\ t \in ThreadsOf(ps, p)
  <2>1. ~Runs({"users"})
    BY <1>2 DEF Runs
  <2>2. Counted(ps, records) = UNION {ThreadsOf(ps, p) : p \in {q \in PID : ps[q] # NULL}}
    BY <2>1 DEF Counted, ThreadsOf
  <2> QED BY <2>2
<1>3. ASSUME Runs({"users"}), NEW t
      PROVE  t \in Counted(ps, records) <=> \E s \in Slot : records[s] \in Uid /\ t = <<s, records[s], 1>>
  BY <1>3 DEF Counted
<1>4. \A p \in PID : ps[p] # NULL => ThreadsOf(ps, p) \subseteq Member
  <2> SUFFICES ASSUME NEW p \in PID, ps[p] # NULL PROVE ThreadsOf(ps, p) \subseteq Member
    OBVIOUS
  <2>1. ps[p].uid \in Uid /\ ps[p].threads \in 1 .. MaxThreads
    BY DEF Process
  <2> QED BY <2>1, ProcessesAssumption DEF ThreadsOf, Member
<1>5. Counted(ps, records) \subseteq Member
  <2>1. CASE Runs({"nbprocs"})
    BY <1>2, <1>4, <2>1
  <2>2. CASE Runs({"users"})
    BY <1>3, <2>2, ProcessesAssumption DEF Member
  <2> QED BY <1>1, <2>1, <2>2
<1>6. IsFiniteSet(Counted(ps, records))
  BY <1>5, FiniteMember, FS_Subset
<1> QED BY <1>2, <1>3, <1>5, <1>6

-----------------------------------------------------------------------------
(* The invariant at the start, and while processes and sessions come and go *)

\* Nothing is counted at the start.
LEMMA ProcInit ==
    ASSUME opt \in ProcessesOptions, PluginInit, ProcessesInit
    PROVE  ProcInv
<1>1. Runs(ProcessesPrograms) /\ (Runs({"nbprocs"}) \/ Runs({"users"}))
  BY ProcessesAssumption DEF ProcessesCommandLine, Runs, ProcessesPrograms
<1>2. /\ pc = "options" /\ exit = RUNNING /\ entries = {} /\ cursor = 0 /\ numuser = 0
      /\ plist = <<[uid |-> NULL, nbr |-> 0]>> /\ procEvents = 0 /\ number = 0
  BY DEF PluginInit, ProcessesInit, number
<1>3. ProcsAtStart # {} /\ UtmpAtStart # {} /\ ProcHosts # {}
  BY ProcessesAssumption
<1>4. procs \in ProcsAtStart /\ utmp \in UtmpAtStart /\ procHost \in ProcHosts
  <2>1. \A P, S : S # {} => Either(P, S) \subseteq S
    BY DEF Either
  <2> QED BY <1>3, <2>1 DEF ProcessesInit
<1>5. procs \in [PID -> Process \cup {NULL}] /\ utmp \in [Slot -> Record]
  BY <1>4, ProcessesAssumption
<1>6. ProcTypes
  <2>1. [uid |-> NULL, nbr |-> 0] \in [uid : Uid \cup {NULL}, nbr : Nat]
    OBVIOUS
  <2>2. plist \in Seq([uid : Uid \cup {NULL}, nbr : Nat])
    BY <1>2, <2>1
  <2> QED BY <1>2, <1>4, <1>5, <2>2, ProcessesAssumption DEF ProcTypes, ProcessesTypeOK
<1>7. procSeen = [steady |-> Counted(procs, utmp), ever |-> Counted(procs, utmp)]
  BY <1>1 DEF ProcessesInit, Since
<1>8. Counted(procs, utmp) \subseteq Member
  BY <1>5, CountedIs
<1>9. ProcGhosts
  BY <1>7, <1>8 DEF ProcGhosts
<1>10. Len(plist) = 1 /\ plist[1].nbr = 0 /\ Nodes = {}
  BY <1>2 DEF Nodes
<1>11. ListAddsUp
  <2>1. SumFunctionOnSet(Nbr, {}) = 0
    BY SumEmpty
  <2> QED BY <1>10, <2>1 DEF ListAddsUp
<1>12. IsTally({})
  <2>1. \A t \in Member : t[1] > 0
    <3> SUFFICES ASSUME NEW t \in (PID \cup Slot) \X Uid \X (1 .. MaxThreads) PROVE t[1] > 0
      BY DEF Member
    <3>1. t[1] \in PID \cup Slot
      OBVIOUS
    <3>2. PID \subseteq Nat /\ 0 \notin PID /\ Slot \subseteq Nat /\ 0 \notin Slot
      BY Zenon, ProcessesAssumption
    <3>3. \A x \in PID \cup Slot : x > 0
      BY <3>2
    <3> QED BY <3>1, <3>3
  <2>2. Cardinality({}) = 0
    BY FS_EmptySet
  <2> QED BY <1>2, <1>7, <1>8, <1>10, <2>1, <2>2 DEF IsTally, Judged
<1> QED BY <1>6, <1>9, <1>11, <1>12 DEF ProcInv

\* Processes and sessions come and go.
LEMMA ProcChange ==
    ASSUME ProcInv, ProcessesChange
    PROVE  ProcInv'
<1>1. /\ pc \in {"proc", "utmp"} /\ pc' = pc /\ opt' = opt /\ exit' = exit
      /\ UNCHANGED <<entries, cursor, plist, numuser, procHost>>
  BY DEF ProcessesChange, main, walked
<1>2. procs' \in [PID -> Process \cup {NULL}] /\ utmp' \in [Slot -> Record]
      /\ procEvents' \in 0 .. MaxProcEvents
  <2>1. /\ procs \in [PID -> Process \cup {NULL}] /\ utmp \in [Slot -> Record]
        /\ procEvents \in 0 .. MaxProcEvents
    BY DEF ProcInv, ProcTypes, ProcessesTypeOK
  <2>2. procEvents' \in 0 .. MaxProcEvents
    <3>1. MaxProcEvents \in Nat
      BY Zenon, ProcessesAssumption
    <3>2. procEvents < MaxProcEvents /\ procEvents' = procEvents + 1
      BY DEF ProcessesChange
    <3> QED BY <2>1, <3>1, <3>2
  <2>3. CASE \E p \in PID, new \in Process \cup {NULL} :
                procs' = [procs EXCEPT ![p] = new] /\ UNCHANGED utmp
    BY <2>1, <2>2, <2>3
  <2>4. CASE \E s \in Slot, new \in Record :
                utmp' = [utmp EXCEPT ![s] = new] /\ UNCHANGED procs
    BY <2>1, <2>2, <2>4
  <2> QED BY <2>3, <2>4 DEF ProcessesChange
<1>3. ProcTypes'
  <2>1. Runs({"users"})' = Runs({"users"}) /\ Runs({"nbprocs"})' = Runs({"nbprocs"})
    BY <1>1 DEF Runs
  <2> QED BY <1>1, <1>2, <2>1 DEF ProcInv, ProcTypes, ProcessesTypeOK
<1>4. Counted(procs, utmp)' = Counted(procs', utmp') /\ Counted(procs', utmp') \subseteq Member
  <2>1. opt \in ProcessesOptions
    BY DEF ProcInv, ProcTypes
  <2>2. Counted(procs', utmp') \subseteq Member
    BY <1>2, <2>1, CountedIs
  <2> QED BY <1>1, <2>2 DEF Counted, Runs
<1>5. /\ procSeen' = [steady |-> procSeen.steady \cap Counted(procs', utmp'),
                     ever |-> procSeen.ever \cup Counted(procs', utmp')]
  BY DEF ProcessesChange, Meeting
<1>6. /\ procSeen'.steady = procSeen.steady \cap Counted(procs', utmp')
      /\ procSeen'.ever = procSeen.ever \cup Counted(procs', utmp')
  BY <1>5
<1>7. ProcGhosts'
  BY <1>4, <1>5, <1>6 DEF ProcInv, ProcGhosts
<1>8. ListAddsUp'
  <2>1. Nodes' = Nodes /\ Nbr' = Nbr
    BY <1>1 DEF Nodes, Nbr
  <2> QED BY <1>1, <2>1 DEF ProcInv, ListAddsUp
<1>9. PICK C \in SUBSET procSeen.ever : IsTally(C)
  BY DEF ProcInv
<1>10. number' = number /\ Nodes' = Nodes /\ Judged' = Judged
       /\ Runs({"nbprocs"})' = Runs({"nbprocs"})
  BY <1>1 DEF number, Nodes, Judged, Runs
<1>11. IsTally(C)'
  <2>1. \A u : OfUser(C, u)' = OfUser(C, u)
    BY DEF OfUser
  <2> QED BY <1>1, <1>6, <1>9, <1>10, <2>1 DEF IsTally
<1> QED BY <1>3, <1>6, <1>7, <1>8, <1>9, <1>11 DEF ProcInv

-----------------------------------------------------------------------------
(* The steps of the plugins *)

\* A step that only goes on, or that ends after all has been read.
LEMMA ProcQuiet ==
    ASSUME ProcInv, UNCHANGED processesVars, opt' = opt,
           pc' \in {"proc", "utmp", "verdict", "exited"},
           pc' = "proc" => Runs({"nbprocs"}), pc' = "utmp" => Runs({"users"}),
           pc' # "exited" => exit' = RUNNING,
           pc' \in {"proc", "utmp"} => pc \in {"options", "proc", "utmp"},
           pc' = "verdict" \/ Judged' =>
             pc = "verdict" \/ /\ pc \in {"proc", "utmp"} /\ entries = {}
                               /\ \A t \in Counted(procs, utmp) : ~ (t[1] > cursor)
    PROVE  ProcInv'
<1>1. UNCHANGED <<entries, cursor, plist, numuser, procs, utmp, procHost, procSeen, procEvents>>
  BY DEF processesVars, walked, procWorld
<1>2. Runs({"users"})' = Runs({"users"}) /\ Runs({"nbprocs"})' = Runs({"nbprocs"})
  BY DEF Runs
<1>3. number' = number /\ Nodes' = Nodes /\ Nbr' = Nbr
  BY <1>1, <1>2 DEF number, Nodes, Nbr
<1>4. ProcTypes'
  BY <1>1, <1>2 DEF ProcInv, ProcTypes, ProcessesTypeOK
<1>5. ProcGhosts'
  <2>1. Counted(procs, utmp)' = Counted(procs, utmp)
    BY <1>1 DEF Counted, Runs
  <2> QED BY <1>1, <2>1 DEF ProcInv, ProcGhosts
<1>6. ListAddsUp'
  BY <1>1, <1>3 DEF ProcInv, ListAddsUp
<1>7. PICK C \in SUBSET procSeen.ever : IsTally(C)
  BY DEF ProcInv
<1>8. pc' = "verdict" \/ Judged' => procSeen.steady \subseteq C
  <2>1. procSeen.steady \subseteq Counted(procs, utmp)
    BY DEF ProcInv, ProcGhosts
  <2> QED BY <1>7, <2>1 DEF IsTally
<1>9. IsTally(C)'
  <2>1. \A u : OfUser(C, u)' = OfUser(C, u)
    BY DEF OfUser
  <2>2. pc' # "options"
    OBVIOUS
  <2> QED BY <1>1, <1>2, <1>3, <1>7, <1>8, <2>1, <2>2 DEF IsTally
<1> QED BY <1>1, <1>4, <1>5, <1>6, <1>7, <1>9 DEF ProcInv

\* A step that ends without a verdict.
LEMMA ProcGivesUp ==
    ASSUME ProcInv, UNCHANGED processesVars, GiveUp
    PROVE  ProcInv'
<1>1. pc' = "exited" /\ opt' = opt /\ exit' = STATE_UNKNOWN
  BY DEF GiveUp, Exit
<1>2. ~ Judged'
  BY <1>1 DEF Judged
<1> QED BY <1>1, <1>2, ProcQuiet

\* The plugins that run.
LEMMA ProcRuns ==
    ASSUME ProcInv
    PROVE  /\ Runs({"nbprocs"}) \/ Runs({"users"})
           /\ ~ (Runs({"nbprocs"}) /\ Runs({"users"}))
           /\ Runs(ProcessesPrograms)
BY ProcessesAssumption DEF ProcInv, ProcTypes, ProcessesCommandLine, Runs, ProcessesPrograms

\* The options are parsed.
LEMMA ProcParses ==
    ASSUME ProcInv, ProcessesParseOptions
    PROVE  ProcInv'
<1>1. pc = "options" /\ UNCHANGED processesVars /\ exit = RUNNING
  BY DEF ProcessesParseOptions, ProcInv, ProcTypes
<1>2. CASE GiveUp
  BY <1>1, <1>2, ProcGivesUp
<1>3. CASE Goto(IF Runs({"nbprocs"}) THEN "proc" ELSE "utmp")
  <2>1. opt' = opt /\ exit' = RUNNING /\ pc' = IF Runs({"nbprocs"}) THEN "proc" ELSE "utmp"
    BY <1>1, <1>3 DEF Goto
  <2> QED BY <1>1, <2>1, ProcRuns, ProcQuiet DEF Judged
<1> QED BY <1>2, <1>3 DEF ProcessesParseOptions

\* The number is judged.
LEMMA ProcJudged ==
    ASSUME ProcInv, JudgeProcesses
    PROVE  ProcInv'
<1>1. pc = "verdict" /\ pc' = "exited" /\ opt' = opt /\ UNCHANGED processesVars
  BY DEF JudgeProcesses, Exit
<1> QED BY <1>1, ProcQuiet

\* The counted, by the number of the process or the place of the record.
LEMMA Numbers ==
    ASSUME ProcInv
    PROVE  /\ \A t \in Counted(procs, utmp) : t[1] \in Nat /\ t[2] \in Uid
           /\ Runs({"nbprocs"}) => \A t \in Counted(procs, utmp) :
                t[1] \in PID /\ procs[t[1]] # NULL /\ t \in ThreadsOf(procs, t[1])
           /\ Runs({"users"}) => \A t \in Counted(procs, utmp) :
                t[1] \in Slot /\ utmp[t[1]] \in Uid /\ t = <<t[1], utmp[t[1]], 1>>
<1>1. opt \in ProcessesOptions /\ procs \in [PID -> Process \cup {NULL}] /\ utmp \in [Slot -> Record]
  BY DEF ProcInv, ProcTypes, ProcessesTypeOK
<1>2. Counted(procs, utmp) \subseteq Member
  BY <1>1, CountedIs
<1>3. \A t \in Member : t[1] \in Nat /\ t[2] \in Uid
  <2> SUFFICES ASSUME NEW t \in (PID \cup Slot) \X Uid \X (1 .. MaxThreads)
               PROVE  t[1] \in Nat /\ t[2] \in Uid
    BY DEF Member
  <2>1. t[1] \in PID \cup Slot /\ t[2] \in Uid
    OBVIOUS
  <2> QED BY <2>1, ProcessesAssumption
<1>4. ASSUME Runs({"nbprocs"}), NEW t \in Counted(procs, utmp)
      PROVE  t[1] \in PID /\ procs[t[1]] # NULL /\ t \in ThreadsOf(procs, t[1])
  <2>1. PICK p \in PID : procs[p] # NULL /\ t \in ThreadsOf(procs, p)
    BY <1>1, <1>4, CountedIs
  <2>2. t[1] = p
    BY <1>1, <2>1, TheThreads
  <2> QED BY <2>1, <2>2
<1>5. ASSUME Runs({"users"}), NEW t \in Counted(procs, utmp)
      PROVE  t[1] \in Slot /\ utmp[t[1]] \in Uid /\ t = <<t[1], utmp[t[1]], 1>>
  <2>1. PICK s \in Slot : utmp[s] \in Uid /\ t = <<s, utmp[s], 1>>
    BY <1>1, <1>5, CountedIs
  <2> QED BY <2>1
<1> QED BY <1>2, <1>3, <1>4, <1>5

\* The end of /proc: all that is there now has been read.
LEMMA ProcEnds ==
    ASSUME ProcInv, pc = "proc", entries = {}, UNCHANGED processesVars, Goto("verdict"),
           {p \in PID : procs[p] # NULL /\ p > cursor} = {}
    PROVE  ProcInv'
<1>1. Runs({"nbprocs"}) /\ exit = RUNNING /\ pc' = "verdict" /\ opt' = opt /\ exit' = exit
  BY DEF ProcInv, ProcTypes, Goto
<1>2. \A t \in Counted(procs, utmp) : ~ (t[1] > cursor)
  BY <1>1, Numbers
<1> QED BY <1>1, <1>2, ProcQuiet

\* The next entries.
LEMMA ProcBuffers ==
    ASSUME ProcInv, pc = "proc", entries = {}, UNCHANGED <<main, plist, numuser, procWorld>>,
           NEW left, left = {p \in PID : procs[p] # NULL /\ p > cursor},
           NEW q \in left, cursor' = q, entries' = {p \in left : p <= q}
    PROVE  ProcInv'
<1>1. UNCHANGED <<pc, opt, exit, plist, numuser, procs, utmp, procHost, procSeen, procEvents>>
  BY DEF main, procWorld
<1>2. Runs({"users"})' = Runs({"users"}) /\ Runs({"nbprocs"})' = Runs({"nbprocs"})
  BY <1>1 DEF Runs
<1>3. number' = number /\ Nodes' = Nodes /\ Nbr' = Nbr /\ Judged' = Judged
  BY <1>1, <1>2 DEF number, Nodes, Nbr, Judged
<1>4. Runs({"nbprocs"}) /\ ~ Runs({"users"})
  BY ProcRuns DEF ProcInv, ProcTypes
<1>5. ProcTypes'
  BY <1>1, <1>2, <1>4 DEF ProcInv, ProcTypes, ProcessesTypeOK
<1>6. ProcGhosts'
  <2>1. Counted(procs, utmp)' = Counted(procs, utmp)
    BY <1>1 DEF Counted, Runs
  <2> QED BY <1>1, <2>1 DEF ProcInv, ProcGhosts
<1>7. ListAddsUp'
  BY <1>1, <1>3 DEF ProcInv, ListAddsUp
<1>8. PICK C \in SUBSET procSeen.ever : IsTally(C)
  BY DEF ProcInv
<1>9. \A t \in C : t[1] <= cursor /\ t[1] \in Nat
  <2>1. \A t \in C : t[1] <= cursor
    BY <1>8 DEF IsTally
  <2>2. C \subseteq Member
    BY DEF ProcInv, ProcGhosts
  <2>3. \A t \in (PID \cup Slot) \X Uid \X (1 .. MaxThreads) : t[1] \in PID \cup Slot
    OBVIOUS
  <2> QED BY <2>1, <2>2, <2>3, ProcessesAssumption DEF Member
<1>10. \A t \in procSeen.steady : t \in C \/ t[1] \in left
  <2>1. \A t \in procSeen.steady : t \in Counted(procs, utmp) /\ (t \in C \/ t[1] > cursor)
    BY <1>8 DEF IsTally, ProcInv, ProcGhosts
  <2> QED BY <1>4, <2>1, Numbers
<1>11. cursor \in Nat /\ q \in Nat /\ q > cursor /\ left \subseteq Nat /\ \A p \in left : p > cursor
  <2>1. cursor \in PID \cup Slot \cup {0}
    BY DEF ProcInv, ProcTypes, ProcessesTypeOK
  <2>2. cursor \in Nat /\ PID \subseteq Nat
    BY <2>1, ProcessesAssumption
  <2>3. q \in PID /\ q > cursor /\ \A p \in left : p \in PID /\ p > cursor
    OBVIOUS
  <2> QED BY <2>2, <2>3
<1>12. IsTally(C)'
  <2>1. \A u : OfUser(C, u)' = OfUser(C, u)
    BY DEF OfUser
  <2>2. \A t \in C : t[1] <= cursor' /\ t[1] \notin entries'
    BY <1>9, <1>11
  <2>3. \A t \in procSeen.steady : t \in C \/ t[1] \in entries' \/ t[1] > cursor'
    <3>1. \A x \in left : x <= q \/ x > q
      BY <1>11
    <3> QED BY <1>10, <3>1
  <2> QED BY <1>1, <1>2, <1>3, <1>8, <2>1, <2>2, <2>3 DEF IsTally
<1> QED BY <1>1, <1>5, <1>6, <1>7, <1>8, <1>12 DEF ProcInv

\* readdir().
LEMMA ProcReads ==
    ASSUME ProcInv, Readdir
    PROVE  ProcInv'
<1> DEFINE left == {p \in PID : procs[p] # NULL /\ p > cursor}
<1>1. pc = "proc" /\ entries = {} /\ UNCHANGED <<plist, numuser, procWorld>>
  BY DEF Readdir
<1>2. CASE GiveUp /\ UNCHANGED <<entries, cursor>>
  BY <1>1, <1>2, ProcGivesUp DEF processesVars, walked
<1>3. CASE left = {} /\ Goto("verdict") /\ UNCHANGED <<entries, cursor>>
  <2>1. UNCHANGED processesVars
    BY <1>1, <1>3 DEF processesVars, walked
  <2> QED BY <1>1, <1>3, <2>1, ProcEnds
<1>4. CASE UNCHANGED main /\ \E q \in left : cursor' = q /\ entries' = {p \in left : p <= q}
  BY <1>1, <1>4, ProcBuffers
<1> QED BY <1>2, <1>3, <1>4 DEF Readdir

\* The first of the buffered entries.
LEMMA TheFirst ==
    ASSUME ProcInv, entries # {}
    PROVE  Min(entries) \in entries /\ Min(entries) \in PID /\ Min(entries) <= cursor
<1>1. entries \subseteq PID /\ entries \subseteq Nat
  BY ProcessesAssumption DEF ProcInv, ProcTypes, ProcessesTypeOK
<1>2. \E x \in entries : \A y \in entries : x <= y
  BY <1>1, LeastNumber
<1>3. Min(entries) \in entries
  BY <1>2 DEF Min
<1> QED BY <1>1, <1>3 DEF ProcInv, ProcTypes

\* A list with a user's processes more still adds up.
LEMMA GrownListAddsUp ==
    ASSUME ProcInv, NEW uid \in Uid, NEW inc \in Nat,
           plist' = procs_list_node_add(uid, inc, plist)
    PROVE  ListAddsUp' /\ plist' \in Seq(Node) /\ plist'[1].nbr = plist[1].nbr + inc
<1> DEFINE n == Len(plist)
<1>1. /\ plist \in Seq(Node) /\ n \in Nat /\ n >= 1 /\ DOMAIN plist = 1 .. n
      /\ \A k \in 1 .. n : plist[k].nbr \in Nat
      /\ \A k \in 2 .. n : plist[k].uid \in Uid
      /\ \A j, k \in 2 .. n : plist[j].uid = plist[k].uid => j = k
      /\ plist[1].nbr = SumFunctionOnSet(Nbr, 2 .. n)
  <2>1. plist \in Seq(Node) /\ n >= 1
    BY DEF ProcInv, ProcTypes, ProcessesTypeOK, ListAddsUp, Node
  <2>2. n \in Nat /\ DOMAIN plist = 1 .. n /\ \A k \in 1 .. n : plist[k] \in Node
    BY <2>1
  <2>3. \A k \in 1 .. n : plist[k].nbr \in Nat
    BY <2>2 DEF Node
  <2>4. Nodes = 2 .. n
    BY DEF Nodes
  <2> QED BY <2>1, <2>2, <2>3, <2>4 DEF ProcInv, ListAddsUp
<1> DEFINE nodes == 2 .. Len(plist')
           nbr == [k \in nodes |-> plist'[k].nbr]
           AddsUp == /\ Len(plist') >= 1 /\ \A k \in nodes : plist'[k].uid \in Uid
                     /\ \A j, k \in nodes : plist'[j].uid = plist'[k].uid => j = k
                     /\ plist'[1].nbr = SumFunctionOnSet(nbr, nodes)
<1>2. IsFiniteSet(2 .. n)
  <2>1. 2 \in Int /\ n \in Int
    BY <1>1
  <2> HIDE DEF n
  <2> QED BY <2>1, FS_Interval
<1>3. ASSUME \A k \in 2 .. n : plist[k].uid # uid
      PROVE  AddsUp /\ plist' \in Seq(Node) /\ plist'[1].nbr = plist[1].nbr + inc
  <2>1. /\ plist' \in Seq(Node) /\ plist'[1].nbr = plist[1].nbr + inc /\ Len(plist') = n + 1
        /\ plist'[n + 1].uid = uid /\ plist'[n + 1].nbr = inc
        /\ \A k \in 2 .. n : plist'[k] = plist[k]
    <3>1. PICK list, grown : list = plist /\ grown = plist'
      OBVIOUS
    <3>2. /\ list \in Seq(Node) /\ Len(list) >= 1 /\ grown = procs_list_node_add(uid, inc, list)
          /\ \A k \in 2 .. Len(list) : list[k].uid # uid
      BY <1>1, <1>3, <3>1
    <3> HIDE DEF n, nodes, nbr, AddsUp
    <3>3. /\ grown \in Seq(Node) /\ grown[1].nbr = list[1].nbr + inc
          /\ Len(grown) = Len(list) + 1
          /\ grown[Len(grown)].uid = uid /\ grown[Len(grown)].nbr = inc
          /\ \A k \in 2 .. Len(list) : grown[k] = list[k]
      BY <3>2, NewNode
    <3> QED BY <3>1, <3>3 DEF n
  <2>2. nodes = (2 .. n) \cup {n + 1} /\ n + 1 \notin 2 .. n
    BY <1>1, <2>1
  <2>3. \A k \in 2 .. n : nbr[k] = plist[k].nbr /\ nbr[k] \in Nat /\ Nbr[k] = nbr[k]
    BY <1>1, <2>1, <2>2 DEF Nbr, Nodes
  <2>4. nbr[n + 1] = inc
    BY <1>1, <2>1, <2>2
  <2> HIDE DEF nbr, nodes
  <2>5. SumFunctionOnSet(nbr, (2 .. n) \cup {n + 1}) = SumFunctionOnSet(nbr, 2 .. n) + inc
    BY <1>2, <2>2, <2>3, <2>4, SumAdd
  <2>6. SumFunctionOnSet(Nbr, 2 .. n) = SumFunctionOnSet(nbr, 2 .. n)
    BY <1>2, <2>3, SumSame
  <2>7. plist'[1].nbr = SumFunctionOnSet(nbr, nodes)
    BY <1>1, <2>1, <2>2, <2>5, <2>6
  <2>8. \A k \in nodes : plist'[k].uid \in Uid
    BY <1>1, <2>1, <2>2
  <2>9. \A j, k \in nodes : plist'[j].uid = plist'[k].uid => j = k
    BY <1>1, <1>3, <2>1, <2>2
  <2> QED BY <1>1, <2>1, <2>7, <2>8, <2>9
<1>4. ASSUME NEW e \in 2 .. n, plist[e].uid = uid
      PROVE  AddsUp /\ plist' \in Seq(Node) /\ plist'[1].nbr = plist[1].nbr + inc
  <2>1. /\ plist' \in Seq(Node) /\ plist'[1].nbr = plist[1].nbr + inc /\ Len(plist') = n
        /\ plist'[e].uid = uid /\ plist'[e].nbr = plist[e].nbr + inc
        /\ \A k \in (2 .. n) \ {e} : plist'[k] = plist[k]
    <3>1. PICK list, grown : list = plist /\ grown = plist'
      OBVIOUS
    <3>2. /\ list \in Seq(Node) /\ Len(list) >= 1 /\ grown = procs_list_node_add(uid, inc, list)
          /\ \A j, k \in 2 .. Len(list) : list[j].uid = list[k].uid => j = k
          /\ e \in 2 .. Len(list) /\ list[e].uid = uid
      BY <1>1, <1>4, <3>1
    <3> HIDE DEF n, nodes, nbr, AddsUp
    <3>3. /\ grown \in Seq(Node) /\ grown[1].nbr = list[1].nbr + inc
          /\ Len(grown) = Len(list)
          /\ grown[e].uid = uid /\ grown[e].nbr = list[e].nbr + inc
          /\ \A k \in (2 .. Len(list)) \ {e} : grown[k] = list[k]
      BY <3>2, OldNode
    <3> QED BY <3>1, <3>3 DEF n
  <2>2. nodes = 2 .. n
    BY <2>1
  <2>3. \A k \in 2 .. n : plist'[k].uid = plist[k].uid
    BY <1>4, <2>1
  <2>4. /\ \A k \in (2 .. n) \ {e} : nbr[k] = plist[k].nbr /\ Nbr[k] = nbr[k]
        /\ nbr[e] = plist[e].nbr + inc /\ Nbr[e] = plist[e].nbr
    BY <2>1, <2>2 DEF Nbr, Nodes
  <2>5. \A k \in 2 .. n : nbr[k] \in Nat /\ Nbr[k] \in Nat
    <3>1. \A k \in 2 .. n : plist[k].nbr \in Nat
      BY <1>1
    <3>2. plist[e].nbr + inc \in Nat
      BY <3>1
    <3> QED BY <2>4, <3>1, <3>2
  <2> HIDE DEF nbr, nodes
  <2>6. SumFunctionOnSet(nbr, 2 .. n) = SumFunctionOnSet(Nbr, 2 .. n) + nbr[e] - Nbr[e]
    <3> DEFINE S == 2 .. n
    <3>1. /\ IsFiniteSet(S) /\ e \in S /\ \A k \in S : Nbr[k] \in Nat /\ nbr[k] \in Nat
          /\ \A k \in S \ {e} : Nbr[k] = nbr[k]
      BY <1>2, <2>4, <2>5
    <3> HIDE DEF S
    <3>2. PICK old : old = Nbr
      OBVIOUS
    <3>3. SumFunctionOnSet(nbr, S) = SumFunctionOnSet(old, S) + nbr[e] - old[e]
      BY <3>1, <3>2, SumChange
    <3> QED BY <3>2, <3>3 DEF S
  <2>7. SumFunctionOnSet(Nbr, 2 .. n) \in Nat /\ plist[e].nbr \in Nat
    BY <1>1
  <2>8. plist'[1].nbr = SumFunctionOnSet(nbr, nodes)
    BY <1>1, <2>1, <2>2, <2>4, <2>6, <2>7
  <2>9. \A k \in nodes : plist'[k].uid \in Uid
    BY <1>1, <2>2, <2>3
  <2>10. \A j, k \in nodes : plist'[j].uid = plist'[k].uid => j = k
    BY <1>1, <2>2, <2>3
  <2> QED BY <1>1, <2>1, <2>8, <2>9, <2>10
<1>5. Nodes' = nodes /\ Nbr' = nbr
  BY DEF Nodes, Nbr
<1>6. AddsUp => ListAddsUp'
  <2> HIDE DEF nbr, nodes
  <2> QED BY <1>5 DEF ListAddsUp
<1> HIDE DEF AddsUp
<1> QED BY <1>3, <1>4, <1>6

\* The next process has ended: nothing is counted of it.
LEMMA ProcPasses ==
    ASSUME ProcInv, PassOver
    PROVE  ProcInv'
<1> DEFINE p == Min(entries)
<1>1. /\ pc = "proc" /\ entries # {} /\ procs[p] = NULL /\ entries' = entries \ {p}
      /\ UNCHANGED <<pc, opt, exit, cursor, plist, numuser, procs, utmp, procHost, procSeen, procEvents>>
  BY DEF PassOver, Ended, main, procWorld
<1> HIDE DEF p
<1>2. Runs({"users"})' = Runs({"users"}) /\ Runs({"nbprocs"})' = Runs({"nbprocs"})
      /\ Runs({"nbprocs"}) /\ ~ Runs({"users"})
  BY <1>1, ProcRuns DEF Runs, ProcInv, ProcTypes
<1>3. number' = number /\ Nodes' = Nodes /\ Nbr' = Nbr /\ Judged' = Judged
  BY <1>1, <1>2 DEF number, Nodes, Nbr, Judged
<1>4. ProcTypes'
  BY <1>1, <1>2 DEF ProcInv, ProcTypes, ProcessesTypeOK
<1>5. ProcGhosts'
  <2>1. Counted(procs, utmp)' = Counted(procs, utmp)
    BY <1>1 DEF Counted, Runs
  <2> QED BY <1>1, <2>1 DEF ProcInv, ProcGhosts
<1>6. ListAddsUp'
  BY <1>1, <1>3 DEF ProcInv, ListAddsUp
<1>7. PICK C \in SUBSET procSeen.ever : IsTally(C)
  BY DEF ProcInv
<1>8. \A t \in procSeen.steady : t[1] # p
  <2>1. procSeen.steady \subseteq Counted(procs, utmp)
    BY DEF ProcInv, ProcGhosts
  <2> QED BY <1>1, <1>2, <2>1, Numbers
<1>9. IsTally(C)'
  <2>1. \A u : OfUser(C, u)' = OfUser(C, u)
    BY DEF OfUser
  <2> QED BY <1>1, <1>2, <1>3, <1>7, <1>8, <2>1 DEF IsTally
<1> QED BY <1>1, <1>4, <1>5, <1>6, <1>7, <1>9 DEF ProcInv

\* The threads of a process are counted: those of its user are as many more.
LEMMA TallyGrows ==
    ASSUME ProcInv, NEW C \in SUBSET procSeen.ever, IsTally(C), Runs({"nbprocs"}), pc = "proc",
           NEW p \in entries, procs[p] # NULL,
           plist' = procs_list_node_add(procs[p].uid, HowMany(procs, p), plist)
    PROVE  LET all == C \cup ThreadsOf(procs, p)
           IN /\ Cardinality(all) = Cardinality(C) + HowMany(procs, p)
              /\ \A k \in 2 .. Len(plist') :
                    plist'[k].nbr = Cardinality(OfUser(all, plist'[k].uid))
              /\ \A t \in all : \E k \in 2 .. Len(plist') : plist'[k].uid = t[2]
<1> DEFINE u == procs[p].uid
           inc == HowMany(procs, p)
           T == ThreadsOf(procs, p)
           all == C \cup T
           n == Len(plist)
<1>1. p \in PID /\ procs \in [PID -> Process \cup {NULL}]
  BY DEF ProcInv, ProcTypes, ProcessesTypeOK
<1>2. /\ u \in Uid /\ inc \in Nat /\ IsFiniteSet(T) /\ Cardinality(T) = inc
      /\ \A t \in T : t[1] = p /\ t[2] = u
  BY <1>1, TheThreads
<1>3. IsFiniteSet(C)
  BY FiniteMember, FS_Subset DEF ProcInv, ProcGhosts
<1>4. C \cap T = {}
  BY <1>2 DEF IsTally
<1>5. Cardinality(all) = Cardinality(C) + inc
  BY <1>2, <1>3, <1>4, DisjointUnion
<1>6. /\ \A k \in 2 .. n : plist[k].nbr = Cardinality(OfUser(C, plist[k].uid))
      /\ \A t \in C : \E k \in 2 .. n : plist[k].uid = t[2]
  BY DEF IsTally, Nodes
<1>7. plist \in Seq(Node) /\ n \in Nat /\ n >= 1
      /\ \A j, k \in 2 .. n : plist[j].uid = plist[k].uid => j = k
  <2>1. plist \in Seq(Node)
    BY DEF ProcInv, ProcTypes, ProcessesTypeOK, Node
  <2>2. n >= 1 /\ \A j, k \in 2 .. n : plist[j].uid = plist[k].uid => j = k
    BY DEF ProcInv, ListAddsUp, Nodes
  <2> QED BY <2>1, <2>2
<1>8. \A x : x # u => OfUser(all, x) = OfUser(C, x)
  BY <1>2 DEF OfUser
<1>9. Cardinality(OfUser(all, u)) = Cardinality(OfUser(C, u)) + inc
  <2>1. OfUser(all, u) = OfUser(C, u) \cup T /\ OfUser(C, u) \subseteq C
    BY <1>2 DEF OfUser
  <2>2. IsFiniteSet(OfUser(C, u))
    BY <1>3, <2>1, FS_Subset
  <2>3. OfUser(C, u) \cap T = {}
    BY <1>4, <2>1
  <2> HIDE DEF T, u, inc, all
  <2> QED BY <1>2, <2>1, <2>2, <2>3, DisjointUnion
<1> HIDE DEF T, u, inc, n
<1>10. plist' = procs_list_node_add(u, inc, plist)
  BY DEF u, inc
<1>11. ASSUME \A k \in 2 .. n : plist[k].uid # u
       PROVE  /\ \A k \in 2 .. Len(plist') : plist'[k].nbr = Cardinality(OfUser(all, plist'[k].uid))
              /\ \A t \in all : \E k \in 2 .. Len(plist') : plist'[k].uid = t[2]
  <2>1. /\ Len(plist') = n + 1 /\ plist'[n + 1].uid = u /\ plist'[n + 1].nbr = inc
        /\ \A k \in 2 .. n : plist'[k] = plist[k]
    <3>1. /\ Len(plist') = Len(plist) + 1
          /\ plist'[Len(plist')].uid = u /\ plist'[Len(plist')].nbr = inc
          /\ \A k \in 2 .. Len(plist) : plist'[k] = plist[k]
      <4>1. Len(plist) >= 1 /\ Len(plist) \in Nat /\ \A k \in 2 .. Len(plist) : plist[k].uid # u
        BY <1>7, <1>11 DEF n
      <4> QED BY <1>2, <1>7, <1>10, <4>1, NewNode
    <3> QED BY <3>1 DEF n
  <2>2. 2 .. Len(plist') = (2 .. n) \cup {n + 1}
    BY <1>7, <2>1
  <2>3. OfUser(C, u) = {}
    BY <1>6, <1>11 DEF OfUser
  <2>4. Cardinality(OfUser(all, u)) = inc
    BY <1>2, <1>9, <2>3, FS_EmptySet
  <2> HIDE DEF all
  <2>5. \A k \in 2 .. Len(plist') : plist'[k].nbr = Cardinality(OfUser(all, plist'[k].uid))
    BY <1>6, <1>8, <1>11, <2>1, <2>2, <2>4
  <2>6. \A t \in all : \E k \in 2 .. Len(plist') : plist'[k].uid = t[2]
    <3> USE DEF all
    <3> QED BY <1>2, <1>6, <2>1, <2>2
  <2> QED BY <2>5, <2>6
<1>12. ASSUME NEW e \in 2 .. n, plist[e].uid = u
       PROVE  /\ \A k \in 2 .. Len(plist') : plist'[k].nbr = Cardinality(OfUser(all, plist'[k].uid))
              /\ \A t \in all : \E k \in 2 .. Len(plist') : plist'[k].uid = t[2]
  <2>1. /\ Len(plist') = n /\ plist'[e].uid = u /\ plist'[e].nbr = plist[e].nbr + inc
        /\ \A k \in (2 .. n) \ {e} : plist'[k] = plist[k]
    <3>1. Len(plist) >= 1 /\ Len(plist) \in Nat /\ e \in 2 .. Len(plist)
          /\ \A j, k \in 2 .. Len(plist) : plist[j].uid = plist[k].uid => j = k
      BY <1>7 DEF n
    <3>2. /\ Len(plist') = Len(plist) /\ plist'[e].uid = u /\ plist'[e].nbr = plist[e].nbr + inc
          /\ \A k \in (2 .. Len(plist)) \ {e} : plist'[k] = plist[k]
      BY <1>2, <1>7, <1>10, <1>12, <3>1, OldNode
    <3> QED BY <3>2 DEF n
  <2>2. plist[e].nbr = Cardinality(OfUser(C, u))
    BY <1>6, <1>12
  <2>3. \A k \in (2 .. n) \ {e} : plist[k].uid # u
    BY <1>7, <1>12
  <2>4. \A k \in 2 .. n : plist'[k].uid = plist[k].uid
    BY <1>12, <2>1
  <2> HIDE DEF all
  <2>5. \A k \in 2 .. Len(plist') : plist'[k].nbr = Cardinality(OfUser(all, plist'[k].uid))
    <3>1. ASSUME NEW k \in (2 .. n) \ {e}
          PROVE  plist'[k].nbr = Cardinality(OfUser(all, plist'[k].uid))
      BY <1>6, <1>8, <2>1, <2>3
    <3>2. plist'[e].nbr = Cardinality(OfUser(all, plist'[e].uid))
      BY <1>9, <2>1, <2>2
    <3> QED BY <2>1, <3>1, <3>2
  <2>6. \A t \in all : \E k \in 2 .. Len(plist') : plist'[k].uid = t[2]
    <3> USE DEF all
    <3> QED BY <1>2, <1>6, <1>12, <2>1, <2>4
  <2> QED BY <2>5, <2>6
<1> QED BY <1>5, <1>11, <1>12 DEF inc, T

\* The status of the next process is read.
LEMMA ProcNotes ==
    ASSUME ProcInv, ReadStatus
    PROVE  ProcInv'
<1> DEFINE p == Min(entries)
           T == ThreadsOf(procs, p)
<1>1. /\ pc = "proc" /\ entries # {} /\ procs[p] # NULL /\ entries' = entries \ {p}
      /\ plist' = procs_list_node_add(procs[p].uid, HowMany(procs, p), plist)
      /\ UNCHANGED <<pc, opt, exit, cursor, numuser, procs, utmp, procHost, procSeen, procEvents>>
  BY DEF ReadStatus, Noted, HowMany, main, procWorld
<1>2. p \in entries /\ p \in PID /\ p <= cursor
  BY <1>1, TheFirst
<1> HIDE DEF p
<1>3. Runs({"users"})' = Runs({"users"}) /\ Runs({"nbprocs"})' = Runs({"nbprocs"})
      /\ Runs({"nbprocs"}) /\ ~ Runs({"users"})
  BY <1>1, ProcRuns DEF Runs, ProcInv, ProcTypes
<1>4. procs \in [PID -> Process \cup {NULL}] /\ utmp \in [Slot -> Record] /\ opt \in ProcessesOptions
  BY DEF ProcInv, ProcTypes, ProcessesTypeOK
<1>5. /\ procs[p].uid \in Uid /\ HowMany(procs, p) \in Nat
      /\ \A t \in T : t[1] = p /\ t[2] = procs[p].uid
  BY <1>1, <1>2, <1>4, TheThreads
<1>6. ListAddsUp' /\ plist' \in Seq(Node) /\ plist'[1].nbr = plist[1].nbr + HowMany(procs, p)
  BY <1>1, <1>5, GrownListAddsUp
<1>7. ProcTypes'
  BY <1>1, <1>3, <1>6 DEF ProcInv, ProcTypes, ProcessesTypeOK, Node
<1>8. ProcGhosts'
  <2>1. Counted(procs, utmp)' = Counted(procs, utmp)
    BY <1>1 DEF Counted, Runs
  <2> QED BY <1>1, <2>1 DEF ProcInv, ProcGhosts
<1>9. PICK C \in SUBSET procSeen.ever : IsTally(C)
  BY DEF ProcInv
<1>15. PICK all : all = C \cup T
  OBVIOUS
<1>10. T \subseteq Counted(procs, utmp) /\ all \in SUBSET procSeen.ever
  <2>1. T \subseteq Counted(procs, utmp)
    BY <1>1, <1>2, <1>3, <1>4, CountedIs
  <2> QED BY <1>15, <2>1 DEF ProcInv, ProcGhosts
<1>11. /\ Cardinality(all) = Cardinality(C) + HowMany(procs, p)
       /\ \A k \in 2 .. Len(plist') : plist'[k].nbr = Cardinality(OfUser(all, plist'[k].uid))
       /\ \A t \in all : \E k \in 2 .. Len(plist') : plist'[k].uid = t[2]
  BY <1>1, <1>2, <1>3, <1>9, <1>15, TallyGrows
<1>12. Cardinality(all) = number'
  <2>1. Cardinality(C) = plist[1].nbr
    BY <1>3, <1>9 DEF IsTally, number
  <2> QED BY <1>3, <1>6, <1>11, <2>1 DEF number
<1>13. /\ \A t \in all : t[1] <= cursor /\ t[1] \notin entries'
       /\ \A t \in procSeen.steady : t \in all \/ t[1] \in entries' \/ t[1] > cursor
  <2>1. \A t \in all : t[1] <= cursor /\ t[1] \notin entries'
    BY <1>1, <1>2, <1>5, <1>9, <1>15 DEF IsTally
  <2>2. \A t \in procSeen.steady : t[1] = p => t \in T
    <3>1. \A t \in procSeen.steady : t \in ThreadsOf(procs, t[1])
      BY <1>3, Numbers DEF ProcInv, ProcGhosts
    <3> QED BY <3>1
  <2>3. \A t \in procSeen.steady : t \in C \/ t[1] \in entries \/ t[1] > cursor
    BY <1>1, <1>9 DEF IsTally
  <2> QED BY <1>1, <1>15, <2>1, <2>2, <2>3
<1>14. IsTally(all)'
  <2>1. \A x : OfUser(all, x)' = OfUser(all, x)
    BY DEF OfUser
  <2>2. Nodes' = 2 .. Len(plist')
    BY DEF Nodes
  <2>3. ~ Judged' /\ pc' = "proc"
    BY <1>1 DEF Judged
  <2> QED BY <1>1, <1>3, <1>10, <1>11, <1>12, <1>13, <2>1, <2>2, <2>3 DEF IsTally
<1> QED BY <1>1, <1>6, <1>7, <1>8, <1>10, <1>14 DEF ProcInv

\* systemd has the number of the sessions there are.
LEMMA SystemdCounts ==
    ASSUME ProcInv, pc = "utmp", numuser' = Cardinality(Counted(procs, utmp)),
           Goto("verdict"), UNCHANGED <<entries, cursor, plist, procWorld>>
    PROVE  ProcInv'
<1> DEFINE C == Counted(procs, utmp)
<1>1. /\ pc' = "verdict"
      /\ UNCHANGED <<opt, exit, entries, cursor, plist, procs, utmp, procHost, procSeen, procEvents>>
  BY DEF Goto, procWorld
<1>2. Runs({"users"})' = Runs({"users"}) /\ Runs({"nbprocs"})' = Runs({"nbprocs"})
      /\ ~ Runs({"nbprocs"}) /\ Runs({"users"})
  BY <1>1, ProcRuns DEF Runs, ProcInv, ProcTypes
<1>3. procs \in [PID -> Process \cup {NULL}] /\ utmp \in [Slot -> Record] /\ opt \in ProcessesOptions
  BY DEF ProcInv, ProcTypes, ProcessesTypeOK
<1>4. numuser' \in Nat
  BY <1>3, CountedIs, FS_CardinalityType
<1>5. ProcTypes'
  BY <1>1, <1>2, <1>4 DEF ProcInv, ProcTypes, ProcessesTypeOK
<1>6. C' = C
  BY <1>1 DEF Counted, Runs
<1>7. ProcGhosts'
  BY <1>1, <1>6 DEF ProcInv, ProcGhosts
<1>8. ListAddsUp'
  <2>1. Nodes' = Nodes /\ Nbr' = Nbr
    BY <1>1 DEF Nodes, Nbr
  <2> QED BY <1>1, <2>1 DEF ProcInv, ListAddsUp
<1>9. PICK set : set = C
  OBVIOUS
<1>10. set \in SUBSET procSeen.ever /\ procSeen.steady \subseteq set
  BY <1>9 DEF ProcInv, ProcGhosts
<1>11. IsTally(set)'
  <2>1. number' = Cardinality(set)
    BY <1>2, <1>9 DEF number
  <2> QED BY <1>1, <1>2, <1>10, <2>1 DEF IsTally
<1> QED BY <1>1, <1>5, <1>7, <1>8, <1>10, <1>11 DEF ProcInv

\* The next login record is read.
LEMMA RecordRead ==
    ASSUME ProcInv, pc = "utmp", UNCHANGED <<main, entries, plist, procWorld>>,
           NEW s \in Slot, s > cursor, \A r \in Slot : r > cursor => s <= r, cursor' = s,
           numuser' = numuser + IF LoggedIn(utmp[s]) THEN 1 ELSE 0
    PROVE  ProcInv'
<1>1. UNCHANGED <<pc, opt, exit, entries, plist, procs, utmp, procHost, procSeen, procEvents>>
  BY DEF main, procWorld
<1>2. Runs({"users"})' = Runs({"users"}) /\ Runs({"nbprocs"})' = Runs({"nbprocs"})
      /\ ~ Runs({"nbprocs"}) /\ Runs({"users"}) /\ entries = {}
  BY <1>1, ProcRuns DEF Runs, ProcInv, ProcTypes
<1>3. procs \in [PID -> Process \cup {NULL}] /\ utmp \in [Slot -> Record] /\ opt \in ProcessesOptions
      /\ numuser \in Nat /\ cursor \in Nat /\ Slot \subseteq Nat
  BY ProcessesAssumption DEF ProcInv, ProcTypes, ProcessesTypeOK
<1>4. numuser' \in Nat /\ cursor' \in Slot
  BY <1>3
<1>5. ProcTypes'
  BY <1>1, <1>2, <1>4 DEF ProcInv, ProcTypes, ProcessesTypeOK
<1>6. ProcGhosts'
  <2>1. Counted(procs, utmp)' = Counted(procs, utmp)
    BY <1>1 DEF Counted, Runs
  <2> QED BY <1>1, <2>1 DEF ProcInv, ProcGhosts
<1>7. ListAddsUp'
  <2>1. Nodes' = Nodes /\ Nbr' = Nbr
    BY <1>1 DEF Nodes, Nbr
  <2> QED BY <1>1, <2>1 DEF ProcInv, ListAddsUp
<1>8. PICK C \in SUBSET procSeen.ever : IsTally(C)
  BY DEF ProcInv
<1>9. /\ Cardinality(C) = numuser /\ \A t \in C : t[1] <= cursor
      /\ \A t \in procSeen.steady : t \in C \/ t[1] > cursor
  BY <1>2, <1>8 DEF IsTally, number
<1>10. IsFiniteSet(C)
  BY FiniteMember, FS_Subset DEF ProcInv, ProcGhosts
<1>11. \A t \in C : t[1] \in Nat
  <2>1. C \subseteq Member
    BY DEF ProcInv, ProcGhosts
  <2>2. \A t \in (PID \cup Slot) \X Uid \X (1 .. MaxThreads) : t[1] \in PID \cup Slot
    OBVIOUS
  <2> QED BY <2>1, <2>2, ProcessesAssumption DEF Member
<1> DEFINE x == <<s, utmp[s], 1>>
<1>18. PICK new : new = IF LoggedIn(utmp[s]) THEN C \cup {x} ELSE C
  OBVIOUS
<1>12. \A t \in procSeen.steady : t[1] \in Slot /\ utmp[t[1]] \in Uid /\ t = <<t[1], utmp[t[1]], 1>>
  <2>1. procSeen.steady \subseteq Counted(procs, utmp)
    BY DEF ProcInv, ProcGhosts
  <2> QED BY <1>2, <2>1, Numbers
<1>13. \A t \in procSeen.steady : t \in new \/ t[1] > s
  <2> SUFFICES ASSUME NEW t \in procSeen.steady, t \notin C, ~ (t[1] > s) PROVE t \in new
    BY <1>18
  <2>1. t[1] \in Slot /\ t[1] > cursor
    BY <1>9, <1>12
  <2>2. t[1] = s
    <3>1. PICK r \in Slot : r = t[1]
      BY <2>1
    <3>2. s <= r /\ ~ (r > s) /\ r \in Nat /\ s \in Nat
      BY <1>3, <2>1, <3>1
    <3> QED BY <3>1, <3>2
  <2>3. t = x /\ LoggedIn(utmp[s])
    BY <1>12, <2>2 DEF LoggedIn
  <2> QED BY <1>18, <2>3
<1>14. \A t \in new : t[1] <= s
  <2>1. \A t \in C : t[1] <= s
    BY <1>3, <1>9, <1>11
  <2>2. x[1] <= s
    BY <1>3
  <2> QED BY <1>18, <2>1, <2>2
<1>15. Cardinality(new) = numuser'
  <2>1. x \notin C
    <3>1. x[1] = s /\ ~ (s <= cursor)
      BY <1>3
    <3> QED BY <1>9, <3>1
  <2> HIDE DEF x
  <2>2. Cardinality(C \cup {x}) = Cardinality(C) + 1
    BY <1>10, <2>1, FS_AddElement
  <2> QED BY <1>3, <1>9, <1>18, <2>2
<1>16. new \in SUBSET procSeen.ever
  <2>1. LoggedIn(utmp[s]) => x \in Counted(procs, utmp)
    BY <1>2, <1>3, CountedIs DEF LoggedIn
  <2> HIDE DEF x
  <2> QED BY <1>18, <2>1 DEF ProcInv, ProcGhosts
<1>17. IsTally(new)'
  <2>1. ~ Judged' /\ pc' = "utmp"
    BY <1>1 DEF Judged
  <2>2. number' = Cardinality(new)
    BY <1>2, <1>15 DEF number
  <2> QED BY <1>1, <1>2, <1>13, <1>14, <1>16, <2>1, <2>2 DEF IsTally
<1> QED BY <1>1, <1>5, <1>6, <1>7, <1>16, <1>17 DEF ProcInv

\* count_users.
LEMMA UsersCounted ==
    ASSUME ProcInv, count_users
    PROVE  ProcInv'
<1> DEFINE left == {s \in Slot : s > cursor}
<1>1. pc = "utmp" /\ UNCHANGED <<entries, plist, procWorld>> /\ Runs({"users"}) /\ exit = RUNNING
  BY DEF count_users, ProcInv, ProcTypes
<1>2. CASE GiveUp /\ UNCHANGED <<cursor, numuser>>
  BY <1>1, <1>2, ProcGivesUp DEF processesVars, walked
<1>3. CASE numuser' = Cardinality(Counted(procs, utmp)) /\ Goto("verdict") /\ UNCHANGED cursor
  BY <1>1, <1>3, SystemdCounts
<1>4. CASE left = {} /\ Goto("verdict") /\ UNCHANGED <<cursor, numuser>>
  <2>1. UNCHANGED processesVars
    BY <1>1, <1>4 DEF processesVars, walked
  <2>2. pc' = "verdict" /\ opt' = opt /\ exit' = exit
    BY <1>4 DEF Goto
  <2>3. \A t \in Counted(procs, utmp) : ~ (t[1] > cursor)
    BY <1>1, <1>4, Numbers
  <2>4. entries = {}
    BY <1>1 DEF ProcInv, ProcTypes
  <2> QED BY <1>1, <2>1, <2>2, <2>3, <2>4, ProcQuiet
<1>5. CASE /\ left # {} /\ cursor' = Min(left) /\ UNCHANGED main
           /\ numuser' = numuser + IF LoggedIn(utmp[Min(left)]) THEN 1 ELSE 0
  <2>1. left \subseteq Nat
    BY ProcessesAssumption
  <2>2. \E x \in left : \A y \in left : x <= y
    BY <1>5, <2>1, LeastNumber
  <2>3. Min(left) \in left /\ \A y \in left : Min(left) <= y
    BY <2>2 DEF Min
  <2>4. PICK s : s = Min(left)
    OBVIOUS
  <2>5. s \in Slot /\ s > cursor /\ \A r \in Slot : r > cursor => s <= r
    BY <2>3, <2>4
  <2> QED BY <1>1, <1>5, <2>4, <2>5, RecordRead
<1>6. procHost.systemd \in {"yes", "no", "fails"}
  BY ProcessesAssumption DEF ProcInv, ProcTypes, ProcessesTypeOK
<1> HIDE DEF left
<1> QED BY <1>2, <1>3, <1>4, <1>5, <1>6 DEF count_users, left

-----------------------------------------------------------------------------
\* Every step keeps the invariant.
LEMMA ProcStep ==
    ASSUME ProcInv, [ProcessesPlugin \/ ProcessesChange]_<<main, processesVars>>
    PROVE  ProcInv'
<1>1. CASE UNCHANGED <<main, processesVars>>
  <2>1. UNCHANGED <<pc, opt, exit, entries, cursor, plist, numuser, procs, utmp, procHost,
                    procSeen, procEvents>>
    BY <1>1 DEF main, processesVars, walked, procWorld
  <2>2. /\ \A P : Runs(P)' = Runs(P)
        /\ number' = number /\ Nodes' = Nodes /\ Nbr' = Nbr /\ Judged' = Judged
        /\ Counted(procs, utmp)' = Counted(procs, utmp)
    BY <2>1 DEF Runs, number, Nodes, Nbr, Judged, Counted
  <2>3. PICK C \in SUBSET procSeen.ever : IsTally(C)
    BY DEF ProcInv
  <2>4. IsTally(C)'
    <3>1. \A u : OfUser(C, u)' = OfUser(C, u)
      BY DEF OfUser
    <3> QED BY <2>1, <2>2, <2>3, <3>1 DEF IsTally
  <2>5. ProcTypes' /\ ProcGhosts' /\ ListAddsUp'
    BY <2>1, <2>2 DEF ProcInv, ProcTypes, ProcessesTypeOK, ProcGhosts, ListAddsUp
  <2> QED BY <2>1, <2>4, <2>5 DEF ProcInv
<1> QED BY <1>1, ProcParses, ProcReads, ProcNotes, ProcPasses, UsersCounted, ProcJudged, ProcChange
        DEF ProcessesPlugin

\* The inductive invariant of check_nbprocs and check_users.
LEMMA ProcInvariant == ProcessesSpec => []ProcInv
<1>1. ProcInv /\ [ProcessesPlugin \/ ProcessesChange]_<<main, processesVars>> => ProcInv'
  BY ProcStep
<1> QED BY <1>1, ProcInit, PTL DEF ProcessesSpec

\* Between all that were there throughout and all that ever were: so are those of a user.
LEMMA UserCountedTruly ==
    ASSUME ProcInv, Runs({"nbprocs"}), Judged, NEW uid \in Uid
    PROVE  LET of == {k \in Nodes : plist[k].uid = uid}
               Of(set) == Cardinality({t \in set : t[2] = uid})
           IN SumFunctionOnSet(Nbr, of) \in Of(procSeen.steady) .. Of(procSeen.ever)
<1> DEFINE of == {k \in Nodes : plist[k].uid = uid}
           Of(set) == Cardinality({t \in set : t[2] = uid})
<1>1. PICK C \in SUBSET procSeen.ever : IsTally(C)
  BY DEF ProcInv
<1>2. procSeen.steady \subseteq C /\ C \subseteq procSeen.ever
  BY <1>1 DEF IsTally
<1>3. IsFiniteSet(procSeen.ever)
  BY FiniteMember, FS_Subset DEF ProcInv, ProcGhosts
<1>4. Of(C) \in Of(procSeen.steady) .. Of(procSeen.ever)
  <2>1. /\ OfUser(procSeen.steady, uid) \subseteq OfUser(C, uid)
        /\ OfUser(C, uid) \subseteq OfUser(procSeen.ever, uid)
        /\ OfUser(procSeen.ever, uid) \subseteq procSeen.ever
    BY <1>2 DEF OfUser
  <2>2. IsFiniteSet(OfUser(procSeen.ever, uid))
    BY <1>3, <2>1, FS_Subset
  <2>3. Cardinality(OfUser(C, uid)) \in
            Cardinality(OfUser(procSeen.steady, uid)) .. Cardinality(OfUser(procSeen.ever, uid))
    BY <2>1, <2>2, Between
  <2> QED BY <2>3 DEF OfUser
<1>5. SumFunctionOnSet(Nbr, of) = Of(C)
  <2>1. CASE of = {}
    <3>1. \A t \in C : \E k \in Nodes : plist[k].uid = t[2]
      BY <1>1 DEF IsTally
    <3>2. {t \in C : t[2] = uid} = {}
      BY <2>1, <3>1
    <3>3. Of(C) = 0
      BY <3>2, FS_EmptySet
    <3> QED BY <2>1, <3>3, SumEmpty
  <2>2. CASE of # {}
    <3>1. PICK k \in Nodes : plist[k].uid = uid
      BY <2>2
    <3>2. of = {k}
      BY <3>1 DEF ProcInv, ListAddsUp
    <3>3. Nbr[k] = Of(C)
      BY <1>1, <3>1 DEF IsTally, OfUser, Nbr
    <3>4. plist[k].nbr \in Nat /\ Nbr[k] = plist[k].nbr
      <4>1. plist \in Seq(Node) /\ k \in 2 .. Len(plist)
        BY <3>1 DEF ProcInv, ProcTypes, ProcessesTypeOK, Nodes, Node
      <4>2. plist[k] \in Node
        BY <4>1
      <4> QED BY <4>2 DEF Node, Nbr
    <3> HIDE DEF of, Of
    <3> QED BY <3>2, <3>3, <3>4, SumSingle
  <2> QED BY <2>1, <2>2
<1> HIDE DEF of, Of
<1>6. SumFunctionOnSet(Nbr, of) \in Of(procSeen.steady) .. Of(procSeen.ever)
  BY <1>4, <1>5
<1> QED BY <1>6 DEF of, Of

\* check_nbprocs: no user is listed twice, the users add up to the total, and each has the
\* processes, or threads, of his that are there all the time, and none that never were.
THEOREM ListOfUsersAddsUp == ProcessesSpec => []UsersAddUp
<1>1. ProcInv => UsersAddUp
  <2> SUFFICES ASSUME ProcInv PROVE UsersAddUp
    OBVIOUS
  <2>1. \A j, k \in Nodes : plist[j].uid = plist[k].uid => j = k
    BY DEF ProcInv, ListAddsUp
  <2>2. plist[1].nbr = SumFunctionOnSet(Nbr, Nodes)
    BY DEF ProcInv, ListAddsUp
  <2> QED BY <2>1, <2>2, UserCountedTruly DEF UsersAddUp, Nodes, Nbr
<1> QED BY <1>1, ProcInvariant, PTL

-----------------------------------------------------------------------------
(* The plugins implement the census *)

\* The number judged is between those of the members that were there.
LEMMA NumberInCensus ==
    ASSUME ProcInv, pc = "verdict" \/ Judged
    PROVE  number \in Cardinality(procSeen.steady) .. Cardinality(procSeen.ever)
<1>1. PICK C \in SUBSET procSeen.ever : IsTally(C)
  BY DEF ProcInv
<1>2. procSeen.steady \subseteq C /\ Cardinality(C) = number
  BY <1>1 DEF IsTally
<1>3. IsFiniteSet(procSeen.ever)
  BY FiniteMember, FS_Subset DEF ProcInv, ProcGhosts
<1> QED BY SMTT(30), <1>2, <1>3, Between

\* No step of the plugins is one of the host, and only the last gives the verdict.
LEMMA PluginSteps ==
    ASSUME ProcessesPlugin \/ UNCHANGED <<main, processesVars>>
    PROVE  /\ opt' = opt /\ UNCHANGED procWorld
           /\ ProcessesPlugin => pc # "exited"
           /\ ProcessesPlugin /\ Judged' => pc = "verdict" /\ UNCHANGED <<plist, numuser>>
<1>1. CASE UNCHANGED <<main, processesVars>> /\ ~ ProcessesPlugin
  BY <1>1 DEF main, processesVars
<1>2. CASE ProcessesParseOptions
  BY <1>2 DEF ProcessesParseOptions, GiveUp, Exit, Goto, Judged, processesVars, main
<1>3. CASE Readdir
  BY <1>3 DEF Readdir, GiveUp, Exit, Goto, Judged, main
<1>4. CASE ReadStatus \/ PassOver
  BY <1>4 DEF ReadStatus, PassOver, Ended, Judged, main
<1>5. CASE count_users
  BY <1>5 DEF count_users, GiveUp, Exit, Goto, Judged, main
<1>6. CASE JudgeProcesses
  BY <1>6 DEF JudgeProcesses, Exit, processesVars, walked
<1> QED BY <1>1, <1>2, <1>3, <1>4, <1>5, <1>6 DEF ProcessesPlugin

\* check_nbprocs and check_users implement Census: one answer, that counts everyone who
\* was there all the time and nobody who never was.
THEOREM ProcessesAreACensus == ProcessesSpec => ImplementsCensus
<1>1. ASSUME opt \in ProcessesOptions, PluginInit, ProcessesInit
      PROVE  Census!Init
  <2>1. ProcInv
    BY <1>1, ProcInit
  <2>2. Runs(ProcessesPrograms) /\ Counted(procs, utmp) \subseteq Member
    BY <2>1, ProcRuns, CountedIs DEF ProcInv, ProcTypes, ProcessesTypeOK
  <2>3. ~ Judged
    BY <1>1 DEF PluginInit, Judged
  <2>4. procSeen = [steady |-> Counted(procs, utmp), ever |-> Counted(procs, utmp)]
    BY <1>1, <2>2 DEF ProcessesInit, Since
  <2> QED BY <2>2, <2>3, <2>4 DEF Census!Init, CountedNow, Member
<1>2. ASSUME ProcInv, [ProcessesPlugin \/ ProcessesChange]_<<main, processesVars>>
      PROVE  [Census!Next]_Census!census
  <2>1. ProcInv'
    BY <1>2, ProcStep
  <2>2. opt' = opt
    BY <1>2, PluginSteps DEF ProcessesChange, main
  <2>3. Runs(ProcessesPrograms) /\ Runs(ProcessesPrograms)'
    BY <1>2, <2>2, ProcRuns DEF Runs
  <2>4. CASE ProcessesChange
    <3>1. ~ Judged /\ ~ Judged'
      BY <2>4 DEF ProcessesChange, main, Judged
    <3>2. procSeen' = [steady |-> procSeen.steady \cap Counted(procs', utmp'),
                       ever |-> procSeen.ever \cup Counted(procs', utmp')]
      BY <2>4 DEF ProcessesChange, Meeting
    <3>3. Counted(procs, utmp)' = Counted(procs', utmp')
      BY <2>2 DEF Counted, Runs
    <3>4. Counted(procs, utmp)' \subseteq Member
      BY <2>1 DEF ProcInv, ProcGhosts
    <3>5. Census!ComeAndGo
      BY <2>3, <3>1, <3>2, <3>3, <3>4 DEF Census!ComeAndGo, CountedNow, Member
    <3> QED BY <3>5 DEF Census!Next
  <2>5. CASE ~ ProcessesChange
    <3>1. UNCHANGED <<procs, utmp, procSeen>>
      BY <1>2, <2>5, PluginSteps DEF processesVars, walked, procWorld
    <3>2. CountedNow' = CountedNow
      BY <2>2, <3>1 DEF CountedNow, Counted, Runs
    <3>3. CASE UNCHANGED <<main, processesVars>>
      <4>1. number' = number /\ Judged' = Judged
        BY <3>3 DEF number, Judged, Runs, main, processesVars, walked
      <4> QED BY <2>3, <3>1, <3>2, <4>1 DEF Census!census
    <3>4. CASE ProcessesPlugin /\ ~ Judged'
      <4>1. ~ Judged
        BY <3>4, PluginSteps DEF Judged
      <4> QED BY <2>3, <3>1, <3>2, <3>4, <4>1 DEF Census!census
    <3>5. CASE ProcessesPlugin /\ Judged'
      <4>1. ~ Judged /\ pc = "verdict" /\ UNCHANGED <<plist, numuser>>
        BY <3>5, PluginSteps DEF Judged
      <4>2. number' = number
        BY <2>2, <4>1 DEF number, Runs
      <4>3. number \in Cardinality(procSeen.steady) .. Cardinality(procSeen.ever)
        BY <1>2, <4>1, NumberInCensus
      <4>4. Census!Answer
        <5>1. (IF Runs(ProcessesPrograms) /\ Judged THEN number ELSE NULL) = NULL
          BY <4>1
        <5>2. (IF Runs(ProcessesPrograms) /\ Judged THEN number ELSE NULL)' = number
          BY <2>3, <3>5, <4>2
        <5>3. UNCHANGED <<CountedNow, procSeen>>
          BY <3>1, <3>2
        <5>4. \A S : Census!Cardinality(S) = Cardinality(S)
          BY DEF Census!Cardinality, Cardinality
        <5> QED BY <4>3, <5>1, <5>2, <5>3, <5>4 DEF Census!Answer
      <4> QED BY <4>4 DEF Census!Next
    <3> QED BY <1>2, <2>5, <3>3, <3>4, <3>5
  <2> QED BY <2>4, <2>5
<1> QED BY <1>1, <1>2, ProcInvariant, PTL DEF ProcessesSpec, ImplementsCensus, Census!Spec

-----------------------------------------------------------------------------
(***************************************************************************)
(* The sockets: check_tcpcount.                                            *)
(***************************************************************************)

\* What is still to be read, in this order.
Lists == {<<>>, <<"tcp">>, <<"tcp6">>, <<"tcp", "tcp6">>}

\* The places that were passed.
Passed == {c \in tcp_flags \X Place :
              c[1] \notin Range(tofiles) \/ (pc = "lines" /\ c[1] = Head(tofiles) /\ c[2] <= place)}

\* The types, and what is at each place of the program.
TcpTypes ==
    /\ opt \in TcpOptions /\ TcpTypeOK /\ tofiles \in Lists
    /\ Range(tofiles) \subseteq tcp_flags
    /\ pc \in {"options", "tables", "lines", "exited"} /\ (pc # "exited" => exit = RUNNING)
    /\ pc = "options" => data = [s \in States |-> 0]
    /\ pc = "lines" => /\ tofiles # <<>> /\ tcp[Head(tofiles)] # NULL
                       /\ (lnr = 0 /\ place = -1) \/ (lnr > 0 /\ place >= 0)

\* What is established now lies between the ghosts.
TcpGhosts ==
    /\ tcpSeen.steady \subseteq Established(tcp) /\ Established(tcp) \subseteq tcpSeen.ever
    /\ tcpSeen.ever \subseteq tcp_flags \X Place
    /\ tcpSeen = [steady |-> tcpSeen.steady, ever |-> tcpSeen.ever]

\* Those counted as established among the places passed: none that never was, unless its
\* line could not be read, and all that were all the time.
IsTcpTally(C) ==
    /\ C \subseteq Passed /\ Cardinality(C) = data[TCP_ESTABLISHED]
    /\ C \subseteq tcpSeen.ever \cup BogusLines
    /\ tcpSeen.steady \cap Passed \subseteq C
    /\ SumFunctionOnSet(data, States) <= Cardinality(Passed)

\* The inductive invariant of the count of sockets.
TcpInv ==
    /\ TcpTypes /\ TcpGhosts
    /\ pc \in {"tables", "lines"} \/ Judged => \E C \in SUBSET (tcp_flags \X Place) : IsTcpTally(C)
    /\ Judged => tofiles = <<>>

-----------------------------------------------------------------------------
\* The states are finitely many.
LEMMA FiniteStates == IsFiniteSet(States)
<1>1. PICK n \in Nat : n = 11
  OBVIOUS
<1>2. IsFiniteSet(1 .. n)
  BY FS_Interval
<1> QED BY <1>1, <1>2 DEF States

\* The flags are a set of files, and the places finitely many.
LEMMA TcpFlags ==
    ASSUME opt \in TcpOptions
    PROVE  /\ tcp_flags \subseteq Files /\ Runs(TcpPrograms)
           /\ IsFiniteSet(tcp_flags \X Place) /\ IsFiniteSet(States)
<1>1. tcp_flags \subseteq Files /\ Runs(TcpPrograms)
  BY TcpAssumption DEF tcp_flags, TcpCommandLine, Files, Runs, TcpPrograms
<1>2. IsFiniteSet({"tcp", "tcp6"})
  <2>1. IsFiniteSet({"tcp6"}) /\ {"tcp", "tcp6"} = {"tcp6"} \cup {"tcp"}
    BY FS_Singleton
  <2> QED BY <2>1, FS_AddElement
<1>3. IsFiniteSet(tcp_flags)
  BY <1>1, <1>2, FS_Subset DEF Files
<1>4. IsFiniteSet(tcp_flags \X Place)
  BY <1>3, FS_Product, TcpAssumption
<1> QED BY <1>1, <1>4, FiniteStates

\* The lists of files: the first is not among the rest.
LEMMA TheLists ==
    ASSUME NEW list \in Lists
    PROVE  /\ Range(list) \subseteq Files /\ list \in Seq(Files)
           /\ list # <<>> => /\ Head(list) \in Files /\ Tail(list) \in Lists
                             /\ Range(list) = Range(Tail(list)) \cup {Head(list)}
                             /\ Head(list) \notin Range(Tail(list))
           /\ list = <<>> => Range(list) = {}
<1>1. CASE list = <<>>
  <2>1. <<>> \in Seq(Files)
    OBVIOUS
  <2> QED BY <1>1, <2>1 DEF Range
<1>2. CASE list = <<"tcp">>
  <2>1. Head(list) = "tcp" /\ Tail(list) = <<>> /\ list \in Seq(Files)
    BY <1>2 DEF Files
  <2>2. Range(list) = {"tcp"} /\ Range(<<>>) = {}
    BY <1>2 DEF Range
  <2> QED BY <1>2, <2>1, <2>2 DEF Lists, Files
<1>3. CASE list = <<"tcp6">>
  <2>1. Head(list) = "tcp6" /\ Tail(list) = <<>> /\ list \in Seq(Files)
    BY <1>3 DEF Files
  <2>2. Range(list) = {"tcp6"} /\ Range(<<>>) = {}
    BY <1>3 DEF Range
  <2> QED BY <1>3, <2>1, <2>2 DEF Lists, Files
<1>4. CASE list = <<"tcp", "tcp6">>
  <2>1. Head(list) = "tcp" /\ Tail(list) = <<"tcp6">> /\ list \in Seq(Files)
    BY <1>4 DEF Files
  <2>2. Range(list) = {"tcp", "tcp6"} /\ Range(<<"tcp6">>) = {"tcp6"}
    BY <1>4 DEF Range
  <2> QED BY <1>4, <2>1, <2>2 DEF Lists, Files
<1> QED BY <1>1, <1>2, <1>3, <1>4 DEF Lists

\* A line more in a state.
LEMMA Counter ==
    ASSUME NEW d \in [States -> Nat], NEW s \in States, NEW new \in [States -> Nat],
           new[s] = d[s] + 1, \A x \in States \ {s} : d[x] = new[x]
    PROVE  SumFunctionOnSet(new, States) = SumFunctionOnSet(d, States) + 1
<1>1. IsFiniteSet(States)
  BY FiniteStates
<1>2. \A x \in States : d[x] \in Nat /\ new[x] \in Nat
  OBVIOUS
<1>3. SumFunctionOnSet(new, States) = SumFunctionOnSet(d, States) + new[s] - d[s]
  BY <1>1, <1>2, SumChange
<1>4. SumFunctionOnSet(d, States) \in Nat /\ d[s] \in Nat
  BY <1>1, <1>2, SumType
<1> QED BY <1>3, <1>4

\* The connections established at a time, by place.
LEMMA EstablishedIs ==
    ASSUME Runs(TcpPrograms)
    PROVE  \A c : c \in Established(tcp) <=>
                    /\ c \in tcp_flags \X Place /\ tcp[c[1]] # NULL
                    /\ tcp[c[1]][c[2]] = TCP_ESTABLISHED
BY DEF Established

\* Nothing is counted at the start.
LEMMA TcpInitInv ==
    ASSUME opt \in TcpOptions, PluginInit, TcpInit
    PROVE  TcpInv
<1>1. /\ pc = "options" /\ exit = RUNNING /\ tofiles = <<>> /\ place = -1 /\ lnr = 0 /\ state = 0
      /\ data = [s \in States |-> 0] /\ tcpEvents = 0
      /\ tcpSeen = [steady |-> Established(tcp), ever |-> Established(tcp)]
  BY DEF PluginInit, TcpInit, Since
<1>2. tcp \in [Files -> Table \cup {NULL}]
  BY TcpAssumption DEF TcpInit, Either
<1>3. Range(tofiles) = {} /\ tofiles \in Lists /\ tofiles \in Seq(Files)
  BY <1>1, TheLists DEF Lists
<1>4. Runs(TcpPrograms) /\ tcp_flags \subseteq Files
  BY TcpFlags
<1>5. Established(tcp) \subseteq tcp_flags \X Place /\ Established(tcp) \subseteq Files \X Place
  BY <1>4, EstablishedIs
<1>6. TcpTypeOK
  BY <1>1, <1>2, <1>3, <1>5, TcpAssumption DEF TcpTypeOK
<1>7. TcpTypes
  BY <1>1, <1>3, <1>6 DEF TcpTypes
<1>8. TcpGhosts
  BY <1>1, <1>5 DEF TcpGhosts
<1> QED BY <1>1, <1>7, <1>8 DEF TcpInv, Judged

-----------------------------------------------------------------------------
\* Connections come, change and go: a place that was passed is not counted again.
LEMMA TcpChangeKeeps ==
    ASSUME TcpInv, TcpChange
    PROVE  TcpInv'
<1>1. /\ pc \in {"tables", "lines"} /\ UNCHANGED <<pc, opt, exit, tofiles, place, lnr, state, data>>
      /\ tcpSeen' = [steady |-> tcpSeen.steady \cap Established(tcp'),
                     ever |-> tcpSeen.ever \cup Established(tcp')]
      /\ tcpEvents' \in 0 .. MaxTcpEvents
  BY TcpAssumption DEF TcpInv, TcpTypes, TcpTypeOK, TcpChange, main, reading, Meeting
<1>2. PICK f \in Files, p \in Place, s \in TcpMoves :
         tcp[f] # NULL /\ tcp[f][p] # Bogus /\ tcp' = [tcp EXCEPT ![f][p] = s]
  BY DEF TcpChange
<1>3. tcp \in [Files -> Table \cup {NULL}] /\ tcp[f] \in Table /\ s \in States \cup {Vacant}
  BY <1>2, TcpAssumption DEF TcpInv, TcpTypes, TcpTypeOK
<1> DEFINE new == [tcp[f] EXCEPT ![p] = s]
<1>4. new \in Table /\ new # NULL
  BY <1>3, TcpAssumption DEF Table
<1>5. tcp' = [tcp EXCEPT ![f] = new]
  BY <1>2
<1> HIDE DEF new
<1>6. tcp' \in [Files -> Table \cup {NULL}] /\ \A g \in Files : tcp'[g] = NULL <=> tcp[g] = NULL
  BY <1>2, <1>3, <1>4, <1>5
<1>7. opt \in TcpOptions /\ Runs(TcpPrograms) /\ tcp_flags \subseteq Files
  BY TcpFlags DEF TcpInv, TcpTypes
<1>8. Runs(TcpPrograms)' /\ tcp_flags' = tcp_flags /\ Established(tcp)' = Established(tcp')
  BY <1>1, <1>7 DEF Runs, tcp_flags, Established
<1>9. Established(tcp') \subseteq tcp_flags \X Place
  BY <1>7 DEF Established
<1>10. BogusLines' = BogusLines
  <2>1. s # Bogus
    BY <1>3 DEF States, Vacant, Bogus
  <2>2. \A q \in Place : new[q] = Bogus <=> tcp[f][q] = Bogus
    BY <1>2, <1>3, <2>1 DEF Table, new
  <2>3. \A g \in Files, q \in Place : tcp'[g] # NULL /\ tcp'[g][q] = Bogus <=> tcp[g] # NULL /\ tcp[g][q] = Bogus
    BY <1>2, <1>3, <1>4, <1>5, <2>2
  <2>4. \A c \in tcp_flags \X Place : c[1] \in Files /\ c[2] \in Place
    BY <1>7
  <2> QED BY <1>8, <2>3, <2>4 DEF BogusLines
<1>11. Passed' = Passed
  BY <1>1, <1>8 DEF Passed
<1>12. /\ tcpSeen'.steady = tcpSeen.steady \cap Established(tcp')
       /\ tcpSeen'.ever = tcpSeen.ever \cup Established(tcp')
  BY <1>1
<1>13. TcpGhosts'
  BY <1>1, <1>8, <1>9, <1>12 DEF TcpInv, TcpGhosts
<1>14. TcpTypes'
  <2>1. tcpSeen.ever \subseteq tcp_flags \X Place /\ tcpSeen.steady \subseteq tcpSeen.ever
    BY DEF TcpInv, TcpGhosts
  <2>2. tcpSeen'.steady \subseteq tcpSeen'.ever /\ tcpSeen'.ever \subseteq Files \X Place
    BY <1>7, <1>9, <1>12, <2>1
  <2>3. TcpTypeOK'
    BY <1>1, <1>6, <2>2 DEF TcpInv, TcpTypes, TcpTypeOK
  <2>4. pc = "lines" => Head(tofiles) \in Files
    BY TheLists DEF TcpInv, TcpTypes
  <2> QED BY <1>1, <1>6, <1>8, <2>3, <2>4 DEF TcpInv, TcpTypes
<1>15. PICK C \in SUBSET (tcp_flags \X Place) : IsTcpTally(C)
  BY <1>1 DEF TcpInv
<1>16. IsTcpTally(C)'
  BY <1>1, <1>10, <1>11, <1>12, <1>15 DEF IsTcpTally
<1>17. ~ Judged'
  BY <1>1 DEF Judged
<1> QED BY <1>8, <1>13, <1>14, <1>15, <1>16, <1>17 DEF TcpInv

-----------------------------------------------------------------------------
(* The steps of check_tcpcount *)

\* No place is passed and none counted when it begins to read.
LEMMA TcpParses ==
    ASSUME TcpInv, TcpParseOptions
    PROVE  TcpInv'
<1>1. /\ pc = "options" /\ pc' \in {"tables", "exited"} /\ opt' = opt
      /\ pc' = "tables" => exit' = exit
      /\ pc' = "exited" => exit' = STATE_UNKNOWN
      /\ UNCHANGED <<place, lnr, state, data, tcp, tcpSeen, tcpEvents>>
  BY DEF TcpParseOptions, Goto, GiveUp, Exit, sockets
<1>2. tofiles' \in Lists /\ Range(tofiles') = tcp_flags
  <2>1. tcp_flags \subseteq {"tcp", "tcp6"}
    BY TcpFlags DEF TcpInv, TcpTypes, Files
  <2>2. tcp_flags # {}
    BY DEF tcp_flags
  <2>3. Range(<<"tcp">>) = {"tcp"} /\ Range(<<"tcp6">>) = {"tcp6"}
        /\ Range(<<"tcp", "tcp6">>) = {"tcp", "tcp6"}
    BY DEF Range
  <2>4. CASE tcp_flags = Files
    BY <2>3, <2>4 DEF TcpParseOptions, Files, Lists
  <2>5. CASE tcp_flags = {"tcp6"}
    BY <2>3, <2>5 DEF TcpParseOptions, Files, Lists
  <2>6. CASE tcp_flags # Files /\ tcp_flags # {"tcp6"}
    <3>1. tcp_flags = {"tcp"}
      BY <2>1, <2>2, <2>6 DEF Files
    <3> QED BY <2>3, <2>6, <3>1 DEF TcpParseOptions, Lists
  <2> QED BY <2>4, <2>5, <2>6
<1>3. opt \in TcpOptions /\ exit = RUNNING /\ data = [s \in States |-> 0] /\ Runs(TcpPrograms)
  BY <1>1, TcpFlags DEF TcpInv, TcpTypes
<1>4. Runs(TcpPrograms)' /\ tcp_flags' = tcp_flags /\ Established(tcp)' = Established(tcp)
      /\ BogusLines' = BogusLines
  BY <1>1, <1>3 DEF Runs, tcp_flags, Established, BogusLines
<1>5. TcpTypes'
  <2>1. tofiles' \in Seq(Files)
    BY <1>2, TheLists
  <2> QED BY <1>1, <1>2, <1>3, <1>4, <2>1 DEF TcpInv, TcpTypes, TcpTypeOK
<1>6. TcpGhosts'
  BY <1>1, <1>4 DEF TcpInv, TcpGhosts
<1>7. ~ Judged'
  BY <1>1 DEF Judged
<1>8. pc' = "tables" => IsTcpTally({})'
  <2>1. pc' = "tables" => Passed' = {}
    BY <1>2, <1>4 DEF Passed
  <2>2. \A x \in States : data[x] = 0
    BY <1>3
  <2>3. SumFunctionOnSet(data, States) <= 0
    BY <2>2, FiniteStates, SumZero
  <2>4. data[TCP_ESTABLISHED] = 0
    BY <2>2 DEF TCP_ESTABLISHED, States
  <2> QED BY <1>1, <2>1, <2>3, <2>4, FS_EmptySet DEF IsTcpTally
<1> QED BY <1>1, <1>4, <1>5, <1>6, <1>7, <1>8 DEF TcpInv

\* The next file is opened.
LEMMA TcpOpens ==
    ASSUME TcpInv, OpenTable
    PROVE  TcpInv'
<1>1. /\ pc = "tables" /\ tofiles # <<>> /\ opt' = opt
      /\ UNCHANGED <<tofiles, data, tcp, tcpSeen, tcpEvents>>
      /\ \/ /\ tcp[Head(tofiles)] = NULL /\ pc' = "exited" /\ exit' = STATE_UNKNOWN
            /\ UNCHANGED <<place, lnr, state>>
         \/ /\ tcp[Head(tofiles)] # NULL /\ pc' = "lines" /\ exit' = exit
            /\ place' = -1 /\ lnr' = 0 /\ state' \in AnyState
  BY DEF OpenTable, Goto, GiveUp, Exit, sockets
<1>2. opt \in TcpOptions /\ exit = RUNNING /\ Runs(TcpPrograms)
  BY <1>1, TcpFlags DEF TcpInv, TcpTypes
<1>3. Runs(TcpPrograms)' /\ tcp_flags' = tcp_flags /\ Established(tcp)' = Established(tcp)
      /\ BogusLines' = BogusLines
  BY <1>1, <1>2 DEF Runs, tcp_flags, Established, BogusLines
<1>4. TcpTypes'
  <2>1. place' \in Place \cup {-1, 0} /\ lnr' \in Nat
    BY <1>1 DEF TcpInv, TcpTypes, TcpTypeOK
  <2>2. state' \in Nat
    BY <1>1, TcpAssumption DEF TcpInv, TcpTypes, TcpTypeOK
  <2> QED BY <1>1, <1>2, <1>3, <2>1, <2>2 DEF TcpInv, TcpTypes, TcpTypeOK
<1>5. TcpGhosts'
  BY <1>1, <1>3 DEF TcpInv, TcpGhosts
<1>6. ~ Judged'
  BY <1>1 DEF Judged
<1>7. PICK C \in SUBSET (tcp_flags \X Place) : IsTcpTally(C)
  BY <1>1 DEF TcpInv
<1>8. pc' = "lines" => IsTcpTally(C)'
  <2>1. pc' = "lines" => Passed' = Passed
    <3>1. \A c \in tcp_flags \X Place : ~ (c[2] <= -1)
      <4>1. \A c \in tcp_flags \X Place : c[2] \in Place
        OBVIOUS
      <4>2. \A p \in Place : ~ (p <= -1)
        BY TcpAssumption
      <4> QED BY <4>1, <4>2
    <3> QED BY <1>1, <1>3, <3>1 DEF Passed
  <2> QED BY <1>1, <1>3, <1>7, <2>1 DEF IsTcpTally
<1> QED BY <1>1, <1>3, <1>4, <1>5, <1>6, <1>7, <1>8 DEF TcpInv

\* The end of a file: nothing that is established lies beyond.
LEMMA TcpEnds ==
    ASSUME TcpInv, EndOfTable
    PROVE  TcpInv'
<1>1. /\ pc = "lines" /\ LinesAfter(place) = {} /\ tofiles' = Tail(tofiles)
      /\ pc' = "tables" /\ UNCHANGED <<opt, exit, place, lnr, state, data, tcp, tcpSeen, tcpEvents>>
  BY DEF EndOfTable, Goto, sockets
<1> DEFINE f == Head(tofiles)
<1>2. /\ tofiles # <<>> /\ opt \in TcpOptions /\ Runs(TcpPrograms) /\ f \in Files /\ tofiles' \in Lists
      /\ Range(tofiles) = Range(tofiles') \cup {f} /\ f \notin Range(tofiles')
      /\ tofiles' \in Seq(Files) /\ f \in tcp_flags /\ tcp_flags \subseteq Files
  BY <1>1, TcpFlags, TheLists DEF TcpInv, TcpTypes
<1>3. Runs(TcpPrograms)' /\ tcp_flags' = tcp_flags /\ Established(tcp)' = Established(tcp)
      /\ BogusLines' = BogusLines
  BY <1>1, <1>2 DEF Runs, tcp_flags, Established, BogusLines
<1>4. TcpTypes'
  BY <1>1, <1>2, <1>3 DEF TcpInv, TcpTypes, TcpTypeOK
<1>5. TcpGhosts'
  BY <1>1, <1>3 DEF TcpInv, TcpGhosts
<1>6. PICK C \in SUBSET (tcp_flags \X Place) : IsTcpTally(C)
  BY <1>1 DEF TcpInv
<1> HIDE DEF f
<1>7. Passed' = {c \in tcp_flags \X Place : c[1] \notin Range(tofiles')}
  BY <1>1, <1>3 DEF Passed
<1>8. Passed \subseteq Passed'
  BY <1>1, <1>2, <1>7 DEF Passed, f
<1>9. tcpSeen.steady \cap Passed' \subseteq Passed
  <2> SUFFICES ASSUME NEW c \in tcpSeen.steady \cap Passed' PROVE c \in Passed
    OBVIOUS
  <2>1. c \in tcp_flags \X Place /\ tcp[c[1]] # NULL /\ tcp[c[1]][c[2]] = TCP_ESTABLISHED
    BY <1>2, EstablishedIs DEF TcpInv, TcpGhosts
  <2>2. c[1] \notin Range(tofiles')
    BY <1>7
  <2>3. CASE c[1] = f
    <3>1. c[2] \in Place /\ tcp[f][c[2]] # Vacant
      BY <2>1, <2>3 DEF Vacant, TCP_ESTABLISHED
    <3>2. ~ (c[2] > place)
      BY <1>1, <3>1 DEF LinesAfter, f
    <3>3. c[2] <= place
      <4>1. place \in Int /\ c[2] \in Nat
        <5>1. place \in Place \/ place = -1 \/ place = 0
          BY DEF TcpInv, TcpTypes, TcpTypeOK
        <5>2. \A p \in Place : p \in Nat
          BY TcpAssumption
        <5> QED BY <3>1, <5>1, <5>2
      <4> QED BY <3>2, <4>1
    <3> QED BY <1>1, <2>1, <2>3, <3>3 DEF Passed, f
  <2>4. CASE c[1] # f
    BY <1>2, <2>1, <2>2, <2>4 DEF Passed
  <2> QED BY <2>3, <2>4
<1>10. IsTcpTally(C)'
  <2>1. IsFiniteSet(Passed')
    BY <1>2, <1>7, TcpFlags, FS_Subset
  <2>2. Cardinality(Passed) \in Nat /\ Cardinality(Passed') \in Nat /\ Cardinality(Passed) <= Cardinality(Passed')
    BY <1>8, <2>1, Between
  <2>3. SumFunctionOnSet(data, States) \in Nat
    <3>1. \A x \in States : data[x] \in Nat
      BY DEF TcpInv, TcpTypes, TcpTypeOK
    <3> QED BY <3>1, FiniteStates, SumType
  <2>4. SumFunctionOnSet(data, States) <= Cardinality(Passed')
    BY <1>6, <2>2, <2>3 DEF IsTcpTally
  <2> QED BY <1>1, <1>3, <1>6, <1>8, <1>9, <2>4 DEF IsTcpTally
<1>11. ~ Judged'
  BY <1>1 DEF Judged
<1> QED BY <1>3, <1>4, <1>5, <1>6, <1>10, <1>11 DEF TcpInv

\* The next line: it is of the next place that is not vacant.
LEMMA TheNextLine ==
    ASSUME TcpInv, procparser_tcp, lnr # 0
    PROVE  /\ lnr \in Nat /\ lnr > 0 /\ place' \in Place /\ place' > place /\ place' \in Nat /\ place \in Nat
           /\ \A q \in Place : q > place /\ q < place' => tcp[Head(tofiles)][q] = Vacant
<1>1. lnr > 0 /\ place >= 0 /\ LinesAfter(place) # {} /\ place' = Min(LinesAfter(place))
  BY DEF TcpInv, TcpTypes, TcpTypeOK, procparser_tcp
<1>2. \A p \in Place : p \in Nat /\ p # 0
  BY TcpAssumption
<1>3. place \in Nat
  <2>1. place \in Place \/ place = -1 \/ place = 0
    BY DEF TcpInv, TcpTypes, TcpTypeOK
  <2> QED BY <1>1, <1>2, <2>1
<1>4. /\ LinesAfter(place) \subseteq Place /\ LinesAfter(place) \subseteq Nat
      /\ \A q \in LinesAfter(place) : q > place
      /\ \A q \in Place : q > place /\ tcp[Head(tofiles)][q] # Vacant => q \in LinesAfter(place)
  <2>1. \A q \in LinesAfter(place) : q \in Place \cup {0} /\ q > place
    BY DEF LinesAfter
  <2>2. ~ (0 > place)
    BY <1>3
  <2> QED BY <1>2, <2>1, <2>2 DEF LinesAfter
<1>5. \E x \in LinesAfter(place) : \A y \in LinesAfter(place) : x <= y
  BY <1>1, <1>4, LeastNumber
<1>6. place' \in LinesAfter(place) /\ \A y \in LinesAfter(place) : place' <= y
  BY <1>1, <1>5 DEF Min
<1>7. \A q \in Place : q > place /\ q < place' => tcp[Head(tofiles)][q] = Vacant
  <2> SUFFICES ASSUME NEW q \in Place, q > place, q < place', tcp[Head(tofiles)][q] # Vacant PROVE FALSE
    OBVIOUS
  <2>1. place' <= q
    BY <1>4, <1>6
  <2> QED BY <1>2, <1>4, <1>6, <2>1
<1>8. lnr \in Nat
  BY DEF TcpInv, TcpTypes, TcpTypeOK
<1> QED BY <1>1, <1>3, <1>4, <1>6, <1>7, <1>8

\* The heading line has place 0.
LEMMA TheHeading ==
    ASSUME TcpInv, procparser_tcp, lnr = 0
    PROVE  place = -1 /\ place' = 0
<1>1. place = -1 /\ place' = Min(LinesAfter(place))
  BY DEF TcpInv, TcpTypes, procparser_tcp
<1>2. \A p \in Place : p \in Nat /\ p # 0
  BY TcpAssumption
<1>3. 0 \in LinesAfter(-1) /\ \A q \in LinesAfter(-1) : q \in Nat
  BY <1>2 DEF LinesAfter
<1>4. \A x \in LinesAfter(-1) : (\A y \in LinesAfter(-1) : x <= y) => x = 0
  <2> SUFFICES ASSUME NEW x \in LinesAfter(-1), \A y \in LinesAfter(-1) : x <= y PROVE x = 0
    OBVIOUS
  <2>1. x <= 0 /\ x \in Nat
    BY <1>3
  <2> QED BY <2>1
<1>5. \A y \in LinesAfter(-1) : 0 <= y
  BY <1>3
<1>6. Min(LinesAfter(-1)) = 0
  BY <1>3, <1>4, <1>5 DEF Min
<1> QED BY <1>1, <1>6

\* What does not change while the lines of a file are read.
LEMMA LinesKeep ==
    ASSUME TcpInv, procparser_tcp, data' \in [States -> Nat], state' \in Nat,
           place' \in Place \cup {0}, place' >= 0, NEW C \in SUBSET (tcp_flags \X Place), IsTcpTally(C)'
    PROVE  TcpInv'
<1>1. /\ pc = "lines" /\ UNCHANGED <<pc, opt, exit, tofiles, tcp, tcpSeen, tcpEvents>> /\ lnr' = lnr + 1
  BY DEF procparser_tcp, main, sockets
<1>2. opt \in TcpOptions /\ exit = RUNNING /\ Runs(TcpPrograms) /\ lnr \in Nat
  BY <1>1, TcpFlags DEF TcpInv, TcpTypes, TcpTypeOK
<1>3. Runs(TcpPrograms)' /\ tcp_flags' = tcp_flags /\ Established(tcp)' = Established(tcp)
  BY <1>1, <1>2 DEF Runs, tcp_flags, Established
<1>4. lnr' \in Nat /\ lnr' > 0
  BY <1>1, <1>2
<1>5. TcpTypeOK'
  BY <1>1, <1>4 DEF TcpInv, TcpTypes, TcpTypeOK
<1>6. TcpTypes'
  BY <1>1, <1>2, <1>3, <1>4, <1>5 DEF TcpInv, TcpTypes
<1>7. TcpGhosts'
  BY <1>1, <1>3 DEF TcpInv, TcpGhosts
<1>8. ~ Judged'
  BY <1>1 DEF Judged
<1> QED BY <1>3, <1>6, <1>7, <1>8 DEF TcpInv

\* A line is read.
LEMMA TcpReadsLine ==
    ASSUME TcpInv, procparser_tcp
    PROVE  TcpInv'
<1>1. /\ pc = "lines" /\ UNCHANGED <<pc, opt, exit, tofiles, tcp, tcpSeen, tcpEvents>> /\ lnr' = lnr + 1
      /\ tofiles # <<>> /\ tcp[Head(tofiles)] # NULL
  BY DEF procparser_tcp, main, sockets, TcpInv, TcpTypes
<1>2. /\ opt \in TcpOptions /\ Runs(TcpPrograms) /\ tcp_flags \subseteq Files
      /\ Head(tofiles) \in tcp_flags
      /\ data \in [States -> Nat] /\ state \in Nat /\ lnr \in Nat
      /\ tcp \in [Files -> Table \cup {NULL}]
  BY <1>1, TcpFlags, TheLists DEF TcpInv, TcpTypes, TcpTypeOK
<1>3. tcp_flags' = tcp_flags /\ BogusLines' = BogusLines
  BY <1>1, <1>2 DEF Runs, tcp_flags, BogusLines
<1>4. PICK C \in SUBSET (tcp_flags \X Place) : IsTcpTally(C)
  BY <1>1 DEF TcpInv
<1>5. PICK f : f = Head(tofiles)
  OBVIOUS
<1>6. Passed = {c \in tcp_flags \X Place : c[1] \notin Range(tofiles) \/ (c[1] = f /\ c[2] <= place)}
  BY <1>1, <1>5 DEF Passed
<1>7. Passed' = {c \in tcp_flags \X Place : c[1] \notin Range(tofiles) \/ (c[1] = f /\ c[2] <= place')}
  BY <1>1, <1>3, <1>5 DEF Passed
<1>8. CASE lnr = 0
  <2>1. place = -1 /\ place' = 0 /\ UNCHANGED <<state, data>>
    BY <1>1, <1>8, TheHeading DEF procparser_tcp
  <2>2. Passed' = Passed
    <3>1. \A c \in tcp_flags \X Place : c[2] \in Place
      OBVIOUS
    <3>2. \A p \in Place : ~ (p <= -1) /\ ~ (p <= 0)
      BY TcpAssumption
    <3> QED BY <1>6, <1>7, <2>1, <3>1, <3>2
  <2>3. IsTcpTally(C)'
    BY <1>1, <1>3, <1>4, <2>1, <2>2 DEF IsTcpTally
  <2>4. place' \in Place \cup {0} /\ place' >= 0
    BY <2>1
  <2> QED BY <1>2, <2>1, <2>3, <2>4, LinesKeep
<1>9. CASE lnr # 0
  <2>1. /\ lnr > 0 /\ place' \in Place /\ place' > place /\ place' \in Nat /\ place \in Nat
        /\ \A q \in Place : q > place /\ q < place' => tcp[f][q] = Vacant
    BY <1>5, <1>9, TheNextLine
  <2>2. PICK q : q = place'
    OBVIOUS
  <2>3. /\ state' = IF tcp[f][q] = Bogus THEN state ELSE tcp[f][q]
        /\ data' = IF state' \in States THEN [data EXCEPT ![state'] = @ + 1] ELSE data
    <3>1. lnr' # 1 /\ place' # 0
      BY <1>1, <1>2, <2>1
    <3> QED BY <1>5, <2>2, <3>1 DEF procparser_tcp
  <2>4. tcp[f] \in Table /\ tcp[f][q] \in States \cup {Vacant, Bogus}
    <3>1. tcp[f] \in Table
      BY <1>1, <1>2, <1>5
    <3> QED BY <2>1, <2>2, <3>1 DEF Table
  <2>5. state' \in Nat
    BY <1>2, <2>3, <2>4 DEF States, Vacant, Bogus
  <2>6. PICK z : z = state'
    OBVIOUS
  <2>7. data' \in [States -> Nat]
    BY <1>2, <2>3
  <2> DEFINE x == <<f, q>>
  <2>8. x \in tcp_flags \X Place /\ x \notin Passed /\ Passed \cup {x} \subseteq Passed'
    <3>1. x \in tcp_flags \X Place /\ x[1] = f /\ x[2] = q
      BY <1>2, <1>5, <2>1, <2>2
    <3>2. f \in Range(tofiles)
      BY <1>1, <1>5, TheLists DEF TcpInv, TcpTypes
    <3>3. ~ (q <= place) /\ q <= q
      BY <2>1, <2>2
    <3>4. \A p \in Place : p <= place => p <= q
      <4>1. \A p \in Place : p \in Nat
        BY TcpAssumption
      <4> QED BY <2>1, <2>2, <4>1
    <3> HIDE DEF x
    <3>5. x \notin Passed /\ x \in Passed'
      BY <1>6, <1>7, <2>2, <3>1, <3>2, <3>3
    <3>6. \A c \in Passed : c[2] \in Place
      BY <1>6
    <3>7. Passed \subseteq Passed'
      BY <1>6, <1>7, <2>2, <3>4, <3>6
    <3> QED BY <3>1, <3>5, <3>7
  <2>9. \A c \in tcpSeen.steady : /\ c \in Passed' => c \in Passed \/ c = x
                                /\ tcp[c[1]][c[2]] = TCP_ESTABLISHED
    <3> SUFFICES ASSUME NEW c \in tcpSeen.steady
                 PROVE  /\ c \in Passed' => c \in Passed \/ c = x
                        /\ tcp[c[1]][c[2]] = TCP_ESTABLISHED
      OBVIOUS
    <3>1. c \in tcp_flags \X Place /\ tcp[c[1]][c[2]] = TCP_ESTABLISHED
      BY <1>2, EstablishedIs DEF TcpInv, TcpGhosts
    <3>2. ASSUME c \in Passed', c \notin Passed PROVE c = x
      <4>1. c[1] = f /\ c[2] <= q /\ ~ (c[2] <= place) /\ c[2] \in Place
        BY <1>6, <1>7, <2>2, <3>1, <3>2
      <4>2. tcp[f][c[2]] # Vacant
        BY <3>1, <4>1 DEF Vacant, TCP_ESTABLISHED
      <4>3. c[2] \in Nat
        BY <4>1, TcpAssumption
      <4>4. c[2] > place
        BY <2>1, <4>1, <4>3
      <4>5. ~ (c[2] < q)
        BY <2>1, <2>2, <4>1, <4>2, <4>4
      <4>6. c[2] = q
        BY <2>1, <2>2, <4>1, <4>3, <4>5
      <4> QED BY <3>1, <4>1, <4>6
    <3> QED BY <3>1, <3>2
  <2>10. IsFiniteSet(Passed) /\ IsFiniteSet(Passed')
    <3>1. Passed \subseteq tcp_flags \X Place /\ Passed' \subseteq tcp_flags \X Place
      BY <1>6, <1>7
    <3> QED BY <1>2, <3>1, TcpFlags, FS_Subset
  <2>11. SumFunctionOnSet(data', States) <= Cardinality(Passed')
    <3>1. Cardinality(Passed \cup {x}) = Cardinality(Passed) + 1 /\ Cardinality(Passed) \in Nat
      BY <2>8, <2>10, FS_AddElement, FS_CardinalityType
    <3>2. Cardinality(Passed \cup {x}) <= Cardinality(Passed') /\ Cardinality(Passed') \in Nat
      BY <2>8, <2>10, Between
    <3>3. SumFunctionOnSet(data, States) \in Nat /\ SumFunctionOnSet(data, States) <= Cardinality(Passed)
      <4>1. \A y \in States : data[y] \in Nat
        BY <1>2
      <4> QED BY <1>4, <4>1, FiniteStates, SumType DEF IsTcpTally
    <3>4. CASE z \in States
      <4>1. data'[z] = data[z] + 1 /\ \A y \in States \ {z} : data[y] = data'[y]
        BY <1>2, <2>3, <2>6, <3>4
      <4>2. SumFunctionOnSet(data', States) = SumFunctionOnSet(data, States) + 1
        BY <1>2, <2>7, <3>4, <4>1, Counter
      <4> QED BY <3>1, <3>2, <3>3, <4>2
    <3>5. CASE z \notin States
      <4>1. data' = data
        BY <2>3, <2>6, <3>5
      <4> QED BY <3>1, <3>2, <3>3, <4>1
    <3> QED BY <3>4, <3>5
  <2>12. place' \in Place \cup {0} /\ place' >= 0
    BY <2>1
  <2>13. PICK D : D = IF z = TCP_ESTABLISHED THEN C \cup {x} ELSE C
    OBVIOUS
  <2>14. C \subseteq Passed /\ Cardinality(C) = data[TCP_ESTABLISHED]
         /\ C \subseteq tcpSeen.ever \cup BogusLines /\ tcpSeen.steady \cap Passed \subseteq C
    BY <1>4 DEF IsTcpTally
  <2>15. tcp[f][q] # Bogus => z = tcp[f][q]
    BY <2>3, <2>6
  <2>16. z = TCP_ESTABLISHED => x \in tcpSeen.ever \cup BogusLines
    <3>1. x[1] = f /\ x[2] = q /\ x \in tcp_flags \X Place
      BY <2>8
    <3>2. CASE tcp[f][q] = Bogus
      BY <1>1, <1>5, <3>1, <3>2 DEF BogusLines
    <3>3. CASE tcp[f][q] # Bogus /\ z = TCP_ESTABLISHED
      <4>1. x \in Established(tcp)
        BY <1>1, <1>2, <1>5, <2>15, <3>1, <3>3, EstablishedIs
      <4> QED BY <4>1 DEF TcpInv, TcpGhosts
    <3> QED BY <3>2, <3>3
  <2>17. x \in tcpSeen.steady => z = TCP_ESTABLISHED
    <3>1. x[1] = f /\ x[2] = q
      OBVIOUS
    <3>2. x \in tcpSeen.steady => tcp[f][q] = TCP_ESTABLISHED
      BY <2>9, <3>1
    <3> QED BY <2>15, <3>2 DEF TCP_ESTABLISHED, Bogus
  <2>18. TCP_ESTABLISHED \in States
    BY DEF TCP_ESTABLISHED, States
  <2> HIDE DEF x
  <2>19. Cardinality(D) = data'[TCP_ESTABLISHED]
    <3>1. CASE z = TCP_ESTABLISHED
      <4>1. x \notin C /\ IsFiniteSet(C)
        BY <2>8, <2>10, <2>14, FS_Subset
      <4>2. Cardinality(C \cup {x}) = Cardinality(C) + 1
        BY <4>1, FS_AddElement
      <4>3. data'[TCP_ESTABLISHED] = data[TCP_ESTABLISHED] + 1
        BY <1>2, <2>3, <2>6, <2>18, <3>1
      <4> QED BY <2>13, <2>14, <3>1, <4>2, <4>3
    <3>2. CASE z # TCP_ESTABLISHED
      <4>1. data'[TCP_ESTABLISHED] = data[TCP_ESTABLISHED]
        BY <1>2, <2>3, <2>6, <2>18, <3>2
      <4> QED BY <2>13, <2>14, <3>2, <4>1
    <3> QED BY <3>1, <3>2
  <2>20. D \subseteq Passed' /\ D \in SUBSET (tcp_flags \X Place)
    BY <2>8, <2>13, <2>14
  <2>21. D \subseteq tcpSeen.ever \cup BogusLines
    BY <2>13, <2>14, <2>16
  <2>22. tcpSeen.steady \cap Passed' \subseteq D
    BY <2>9, <2>13, <2>14, <2>17
  <2>23. SumFunctionOnSet(data, States)' <= Cardinality(Passed')
    BY <2>11
  <2>24. IsTcpTally(D)'
    BY <1>1, <1>3, <2>19, <2>20, <2>21, <2>22, <2>23 DEF IsTcpTally
  <2> QED BY <2>5, <2>7, <2>12, <2>20, <2>24, LinesKeep
<1> QED BY <1>8, <1>9

\* The end: all places were passed.
LEMMA TcpJudges ==
    ASSUME TcpInv, JudgeTcp
    PROVE  TcpInv'
<1>1. /\ pc = "tables" /\ tofiles = <<>> /\ pc' = "exited" /\ opt' = opt
      /\ UNCHANGED <<tofiles, place, lnr, state, data, tcp, tcpSeen, tcpEvents>>
  BY DEF JudgeTcp, Exit, tcpVars, reading, sockets
<1>2. opt \in TcpOptions /\ Runs(TcpPrograms)
  BY TcpFlags DEF TcpInv, TcpTypes
<1>3. Runs(TcpPrograms)' /\ tcp_flags' = tcp_flags /\ Established(tcp)' = Established(tcp)
      /\ BogusLines' = BogusLines
  BY <1>1, <1>2 DEF Runs, tcp_flags, Established, BogusLines
<1>4. TcpTypes'
  BY <1>1, <1>3 DEF TcpInv, TcpTypes, TcpTypeOK
<1>5. TcpGhosts'
  BY <1>1, <1>3 DEF TcpInv, TcpGhosts
<1>6. PICK C \in SUBSET (tcp_flags \X Place) : IsTcpTally(C)
  BY <1>1 DEF TcpInv
<1>7. Passed' = Passed
  BY <1>1, <1>3 DEF Passed
<1>8. IsTcpTally(C)'
  BY <1>1, <1>3, <1>6, <1>7 DEF IsTcpTally
<1> QED BY <1>1, <1>3, <1>4, <1>5, <1>6, <1>8 DEF TcpInv

\* Every step keeps the invariant.
LEMMA TcpStep ==
    ASSUME TcpInv, [TcpPlugin \/ TcpChange]_<<main, tcpVars>>
    PROVE  TcpInv'
<1>1. CASE UNCHANGED <<main, tcpVars>>
  <2>1. UNCHANGED <<pc, opt, exit, tofiles, place, lnr, state, data, tcp, tcpSeen, tcpEvents>>
    BY <1>1 DEF main, tcpVars, reading, sockets
  <2>2. /\ tcp_flags' = tcp_flags /\ Established(tcp)' = Established(tcp)
        /\ BogusLines' = BogusLines /\ Judged' = Judged
    BY <2>1 DEF Runs, tcp_flags, Established, BogusLines, Judged
  <2>3. Passed' = Passed
    BY <2>1, <2>2 DEF Passed
  <2>4. \A C : IsTcpTally(C)' <=> IsTcpTally(C)
    BY <2>1, <2>2, <2>3 DEF IsTcpTally
  <2>5. TcpTypes' /\ TcpGhosts'
    BY <2>1, <2>2 DEF TcpInv, TcpTypes, TcpTypeOK, TcpGhosts
  <2> QED BY <2>1, <2>2, <2>4, <2>5 DEF TcpInv
<1> QED BY <1>1, TcpParses, TcpOpens, TcpReadsLine, TcpEnds, TcpJudges, TcpChangeKeeps DEF TcpPlugin

\* At the end all places were passed.
LEMMA AllPassed ==
    ASSUME TcpInv, Judged
    PROVE  Passed = tcp_flags \X Place
<1>1. tofiles = <<>>
  BY DEF TcpInv
<1>2. Range(tofiles) = {}
  BY <1>1, TheLists DEF Lists
<1> QED BY <1>2 DEF Passed

\* check_tcpcount: the number judged is between the connections that were established
\* all the time and those that were at some time, but for the lines that cannot be read,
\* and no line is counted twice.
THEOREM EstablishedTruly == TcpSpec => []EstablishedBracketed
<1>1. TcpInv => EstablishedBracketed
  <2> SUFFICES ASSUME TcpInv, Runs(TcpPrograms), Judged
               PROVE  /\ data[TCP_ESTABLISHED] \in
                            Cardinality(tcpSeen.steady) ..
                              Cardinality(tcpSeen.ever) + Cardinality(BogusLines)
                      /\ SumFunctionOnSet(data, States) <= Cardinality(tcp_flags \X Place)
    BY DEF EstablishedBracketed
  <2>1. Passed = tcp_flags \X Place
    BY AllPassed
  <2>2. PICK C \in SUBSET (tcp_flags \X Place) : IsTcpTally(C)
    BY DEF TcpInv
  <2>3. IsFiniteSet(tcp_flags \X Place)
    BY TcpFlags DEF TcpInv, TcpTypes
  <2>4. /\ tcpSeen.steady \subseteq C /\ C \subseteq tcpSeen.ever \cup BogusLines
        /\ tcpSeen.ever \subseteq tcp_flags \X Place /\ BogusLines \subseteq tcp_flags \X Place
    <3>1. tcpSeen.steady \subseteq Passed
      BY <2>1 DEF TcpInv, TcpGhosts, Established
    <3> QED BY <2>2, <3>1 DEF IsTcpTally, TcpInv, TcpGhosts, BogusLines
  <2>5. IsFiniteSet(tcpSeen.ever) /\ IsFiniteSet(BogusLines)
    BY <2>3, <2>4, FS_Subset
  <2>6. /\ IsFiniteSet(tcpSeen.ever \cup BogusLines)
        /\ Cardinality(tcpSeen.ever \cup BogusLines) <= Cardinality(tcpSeen.ever) + Cardinality(BogusLines)
    <3>1. /\ IsFiniteSet(tcpSeen.ever \cup BogusLines)
          /\ Cardinality(tcpSeen.ever \cup BogusLines) =
                Cardinality(tcpSeen.ever) + Cardinality(BogusLines) - Cardinality(tcpSeen.ever \cap BogusLines)
      BY <2>5, FS_Union
    <3>2. Cardinality(tcpSeen.ever \cap BogusLines) \in Nat /\ Cardinality(tcpSeen.ever) \in Nat
          /\ Cardinality(BogusLines) \in Nat
      <4>1. IsFiniteSet(tcpSeen.ever \cap BogusLines)
        BY <2>5, FS_Intersection
      <4> QED BY <2>5, <4>1, FS_CardinalityType
    <3> QED BY <3>1, <3>2
  <2>7. /\ Cardinality(tcpSeen.steady) <= Cardinality(C)
        /\ Cardinality(C) <= Cardinality(tcpSeen.ever \cup BogusLines)
        /\ Cardinality(C) \in Nat /\ Cardinality(tcpSeen.steady) \in Nat
        /\ Cardinality(tcpSeen.ever \cup BogusLines) \in Nat
    <3>1. PICK U : U = tcpSeen.ever \cup BogusLines
      OBVIOUS
    <3>2. IsFiniteSet(U) /\ C \subseteq U
      BY <2>4, <2>6, <3>1
    <3>3. PICK S : S = tcpSeen.steady
      OBVIOUS
    <3>4. /\ Cardinality(S) <= Cardinality(C) /\ Cardinality(C) <= Cardinality(U)
          /\ Cardinality(C) \in Nat /\ Cardinality(S) \in Nat /\ Cardinality(U) \in Nat
      BY <2>4, <3>2, <3>3, Between
    <3> QED BY <3>1, <3>3, <3>4
  <2>8. Cardinality(tcpSeen.ever) \in Nat /\ Cardinality(BogusLines) \in Nat
    BY <2>5, FS_CardinalityType
  <2>9. data[TCP_ESTABLISHED] = Cardinality(C)
    BY <2>2 DEF IsTcpTally
  <2>10. Cardinality(C) \in Cardinality(tcpSeen.steady) .. Cardinality(tcpSeen.ever) + Cardinality(BogusLines)
    BY <2>6, <2>7, <2>8
  <2>11. SumFunctionOnSet(data, States) <= Cardinality(tcp_flags \X Place)
    BY <2>1, <2>2 DEF IsTcpTally
  <2> QED BY <2>9, <2>10, <2>11
<1>2. TcpInv /\ [TcpPlugin \/ TcpChange]_<<main, tcpVars>> => TcpInv'
  BY TcpStep
<1> QED BY <1>1, <1>2, TcpInitInv, PTL DEF TcpSpec

-----------------------------------------------------------------------------
(***************************************************************************)
(* The topology: check_cpu --cpuinfo.                                      *)
(***************************************************************************)

\* The numbers of a host whose cores are alike.
ThreadsOfCore == Cardinality(thread_siblings(0))
CoresOfPackage == Cardinality(core_siblings(0)) \div ThreadsOfCore
Packages == {board.package[c] : c \in up}

\* The CPUs the three numbers stand for.
Shown == nsockets * (ncores * nthreads)

TopologyTypes ==
    /\ TopologyTypeOK /\ opt \in TopologyOptions
    /\ upSeen.ever \subseteq Processor
    /\ pc = "options" => lookup = 0
    /\ pc \in {"cores", "sockets"} => lookup \in Processor

\* As long as no CPU goes or comes, what is known of a host whose cores are alike.
OfTheHost ==
    plugs = 0 =>
       /\ pc = "cores" => lookup \in up
       /\ Uniform =>
            /\ pc \in {"cores", "sockets"} => nthreads = ThreadsOfCore
            /\ pc = "sockets" => ncores = CoresOfPackage
            /\ (pc = "threads" /\ lookup > 0) \/ (pc = "exited" /\ opt.accepted) =>
                 /\ nthreads = ThreadsOfCore /\ ncores = CoresOfPackage
                 /\ nsockets = Cardinality(Packages)

\* Once the last CPU, which stays, has been looked at.
OfTheLast ==
    LET last == Max(upSeen.ever)
    IN last \in upSeen.steady =>
         /\ pc \in {"cores", "sockets"} => lookup <= last
         /\ pc = "cores" /\ lookup = last => nthreads <= Cardinality(upSeen.ever)
         /\ pc = "sockets" /\ lookup = last => ncores * nthreads <= Cardinality(upSeen.ever)
         /\ (pc = "threads" /\ lookup > last) \/ (pc = "exited" /\ opt.accepted) =>
              Shown <= Cardinality(upSeen.ever)

\* The inductive invariant.
TopologyInv == TopologyTypes /\ OfTheHost /\ OfTheLast

-----------------------------------------------------------------------------
(* Quotients and classes *)

\* What is divided by one of its factors is the other.
LEMMA ExactQuotient ==
    ASSUME NEW t \in Nat \ {0}, NEW k \in Int
    PROVE  (t * k) \div t = k
<1> DEFINE x == t * k
           q == x \div t
           r == x % t
<1>1. x \in Int
  OBVIOUS
<1>2. q \in Int /\ r \in 0 .. t - 1 /\ x = q * t + r
  BY <1>1, DivMod
<1>3. (k - q) * t = r
  BY <1>2
<1> HIDE DEF q, r, x
<1>4. k - q = 0
  <2>1. CASE k - q >= 1
    BY <1>2, <1>3, <2>1
  <2>2. CASE k - q <= -1
    BY <1>2, <1>3, <2>2
  <2> QED BY <1>2, <2>1, <2>2
<1> QED BY <1>2, <1>4 DEF q, x

\* A quotient times its divisor is not more than the dividend.
LEMMA QuotientTimes ==
    ASSUME NEW x \in Nat, NEW m \in Nat \ {0}
    PROVE  x \div m \in Nat /\ (x \div m) * m <= x /\ x \div m <= x
<1> DEFINE q == x \div m
           r == x % m
<1>1. q \in Int /\ r \in 0 .. m - 1 /\ x = q * m + r
  BY DivMod
<1> HIDE DEF q, r
<1>2. q \in Nat
  <2>1. CASE q <= -1
    BY <1>1, <2>1
  <2> QED BY <1>1, <2>1
<1>3. q <= q * m
  BY <1>2
<1> QED BY <1>1, <1>2, <1>3 DEF q

\* A number not above a bound, or one, times what is not above it either.
LEMMA ProductBound ==
    ASSUME NEW bound \in Nat, NEW x \in Nat, x <= bound, NEW m \in Nat \ {0}, m <= bound
    PROVE  /\ AtLeastOne(x \div m) \in Nat \ {0}
           /\ AtLeastOne(x \div m) * m <= bound
<1>1. x \div m \in Nat /\ (x \div m) * m <= x
  BY QuotientTimes
<1>2. CASE x \div m = 0
  BY <1>2 DEF AtLeastOne
<1>3. CASE x \div m # 0
  BY <1>1, <1>3 DEF AtLeastOne
<1> QED BY <1>2, <1>3

\* What f makes of a set, and what of it has the same value as x.
ValuesOf(f, S) == {f[y] : y \in S}
AlikeIn(f, S, x) == {y \in S : f[y] = f[x]}

\* A finite set that f cuts into classes of n elements has n elements for each class.
LEMMA EqualClasses ==
    ASSUME NEW S, IsFiniteSet(S), NEW f, NEW n \in Nat,
           \A x \in S : Cardinality(AlikeIn(f, S, x)) = n
    PROVE  /\ Cardinality(ValuesOf(f, S)) \in Nat
           /\ Cardinality(S) = n * Cardinality(ValuesOf(f, S))
<1> USE DEF AlikeIn, ValuesOf
<1> DEFINE V == {f[x] : x \in S}
           Class(W) == {y \in S : f[y] \in W}
           T == {W \in SUBSET V : Cardinality(Class(W)) = n * Cardinality(W)}
<1>1. IsFiniteSet(V)
  BY FiniteImage
<1>2. \A W \in SUBSET V : IsFiniteSet(W) /\ Cardinality(W) \in Nat
  BY <1>1, FS_Subset, FS_CardinalityType
<1>3. {} \in T
  <2>1. Class({}) = {}
    OBVIOUS
  <2> QED BY <2>1, FS_EmptySet
<1>4. ASSUME NEW W \in SUBSET V, NEW v \in V, W \in T, v \notin W
      PROVE  W \cup {v} \in T
  <2>1. PICK x \in S : v = f[x]
    OBVIOUS
  <2>2. Class({v}) = {y \in S : f[y] = f[x]}
    BY <2>1
  <2>3. Cardinality(Class({v})) = n
    BY <2>2
  <2>4. Class(W \cup {v}) = Class(W) \cup Class({v}) /\ Class(W) \cap Class({v}) = {}
    BY <1>4
  <2>5. IsFiniteSet(Class(W)) /\ IsFiniteSet(Class({v}))
    BY FS_Subset
  <2> HIDE DEF Class
  <2>6. Cardinality(Class(W \cup {v})) = Cardinality(Class(W)) + Cardinality(Class({v}))
    BY <2>4, <2>5, DisjointUnion
  <2>7. Cardinality(W \cup {v}) = Cardinality(W) + 1
    BY <1>2, <1>4, FS_AddElement
  <2>8. PICK w : w = Cardinality(W) /\ w \in Nat
    BY <1>2
  <2>9. n * (w + 1) = n * w + n
    BY <2>8
  <2>10. Cardinality(Class(W)) = n * w
    BY <1>4, <2>8
  <2> QED BY <2>3, <2>6, <2>7, <2>8, <2>9, <2>10
<1> HIDE DEF T, V, Class
<1>5. SUBSET V \subseteq T
  BY <1>1, <1>3, <1>4, SetInduction
<1>6. Cardinality(Class(V)) = n * Cardinality(V)
  BY <1>5 DEF T
<1>7. Class(V) = S
  BY DEF Class, V
<1> QED BY <1>2, <1>6, <1>7 DEF V

\* A finite set of numbers that is not empty has a largest one.
LEMMA Largest ==
    ASSUME NEW S, S \subseteq Nat, IsFiniteSet(S), S # {}
    PROVE  Max(S) \in S /\ \A x \in S : x <= Max(S)
<1> DEFINE T == {s \in SUBSET S : s = {} \/ \E x \in s : \A y \in s : x >= y}
<1>1. {} \in T
  OBVIOUS
<1>2. ASSUME NEW s \in SUBSET S, NEW e \in S, s \in T, e \notin s
      PROVE  s \cup {e} \in T
  <2>1. CASE s = {}
    BY <2>1
  <2>2. CASE s # {}
    <3>1. PICK x \in s : \A y \in s : x >= y
      BY <1>2, <2>2
    <3>2. CASE x >= e
      BY <3>1, <3>2
    <3>3. CASE ~ (x >= e)
      <4>1. \A y \in s \cup {e} : e >= y
        BY <3>1, <3>3
      <4> QED BY <4>1
    <3> QED BY <3>2, <3>3
  <2> QED BY <2>1, <2>2
<1> HIDE DEF T
<1>3. S \in T
  BY <1>1, <1>2, SetInduction
<1>4. \E x \in S : \A y \in S : x >= y
  BY <1>3 DEF T
<1>5. Max(S) \in S /\ \A y \in S : Max(S) >= y
  BY <1>4 DEF Max
<1> QED BY <1>5

-----------------------------------------------------------------------------
(* The host *)

\* The CPUs online are some of those there may be, and the masks are of CPUs online.
LEMMA MasksAreFinite ==
    ASSUME TopologyTypes
    PROVE  /\ IsFiniteSet(up) /\ Cardinality(up) \in Nat /\ Cardinality(up) < UnsignedInt
           /\ Cardinality(up) <= Cardinality(upSeen.ever) /\ Cardinality(upSeen.ever) \in Nat
           /\ \A c \in up :
                /\ IsFiniteSet(thread_siblings(c)) /\ IsFiniteSet(core_siblings(c))
                /\ Cardinality(thread_siblings(c)) \in 1 .. Cardinality(up)
                /\ Cardinality(core_siblings(c)) \in 1 .. Cardinality(up)
<1>1. IsFiniteSet(Processor) /\ UnsignedInt \in Nat /\ Cardinality(Processor) < UnsignedInt
  BY TopologyAssumption
<1>2. up \subseteq upSeen.ever /\ upSeen.ever \subseteq Processor
  BY DEF TopologyTypes, TopologyTypeOK
<1>3. IsFiniteSet(upSeen.ever) /\ Cardinality(upSeen.ever) <= Cardinality(Processor)
  BY <1>1, <1>2, FS_Subset
<1>4. IsFiniteSet(up) /\ Cardinality(up) <= Cardinality(upSeen.ever)
  BY <1>2, <1>3, FS_Subset
<1>5. /\ Cardinality(up) \in Nat /\ Cardinality(upSeen.ever) \in Nat
      /\ Cardinality(Processor) \in Nat
  BY <1>1, <1>3, <1>4, FS_CardinalityType
<1>6. ASSUME NEW M, M \subseteq up, NEW c \in M
      PROVE  IsFiniteSet(M) /\ Cardinality(M) \in 1 .. Cardinality(up)
  <2>1. IsFiniteSet(M) /\ Cardinality(M) <= Cardinality(up)
    BY <1>4, <1>6, FS_Subset
  <2>2. Cardinality(M) \in Nat /\ (Cardinality(M) = 0 <=> M = {})
    BY <2>1, FS_CardinalityType, FS_EmptySet
  <2> QED BY <1>5, <2>1, <2>2
<1>7. ASSUME NEW c \in up
      PROVE  /\ IsFiniteSet(thread_siblings(c)) /\ IsFiniteSet(core_siblings(c))
             /\ Cardinality(thread_siblings(c)) \in 1 .. Cardinality(up)
             /\ Cardinality(core_siblings(c)) \in 1 .. Cardinality(up)
  <2>1. c \in thread_siblings(c) /\ thread_siblings(c) \subseteq up
    BY DEF thread_siblings
  <2>2. c \in core_siblings(c) /\ core_siblings(c) \subseteq up
    BY DEF core_siblings
  <2> QED BY <1>6, <2>1, <2>2
<1> QED BY <1>1, <1>3, <1>4, <1>5, <1>7

\* Of a host whose cores are alike the three quotients are exact.
LEMMA HostNumbers ==
    ASSUME TopologyTypes, Uniform
    PROVE  /\ ThreadsOfCore \in Nat \ {0} /\ CoresOfPackage \in Nat \ {0}
           /\ Cardinality(Packages) \in Nat \ {0}
           /\ (Cardinality(up) \div ThreadsOfCore) \div CoresOfPackage = Cardinality(Packages)
           /\ Cardinality(Packages) * CoresOfPackage = Cardinality({board.core[c] : c \in up})
<1>1. 0 \in up /\ up \subseteq Processor /\ board \in Boards
  BY DEF TopologyTypes, TopologyTypeOK
<1>2. IsFiniteSet(up) /\ IsFiniteSet(core_siblings(0)) /\ ThreadsOfCore \in Nat \ {0}
      /\ Cardinality(core_siblings(0)) \in Nat \ {0}
  BY <1>1, MasksAreFinite DEF ThreadsOfCore
<1>3. \A c \in up : /\ Cardinality(thread_siblings(c)) = ThreadsOfCore
                    /\ Cardinality(core_siblings(c)) = Cardinality(core_siblings(0))
  BY <1>1 DEF Uniform, ThreadsOfCore
<1> DEFINE Cores(S) == {board.core[c] : c \in S}
           cores == Cardinality(Cores(up))
           k == Cardinality(Cores(core_siblings(0)))
           t == ThreadsOfCore
           s == Cardinality(Packages)
<1>4. cores \in Nat /\ Cardinality(up) = t * cores
  <2>1. \A c \in up : AlikeIn(board.core, up, c) = thread_siblings(c)
    BY DEF AlikeIn, thread_siblings
  <2>2. \A c \in up : Cardinality(AlikeIn(board.core, up, c)) = t
    BY <1>3, <2>1
  <2>3. Cores(up) = ValuesOf(board.core, up)
    BY DEF ValuesOf
  <2> HIDE DEF Cores, t
  <2> QED BY <1>2, <2>2, <2>3, EqualClasses DEF t
<1>5. k \in Nat /\ Cardinality(core_siblings(0)) = t * k
  <2> DEFINE M == core_siblings(0)
  <2>1. ASSUME NEW c \in M
        PROVE  AlikeIn(board.core, M, c) = thread_siblings(c)
    <3>1. \A d \in up : board.core[d] = board.core[c] => board.package[d] = board.package[c]
      BY <1>1, TopologyAssumption DEF core_siblings
    <3> QED BY <3>1 DEF AlikeIn, core_siblings, thread_siblings
  <2>2. \A c \in M : Cardinality(AlikeIn(board.core, M, c)) = t
    BY <1>3, <2>1 DEF core_siblings
  <2>3. Cores(M) = ValuesOf(board.core, M)
    BY DEF ValuesOf
  <2> HIDE DEF Cores, M, t
  <2> QED BY <1>2, <2>2, <2>3, EqualClasses DEF M, t
<1>6. s \in Nat /\ Cardinality(up) = Cardinality(core_siblings(0)) * s
  <2>1. \A c \in up : AlikeIn(board.package, up, c) = core_siblings(c)
    BY DEF AlikeIn, core_siblings
  <2>2. \A c \in up : Cardinality(AlikeIn(board.package, up, c)) =
                         Cardinality(core_siblings(0))
    BY <1>3, <2>1
  <2>3. Packages = ValuesOf(board.package, up)
    BY DEF ValuesOf, Packages
  <2> QED BY <1>2, <2>2, <2>3, EqualClasses
<1>7. s # 0
  <2>1. Packages # {} /\ IsFiniteSet(Packages)
    BY <1>1, <1>2, FiniteImage DEF Packages
  <2> QED BY <2>1, FS_EmptySet
<1> HIDE DEF cores, k, t, s
<1>8. t \in Nat \ {0} /\ s \in Nat \ {0}
  BY <1>2, <1>6, <1>7 DEF t
<1>9. CoresOfPackage = k /\ k \in Nat \ {0}
  <2>1. (t * k) \div t = k
    BY <1>5, <1>8, ExactQuotient
  <2>2. t * k # 0
    BY <1>2, <1>5
  <2> QED BY <1>5, <1>8, <2>1, <2>2 DEF CoresOfPackage, t
<1>10. cores = k * s
  <2>1. t * cores = (t * k) * s
    BY <1>4, <1>5, <1>6
  <2>2. t * (cores - k * s) = 0
    BY <1>4, <1>8, <1>9, <2>1
  <2> QED BY <1>4, <1>8, <1>9, <2>2
<1>11. Cardinality(up) \div t = k * s
  BY <1>4, <1>8, <1>9, <1>10, ExactQuotient
<1>12. (k * s) \div k = s
  BY <1>8, <1>9, ExactQuotient
<1> QED BY <1>8, <1>9, <1>10, <1>11, <1>12 DEF cores, t, s

-----------------------------------------------------------------------------
(* The invariant *)

\* The largest CPU number there is, and the largest ever online.
LEMMA LastCpu ==
    ASSUME TopologyTypes
    PROVE  /\ Max(Processor) \in Processor /\ \A c \in Processor : c <= Max(Processor)
           /\ Max(upSeen.ever) \in upSeen.ever /\ \A c \in upSeen.ever : c <= Max(upSeen.ever)
           /\ Max(upSeen.ever) <= Max(Processor) /\ Max(upSeen.ever) \in Nat
           /\ Max(Processor) \in Nat
<1>1. Processor \subseteq Nat /\ IsFiniteSet(Processor) /\ Processor # {}
  BY TopologyAssumption
<1>2. upSeen.ever \subseteq Processor /\ upSeen.ever # {}
  BY DEF TopologyTypes, TopologyTypeOK
<1>3. IsFiniteSet(upSeen.ever) /\ upSeen.ever \subseteq Nat
  BY <1>1, <1>2, FS_Subset
<1>4. Max(Processor) \in Processor /\ \A c \in Processor : c <= Max(Processor)
  BY <1>1, Largest
<1>5. Max(upSeen.ever) \in upSeen.ever /\ \A c \in upSeen.ever : c <= Max(upSeen.ever)
  BY <1>2, <1>3, Largest
<1> QED BY <1>1, <1>2, <1>3, <1>4, <1>5

\* The invariant holds at the start.
LEMMA TopologyInitInv ==
    opt \in TopologyOptions /\ PluginInit /\ TopologyInit => TopologyInv
<1> SUFFICES ASSUME opt \in TopologyOptions, PluginInit, TopologyInit PROVE TopologyInv
  OBVIOUS
<1>1. pc = "options" /\ lookup = 0 /\ nthreads = 1 /\ ncores = 1 /\ nsockets = 1 /\ plugs = 0
  BY DEF PluginInit, TopologyInit
<1>2. Runs(TopologyPrograms)
  BY TopologyAssumption DEF TopologyCommandLine, TopologyPrograms, Runs
<1>3. board \in Boards /\ up = board.online /\ upSeen = [steady |-> up, ever |-> up]
  BY <1>2 DEF TopologyInit, Either, Since
<1>4. 0 \in up /\ up \subseteq Processor
  BY <1>3, TopologyAssumption DEF Arrangement
<1>5. /\ Cardinality(Processor) \in Nat \ {0} /\ UnsignedInt \in Nat /\ MaxPlugs \in Nat
      /\ Cardinality(Processor) < UnsignedInt
  BY TopologyAssumption, FS_CardinalityType, FS_EmptySet
<1>6. Max(Processor) \in Nat
  BY TopologyAssumption, Largest
<1>7. TopologyTypes
  BY <1>1, <1>3, <1>4, <1>5, <1>6 DEF TopologyTypes, TopologyTypeOK
<1> QED BY <1>1, <1>7 DEF TopologyInv, OfTheHost, OfTheLast

\* A CPU that goes or comes: nothing is known of the host any more, and the last CPU
\* ever online is the one there was or one that was not there all the time.
LEMMA PlugCpuStep == TopologyInv /\ PlugCpu => TopologyInv'
<1> SUFFICES ASSUME TopologyInv, PlugCpu PROVE TopologyInv'
  OBVIOUS
<1>1. /\ pc \in {"threads", "cores", "sockets"} /\ plugs < MaxPlugs /\ plugs' = plugs + 1
      /\ UNCHANGED <<pc, opt, exit, board, lookup, nthreads, ncores, nsockets>>
      /\ upSeen' = [steady |-> upSeen.steady \cap up', ever |-> upSeen.ever \cup up']
  BY DEF PlugCpu, main, Meeting
<1>2. PICK c \in Processor \ {0} : up' = IF c \in up THEN up \ {c} ELSE up \cup {c}
  BY DEF PlugCpu
<1>3. /\ TopologyTypes /\ OfTheLast /\ up \subseteq upSeen.ever /\ plugs \in Nat
      /\ upSeen.steady \subseteq up
  BY DEF TopologyInv, TopologyTypes, TopologyTypeOK
<1>4. TopologyTypes'
  <2>1. 0 \in up' /\ up' \subseteq Processor
    BY <1>2, <1>3 DEF TopologyTypes, TopologyTypeOK
  <2>2. plugs' \in 0 .. MaxPlugs
    BY <1>1, <1>3, TopologyAssumption
  <2>3. upSeen'.steady \subseteq up' /\ up' \subseteq upSeen'.ever /\ upSeen'.ever \subseteq Processor
    BY <1>1, <1>3, <2>1 DEF TopologyTypes
  <2> QED BY <1>1, <1>3, <2>1, <2>2, <2>3 DEF TopologyTypes, TopologyTypeOK
<1>5. OfTheHost'
  BY <1>1, <1>3 DEF OfTheHost
<1>6. OfTheLast'
  <2>1. upSeen.ever \subseteq upSeen'.ever /\ IsFiniteSet(upSeen'.ever)
    <3>1. upSeen'.ever \subseteq Processor
      BY <1>4 DEF TopologyTypes
    <3> QED BY <1>1, <3>1, TopologyAssumption, FS_Subset
  <2>2. Cardinality(upSeen.ever) <= Cardinality(upSeen'.ever) /\ Cardinality(upSeen'.ever) \in Nat
        /\ Cardinality(upSeen.ever) \in Nat
    BY <1>3, <2>1, FS_Subset, FS_CardinalityType, MasksAreFinite
  <2>3. ASSUME Max(upSeen'.ever) \in upSeen'.steady
        PROVE  Max(upSeen'.ever) = Max(upSeen.ever) /\ Max(upSeen.ever) \in upSeen.steady
    <3>1. Max(upSeen'.ever) \in upSeen.steady
      BY <1>1, <2>3
    <3>2. /\ Max(upSeen.ever) \in upSeen.ever /\ Max(upSeen.ever) \in Nat
          /\ \A d \in upSeen.ever : d <= Max(upSeen.ever)
      BY <1>3, LastCpu
    <3>3. /\ \A d \in upSeen'.ever : d <= Max(upSeen'.ever)
          /\ Max(upSeen'.ever) \in Nat
      <4>1. upSeen'.ever \subseteq Nat /\ upSeen'.ever # {}
        BY <1>4, TopologyAssumption DEF TopologyTypes, TopologyTypeOK
      <4> QED BY <2>1, <4>1, Largest
    <3>4. Max(upSeen'.ever) \in upSeen.ever
      BY <1>3, <3>1
    <3>5. Max(upSeen'.ever) <= Max(upSeen.ever) /\ Max(upSeen.ever) <= Max(upSeen'.ever)
      BY <2>1, <3>2, <3>3, <3>4
    <3> QED BY <3>1, <3>2, <3>3, <3>5
  <2>4. PICK old, new : old = Cardinality(upSeen.ever) /\ new = Cardinality(upSeen'.ever)
    OBVIOUS
  <2>5. PICK prod : prod = ncores * nthreads /\ prod \in Nat
    BY <1>3, TopologyAssumption DEF TopologyTypes, TopologyTypeOK
  <2>6. PICK shown : shown = Shown /\ shown \in Nat
    BY <1>3, <2>5, TopologyAssumption DEF TopologyTypes, TopologyTypeOK, Shown
  <2>7. nthreads \in Nat /\ old \in Nat /\ new \in Nat /\ old <= new
    BY <1>3, <2>2, <2>4, TopologyAssumption DEF TopologyTypes, TopologyTypeOK
  <2>8. Shown' = shown /\ ncores' * nthreads' = prod /\ nthreads' = nthreads
    BY <1>1, <2>5, <2>6 DEF Shown
  <2> SUFFICES ASSUME Max(upSeen'.ever) \in upSeen'.steady
               PROVE  /\ pc \in {"cores", "sockets"} => lookup <= Max(upSeen.ever)
                      /\ pc = "cores" /\ lookup = Max(upSeen.ever) => nthreads <= new
                      /\ pc = "sockets" /\ lookup = Max(upSeen.ever) => prod <= new
                      /\ (pc = "threads" /\ lookup > Max(upSeen.ever)) \/ (pc = "exited" /\ opt.accepted) =>
                            shown <= new
    BY <1>1, <2>3, <2>4, <2>8 DEF OfTheLast
  <2>9. /\ pc \in {"cores", "sockets"} => lookup <= Max(upSeen.ever)
        /\ pc = "cores" /\ lookup = Max(upSeen.ever) => nthreads <= old
        /\ pc = "sockets" /\ lookup = Max(upSeen.ever) => prod <= old
        /\ (pc = "threads" /\ lookup > Max(upSeen.ever)) \/ (pc = "exited" /\ opt.accepted) =>
              shown <= old
    BY <1>3, <2>3, <2>4, <2>5, <2>6 DEF OfTheLast
  <2> QED BY <1>1, <2>5, <2>6, <2>7, <2>9
<1> QED BY <1>4, <1>5, <1>6 DEF TopologyInv

\* The host does not depend on how far the plugin is.
LEMMA HostStays ==
    UNCHANGED <<board, up>> =>
       /\ Uniform' = Uniform /\ ThreadsOfCore' = ThreadsOfCore
       /\ CoresOfPackage' = CoresOfPackage /\ Packages' = Packages
BY DEF Uniform, ThreadsOfCore, CoresOfPackage, Packages, thread_siblings, core_siblings

\* What the steps of the plugin need of the state before.
LEMMA BeforeStep ==
    ASSUME TopologyInv
    PROVE  /\ TopologyTypes /\ OfTheHost /\ OfTheLast
           /\ nthreads \in Nat \ {0} /\ ncores \in Nat \ {0} /\ nsockets \in Nat \ {0}
           /\ lookup \in Nat /\ UnsignedInt \in Nat \ {0} /\ 0 \in up
           /\ nthreads < UnsignedInt
           /\ upSeen.steady \subseteq up /\ up \subseteq upSeen.ever
  BY LastCpu, TopologyAssumption DEF TopologyInv, TopologyTypes, TopologyTypeOK

\* The options; the first CPU is looked at next.
LEMMA OptionsStep == TopologyInv /\ TopologyParseOptions => TopologyInv'
<1> SUFFICES ASSUME TopologyInv, TopologyParseOptions PROVE TopologyInv'
  OBVIOUS
<1>1. /\ UNCHANGED <<board, up, upSeen, plugs, lookup, nthreads, ncores, nsockets, opt>>
      /\ pc = "options" /\ pc' = IF opt.accepted THEN "threads" ELSE "exited"
  BY DEF TopologyParseOptions, topologyVars, cpus, Goto, GiveUp, Exit
<1>2. TopologyTypes /\ lookup = 0 /\ Max(upSeen.ever) \in Nat
  BY <1>1, LastCpu DEF TopologyInv, TopologyTypes
<1>3. TopologyTypes'
  BY <1>1, <1>2 DEF TopologyTypes, TopologyTypeOK
<1>4. OfTheHost' /\ OfTheLast'
  BY <1>1, <1>2 DEF OfTheHost, OfTheLast
<1> QED BY <1>3, <1>4 DEF TopologyInv

\* The first file of a CPU, or the end of the loop.
LEMMA ThreadsStep == TopologyInv /\ ReadThreads => TopologyInv'
<1> SUFFICES ASSUME TopologyInv, ReadThreads PROVE TopologyInv'
  OBVIOUS
<1>1. /\ TopologyTypes /\ OfTheHost /\ OfTheLast
      /\ nthreads \in Nat \ {0} /\ ncores \in Nat \ {0} /\ nsockets \in Nat \ {0}
      /\ lookup \in Nat /\ 0 \in up /\ upSeen.steady \subseteq up /\ up \subseteq upSeen.ever
  BY BeforeStep
<1>2. pc = "threads" /\ UNCHANGED <<board, up, upSeen, plugs, ncores, nsockets, opt>>
  BY DEF ReadThreads, cpus, Goto, Exit, main
<1>3. PICK last : /\ last = Max(upSeen.ever) /\ last \in Nat /\ last \in Processor
                  /\ \A c \in upSeen.ever : c <= last
                  /\ last <= Max(Processor) /\ Max(Processor) \in Nat
                  /\ \A c \in Processor : c <= Max(Processor)
  BY <1>1, LastCpu DEF TopologyTypes
<1>4. CASE lookup > Max(Processor)
  <2>1. pc' = "exited" /\ UNCHANGED <<lookup, nthreads>>
    BY <1>4 DEF ReadThreads, Exit
  <2>2. TopologyTypes'
    BY <1>1, <1>2, <2>1 DEF TopologyTypes, TopologyTypeOK
  <2>3. OfTheHost'
    BY <1>1, <1>2, <1>3, <1>4, <2>1, HostStays DEF OfTheHost
  <2>4. OfTheLast'
    BY <1>1, <1>2, <1>3, <1>4, <2>1 DEF OfTheLast, Shown
  <2> QED BY <2>2, <2>3, <2>4 DEF TopologyInv
<1>5. CASE ~ (lookup > Max(Processor)) /\ lookup \notin up
  <2>1. pc' = "threads" /\ lookup' = lookup + 1 /\ UNCHANGED nthreads
    BY <1>2, <1>5 DEF ReadThreads, main
  <2>2. TopologyTypes'
    BY <1>1, <1>2, <1>3, <1>5, <2>1 DEF TopologyTypes, TopologyTypeOK
  <2>3. lookup > 0
    BY <1>1, <1>5
  <2>4. OfTheHost'
    BY <1>1, <1>2, <2>1, <2>3, HostStays DEF OfTheHost
  <2>5. last \in upSeen.steady => lookup # last
    BY <1>1, <1>5
  <2>6. OfTheLast'
    BY <1>1, <1>2, <1>3, <2>1, <2>5 DEF OfTheLast, Shown
  <2> QED BY <2>2, <2>4, <2>6 DEF TopologyInv
<1>6. CASE ~ (lookup > Max(Processor)) /\ lookup \in up
  <2>1. /\ pc' = "cores" /\ UNCHANGED lookup
        /\ nthreads' = AtLeastOne(Cardinality(thread_siblings(lookup)))
    BY <1>6 DEF ReadThreads, Goto, cpumask_parse
  <2>2. /\ Cardinality(thread_siblings(lookup)) \in 1 .. Cardinality(up)
        /\ Cardinality(up) <= Cardinality(upSeen.ever) /\ Cardinality(up) < UnsignedInt
        /\ Cardinality(up) \in Nat /\ Cardinality(upSeen.ever) \in Nat
    BY <1>1, <1>6, MasksAreFinite
  <2>3. nthreads' = Cardinality(thread_siblings(lookup))
    BY <2>1, <2>2 DEF AtLeastOne
  <2>4. TopologyTypes'
    BY <1>1, <1>2, <1>6, <2>1, <2>2, <2>3, TopologyAssumption DEF TopologyTypes, TopologyTypeOK
  <2>5. OfTheHost'
    <3>1. Uniform => Cardinality(thread_siblings(lookup)) = ThreadsOfCore
      BY <1>1, <1>6 DEF Uniform, ThreadsOfCore
    <3>2. (Uniform' <=> Uniform) /\ ThreadsOfCore' = ThreadsOfCore
      BY <1>2, HostStays
    <3> QED BY <1>2, <1>6, <2>1, <2>3, <3>1, <3>2 DEF OfTheHost
  <2>6. OfTheLast'
    BY <1>1, <1>2, <1>3, <1>6, <2>1, <2>2, <2>3 DEF OfTheLast
  <2> QED BY <2>4, <2>5, <2>6 DEF TopologyInv
<1> QED BY <1>4, <1>5, <1>6

\* The second file.
LEMMA CoresStep == TopologyInv /\ ReadCores => TopologyInv'
<1> SUFFICES ASSUME TopologyInv, ReadCores PROVE TopologyInv'
  OBVIOUS
<1>1. /\ TopologyTypes /\ OfTheHost /\ OfTheLast
      /\ nthreads \in Nat \ {0} /\ UnsignedInt \in Nat \ {0} /\ 0 \in up
      /\ upSeen.steady \subseteq up /\ nthreads < UnsignedInt
  BY BeforeStep
<1> DEFINE mask == cpumask_parse(lookup, core_siblings(lookup))
           x == mask % UnsignedInt
<1>2. /\ pc = "cores" /\ pc' = "sockets" /\ ncores' = AtLeastOne(x \div nthreads)
      /\ UNCHANGED <<board, up, upSeen, plugs, lookup, nthreads, nsockets, opt>>
  BY DEF ReadCores, Goto, cpus
<1>3. /\ Cardinality(up) <= Cardinality(upSeen.ever) /\ Cardinality(up) < UnsignedInt
      /\ Cardinality(up) \in Nat /\ Cardinality(upSeen.ever) \in Nat
      /\ \A c \in up : Cardinality(core_siblings(c)) \in 1 .. Cardinality(up)
  BY <1>1, MasksAreFinite
<1>4. lookup \in up => x = Cardinality(core_siblings(lookup)) /\ x <= Cardinality(up)
  BY <1>1, <1>3 DEF cpumask_parse
<1>5. x \in 0 .. UnsignedInt - 1
  <2>1. mask \in Int
    BY <1>3 DEF cpumask_parse
  <2> QED BY <1>1, <2>1
<1> HIDE DEF x, mask
<1>6. x \div nthreads \in 0 .. UnsignedInt - 1
  BY <1>1, <1>5, QuotientTimes
<1>7. ncores' \in 1 .. UnsignedInt - 1
  BY <1>1, <1>2, <1>6 DEF AtLeastOne
<1>8. TopologyTypes'
  BY <1>1, <1>2, <1>7 DEF TopologyTypes, TopologyTypeOK
<1>9. OfTheHost'
  <2> SUFFICES ASSUME plugs = 0, Uniform
               PROVE  nthreads = ThreadsOfCore /\ ncores' = CoresOfPackage
    BY <1>2, HostStays DEF OfTheHost
  <2>1. nthreads = ThreadsOfCore /\ lookup \in up
    BY <1>1, <1>2 DEF OfTheHost
  <2>2. Cardinality(core_siblings(lookup)) = Cardinality(core_siblings(0))
    BY <1>1, <2>1 DEF Uniform
  <2>3. CoresOfPackage \in Nat \ {0}
    BY <1>1, HostNumbers
  <2>4. x \div nthreads = CoresOfPackage
    BY <1>4, <2>1, <2>2 DEF CoresOfPackage
  <2> QED BY <1>2, <2>1, <2>3, <2>4 DEF AtLeastOne
<1>10. OfTheLast'
  <2> SUFFICES ASSUME Max(upSeen.ever) \in upSeen.steady
               PROVE  /\ lookup <= Max(upSeen.ever)
                      /\ lookup = Max(upSeen.ever) =>
                            ncores' * nthreads <= Cardinality(upSeen.ever)
    BY <1>2 DEF OfTheLast
  <2>1. lookup <= Max(upSeen.ever)
    BY <1>1, <1>2 DEF OfTheLast
  <2>2. ASSUME lookup = Max(upSeen.ever)
        PROVE  ncores' * nthreads <= Cardinality(upSeen.ever)
    <3>1. lookup \in up /\ nthreads <= Cardinality(upSeen.ever)
      BY <1>1, <1>2, <2>2 DEF OfTheLast
    <3>2. x <= Cardinality(upSeen.ever) /\ x \in Nat
      BY <1>3, <1>4, <1>5, <3>1
    <3>3. AtLeastOne(x \div nthreads) * nthreads <= Cardinality(upSeen.ever)
      BY <1>1, <1>3, <3>1, <3>2, ProductBound
    <3> QED BY <1>2, <3>3
  <2> QED BY <2>1, <2>2
<1> QED BY <1>8, <1>9, <1>10 DEF TopologyInv

\* The number of CPUs, and the next one.
LEMMA OnlineStep == TopologyInv /\ ReadOnline => TopologyInv'
<1> SUFFICES ASSUME TopologyInv, ReadOnline PROVE TopologyInv'
  OBVIOUS
<1>1. /\ TopologyTypes /\ OfTheHost /\ OfTheLast
      /\ nthreads \in Nat \ {0} /\ ncores \in Nat \ {0} /\ lookup \in Nat /\ 0 \in up
  BY BeforeStep
<1> DEFINE n == Cardinality(up) \div nthreads
<1>2. /\ pc = "sockets" /\ pc' = "threads" /\ lookup' = lookup + 1
      /\ nsockets' = AtLeastOne(n \div ncores)
      /\ UNCHANGED <<board, up, upSeen, plugs, nthreads, ncores, opt>>
  BY DEF ReadOnline, Goto, cpus
<1>3. /\ Cardinality(up) <= Cardinality(upSeen.ever) /\ Cardinality(up) < UnsignedInt
      /\ Cardinality(up) \in Nat \ {0} /\ Cardinality(upSeen.ever) \in Nat
      /\ UnsignedInt \in Nat
  BY <1>1, MasksAreFinite, TopologyAssumption
<1>4. /\ n \in Nat /\ n * nthreads <= Cardinality(up) /\ n <= Cardinality(up)
      /\ n \div ncores \in Nat /\ (n \div ncores) * ncores <= n /\ n \div ncores <= n
  <2>1. n \in Nat /\ n * nthreads <= Cardinality(up) /\ n <= Cardinality(up)
    BY <1>1, <1>3, QuotientTimes
  <2> HIDE DEF n
  <2> QED BY <1>1, <2>1, QuotientTimes
<1> HIDE DEF n
<1>5. nsockets' \in 1 .. UnsignedInt - 1
  BY <1>2, <1>3, <1>4 DEF AtLeastOne
<1>6. TopologyTypes'
  <2>1. lookup \in Processor /\ lookup <= Max(Processor) /\ Max(Processor) \in Nat
    BY <1>1, <1>2, LastCpu DEF TopologyTypes
  <2> QED BY <1>1, <1>2, <1>5, <2>1 DEF TopologyTypes, TopologyTypeOK
<1>7. OfTheHost'
  <2> SUFFICES ASSUME plugs = 0, Uniform
               PROVE  /\ nthreads = ThreadsOfCore /\ ncores = CoresOfPackage
                      /\ nsockets' = Cardinality(Packages)
    BY <1>2, HostStays DEF OfTheHost
  <2>1. nthreads = ThreadsOfCore /\ ncores = CoresOfPackage
    BY <1>1, <1>2 DEF OfTheHost
  <2>2. n \div ncores = Cardinality(Packages) /\ Cardinality(Packages) # 0
    BY <1>1, <2>1, HostNumbers DEF n
  <2> QED BY <1>2, <2>1, <2>2 DEF AtLeastOne
<1>8. OfTheLast'
  <2> SUFFICES ASSUME Max(upSeen.ever) \in upSeen.steady, lookup + 1 > Max(upSeen.ever)
               PROVE  nsockets' * (ncores * nthreads) <= Cardinality(upSeen.ever)
    BY <1>2 DEF OfTheLast, Shown
  <2>1. Max(upSeen.ever) \in Nat
    BY <1>1, LastCpu
  <2>2. lookup = Max(upSeen.ever) /\ ncores * nthreads <= Cardinality(upSeen.ever)
    BY <1>1, <1>2, <2>1 DEF OfTheLast
  <2>3. PICK q : q = n \div ncores /\ q \in Nat /\ q * ncores <= n
    BY <1>4
  <2>4. CASE q = 0
    <3>1. nsockets' = 1
      BY <1>2, <2>3, <2>4 DEF AtLeastOne
    <3> QED BY <1>1, <2>2, <3>1
  <2>5. CASE q # 0
    <3>1. nsockets' = q
      BY <1>2, <2>3, <2>5 DEF AtLeastOne
    <3>2. q * (ncores * nthreads) = (q * ncores) * nthreads /\ q * ncores \in Nat
      BY <1>1, <2>3
    <3>3. (q * ncores) * nthreads <= n * nthreads
      <4>1. PICK p : p = q * ncores /\ p \in Nat /\ p <= n
        BY <2>3, <3>2
      <4>2. p * nthreads <= n * nthreads
        BY <1>1, <1>4, <4>1
      <4> QED BY <4>1, <4>2
    <3>4. n * nthreads \in Nat /\ n * nthreads <= Cardinality(upSeen.ever)
      BY <1>1, <1>3, <1>4
    <3>5. PICK a : a = (q * ncores) * nthreads /\ a \in Nat
      BY <1>1, <3>2
    <3>6. a <= Cardinality(upSeen.ever)
      BY <1>3, <3>3, <3>4, <3>5
    <3> QED BY <3>1, <3>2, <3>5, <3>6
  <2> QED BY <2>4, <2>5
<1> QED BY <1>6, <1>7, <1>8 DEF TopologyInv

\* Every step keeps the invariant.
LEMMA TopologyStep ==
    TopologyInv /\ [TopologyPlugin \/ PlugCpu]_<<main, topologyVars>> => TopologyInv'
<1> SUFFICES ASSUME TopologyInv, [TopologyPlugin \/ PlugCpu]_<<main, topologyVars>>
             PROVE  TopologyInv'
  OBVIOUS
<1>1. CASE UNCHANGED <<main, topologyVars>>
  <2>1. UNCHANGED <<pc, opt, board, up, upSeen, plugs, lookup, nthreads, ncores, nsockets>>
    BY <1>1 DEF main, topologyVars, cpus
  <2>2. TopologyTypes'
    BY <2>1 DEF TopologyInv, TopologyTypes, TopologyTypeOK
  <2>3. OfTheHost' /\ OfTheLast'
    BY <2>1, HostStays DEF TopologyInv, OfTheHost, OfTheLast, Shown
  <2> QED BY <2>2, <2>3 DEF TopologyInv
<1> QED BY <1>1, PlugCpuStep, OptionsStep, ThreadsStep, CoresStep, OnlineStep DEF TopologyPlugin

\* check_cpu --cpuinfo: on a host whose cores are alike, and while no CPU goes or comes,
\* the numbers of threads, cores and sockets shown are those of the host; and if the last
\* CPU stays they never stand for more CPUs than were online.
THEOREM TopologyOfTheHost == TopologySpec => []TopologyMultiplies
<1>1. TopologyInv => TopologyMultiplies
  <2> SUFFICES ASSUME TopologyInv, pc = "exited", opt.accepted
               PROVE  /\ plugs = 0 /\ Uniform =>
                           /\ nthreads = Cardinality(thread_siblings(0))
                           /\ nsockets = Cardinality({board.package[c] : c \in up})
                           /\ nsockets * ncores = Cardinality({board.core[c] : c \in up})
                      /\ Max(upSeen.ever) \in upSeen.steady =>
                           nsockets * ncores * nthreads <= Cardinality(upSeen.ever)
    BY DEF TopologyMultiplies
  <2>1. ASSUME plugs = 0, Uniform
        PROVE  /\ nthreads = Cardinality(thread_siblings(0))
               /\ nsockets = Cardinality({board.package[c] : c \in up})
               /\ nsockets * ncores = Cardinality({board.core[c] : c \in up})
    <3>1. /\ nthreads = ThreadsOfCore /\ ncores = CoresOfPackage
          /\ nsockets = Cardinality(Packages)
      BY <2>1 DEF TopologyInv, OfTheHost
    <3>2. Cardinality(Packages) * CoresOfPackage = Cardinality({board.core[c] : c \in up})
      BY <2>1, HostNumbers DEF TopologyInv
    <3> QED BY <3>1, <3>2 DEF ThreadsOfCore, Packages
  <2>2. nsockets * ncores * nthreads = Shown
    BY BeforeStep DEF Shown
  <2>3. Max(upSeen.ever) \in upSeen.steady => Shown <= Cardinality(upSeen.ever)
    BY DEF TopologyInv, OfTheLast
  <2> QED BY <2>1, <2>2, <2>3
<1> QED BY <1>1, TopologyInitInv, TopologyStep, PTL DEF TopologySpec

-----------------------------------------------------------------------------
(***************************************************************************)
(* UNKNOWN for a reason: an option that is not acceptable, something that  *)
(* cannot be read, or SELinux going away between two looks at it.          *)
(***************************************************************************)

\* A judgement is never UNKNOWN.
LEMMA JudgementKnows ==
    /\ \A value, t : get_status(value, t) # STATE_UNKNOWN
    /\ \A condition : CriticalIf(condition) # STATE_UNKNOWN
    /\ STATE_UNKNOWN \notin {RUNNING, STATE_OK, STATE_WARNING, STATE_CRITICAL}
BY DEF get_status, CriticalIf, STATE_OK, STATE_WARNING, STATE_CRITICAL, STATE_UNKNOWN, RUNNING

\* The exit status of check_ifmountfs, check_readonlyfs and check_selinux.
MountsUnknown == pc = "exited" /\ exit = STATE_UNKNOWN => MountsReason

\* Only what check_readonlyfs is asked about is opened.
MountsReasonInv == (pc = "open" => Opens) /\ MountsUnknown

\* The end: the table and the ghosts stay what they were.
LEMMA MountsEnd ==
    ASSUME NEW s, Exit(s), UNCHANGED mountsVars, s = STATE_UNKNOWN => MountsReason
    PROVE  MountsReasonInv'
<1>1. pc' = "exited" /\ exit' = s /\ opt' = opt
  BY DEF Exit
<1>2. UNCHANGED <<mountHost, mountSeen>>
  BY DEF mountsVars, host
<1>3. MountsBadOptions' = MountsBadOptions /\ Opens' = Opens
  BY <1>1 DEF MountsBadOptions, Opens, Runs
<1>4. MountsReason' = MountsReason
  BY <1>1, <1>2, <1>3 DEF MountsReason, Runs
<1> QED BY <1>1, <1>4 DEF MountsReasonInv, MountsUnknown

\* The arguments are a sequence.
LEMMA ArgumentsAre ==
    ASSUME opt \in MountsOptions
    PROVE  Len(opt.argv) \in Nat /\ DOMAIN opt.argv = 1 .. Len(opt.argv)
<1>1. opt.argv \in Seq(Dir)
  BY MountsAssumption DEF MountsCommandLine
<1> QED BY <1>1

\* Every step of the plugins keeps it.
LEMMA MountsReasonStep ==
    ASSUME MountsInv, MountsReasonInv, MountsPlugin
    PROVE  MountsReasonInv'
<1>0. Opens' = Opens
  <2>1. opt' = opt
    BY DEF MountsPlugin, MountsParseOptions, OpenArgument, AllOpened, OpenMtab, ReadMount,
           JudgeMounts, FindSelinux, FindEnforce, ReadEnforce, GiveUp, Exit, Goto, main
  <2> QED BY <2>1 DEF Opens, Runs
<1>1. CASE MountsParseOptions
  <2>1. CASE MountsBadOptions
    BY <1>1, <2>1, MountsEnd DEF MountsParseOptions, GiveUp, MountsReason
  <2>2. CASE ~MountsBadOptions
    BY <1>0, <1>1, <2>2 DEF MountsParseOptions, Goto, MountsReasonInv, MountsUnknown
  <2> QED BY <2>1, <2>2
<1>2. CASE OpenArgument
  <2>1. pc = "open" /\ optind <= Len(opt.argv) /\ Opens
    BY <1>2 DEF OpenArgument, MountsReasonInv
  <2>2. CASE opt.argv[optind] \notin mountHost.openable
    <3>1. Exit(STATE_UNKNOWN) /\ UNCHANGED mountsVars
      BY <1>2, <2>2 DEF OpenArgument, GiveUp, mountsVars, found, host
    <3>2. opt.argv[optind] \in Range(opt.argv)
      <4>1. optind \in 1 .. Len(opt.argv)
        BY <2>1, ArgumentsAre DEF MountsInv, MountsTypeOK
      <4> QED BY <4>1, ArgumentsAre DEF MountsInv, Range
    <3>3. MountsReason
      BY <2>1, <2>2, <3>2 DEF MountsReason
    <3> QED BY <3>1, <3>3, MountsEnd
  <2>3. CASE opt.argv[optind] \in mountHost.openable
    <3>1. UNCHANGED main
      BY <1>2, <2>3 DEF OpenArgument
    <3> QED BY <1>0, <2>1, <3>1 DEF main, MountsReasonInv, MountsUnknown
  <2> QED BY <2>2, <2>3
<1>3. CASE AllOpened \/ ReadMount
  <2>1. pc' \in {"mtab", "entries"}
    BY <1>3 DEF AllOpened, ReadMount, Goto, main
  <2> QED BY <2>1 DEF MountsReasonInv, MountsUnknown
<1>4. CASE OpenMtab
  <2>1. CASE mountHost.table
    BY <1>4, <2>1 DEF OpenMtab, Goto, MountsReasonInv, MountsUnknown
  <2>2. CASE ~mountHost.table /\ Runs({"selinux"})
    BY <1>4, <2>2, MountsEnd, JudgementKnows DEF OpenMtab
  <2>3. CASE ~mountHost.table /\ ~Runs({"selinux"})
    BY <1>4, <2>3, MountsEnd DEF OpenMtab, GiveUp, MountsReason
  <2> QED BY <2>1, <2>2, <2>3
<1>5. CASE JudgeMounts
  <2>1. Unread = {} /\ UNCHANGED mountsVars
    BY <1>5 DEF JudgeMounts
  <2>2. CASE mount_list = <<>>
    <3>1. Exit(STATE_UNKNOWN)
      BY <1>5, <2>2 DEF JudgeMounts, GiveUp
    <3>2. DOMAIN mtab = {}
      <4>1. DOMAIN mount_list = {}
        BY <2>2
      <4>2. Unread = DOMAIN mtab
        BY <4>1 DEF Unread
      <4> QED BY <2>1, <4>2
    <3>3. mountSeen.steady = {}
      BY <3>2 DEF MountsInv, Enclosed, Range
    <3> QED BY <2>1, <3>1, <3>3, MountsEnd DEF MountsReason
  <2>3. CASE Runs({"ifmountfs"}) /\ opt.list
    <3>1. Exit(STATE_UNKNOWN)
      BY <1>5, <2>3 DEF JudgeMounts, GiveUp
    <3> QED BY <2>1, <2>3, <3>1, MountsEnd DEF MountsReason
  <2>4. CASE ~(mount_list = <<>> \/ (Runs({"ifmountfs"}) /\ opt.list))
    <3>1. PICK condition :
             condition = (IF Runs({"ifmountfs"}) THEN Unmounted
                          ELSE IF opt.exclude_mode \/ opt.argv = <<>> THEN AnyReadonly
                          ELSE \E dir \in Range(opt.argv) : ReadonlyAt(dir))
      OBVIOUS
    <3>2. Exit(CriticalIf(condition))
      BY Zenon, <1>5, <2>4, <3>1 DEF JudgeMounts
    <3> QED BY <2>1, <3>2, MountsEnd, JudgementKnows
  <2> QED BY <2>2, <2>3, <2>4
<1>6. CASE FindSelinux
  <2>1. CASE Exit(STATE_CRITICAL) /\ UNCHANGED selinux_mnt
    BY <1>6, <2>1, MountsEnd, JudgementKnows DEF FindSelinux, mountsVars, found
  <2>2. CASE Goto("enforce")
    BY <2>2 DEF Goto, MountsReasonInv, MountsUnknown
  <2> QED BY <1>6, <2>1, <2>2 DEF FindSelinux
<1>7. CASE FindEnforce
  <2>1. CASE Goto("value")
    BY <2>1 DEF Goto, MountsReasonInv, MountsUnknown
  <2> QED BY <1>7, <2>1, MountsEnd, JudgementKnows DEF FindEnforce
<1>8. CASE ReadEnforce
  <2>1. UNCHANGED mountsVars /\ pc = "value"
    BY <1>8 DEF ReadEnforce
  <2>2. CASE selinux_mnt \notin Range(mtab)
    <3>1. Exit(STATE_UNKNOWN)
      BY <1>8, <2>2 DEF ReadEnforce, GiveUp
    <3>2. /\ selinux_mnt \in mountSeen.ever \ mountSeen.steady /\ Runs({"selinux"})
          /\ MountOf[selinux_mnt].type = "selinuxfs"
      BY <2>1, <2>2 DEF MountsInv, Phase, Enclosed, Runs
    <3> QED BY <2>1, <3>1, <3>2, MountsEnd DEF MountsReason
  <2>3. CASE selinux_mnt \in Range(mtab)
    <3>1. \E s \in {STATE_OK, STATE_CRITICAL, STATE_WARNING} : Exit(s)
      BY <1>8, <2>3 DEF ReadEnforce
    <3> QED BY <2>1, <3>1, MountsEnd, JudgementKnows
  <2> QED BY <2>2, <2>3
<1> QED BY <1>1, <1>2, <1>3, <1>4, <1>5, <1>6, <1>7, <1>8 DEF MountsPlugin

\* check_ifmountfs, check_readonlyfs and check_selinux say UNKNOWN only for an option, a name
\* that cannot be opened, a table that is missing or in which nothing stays, or SELinux going
\* away between two looks at it, whatever is mounted and unmounted meanwhile.
THEOREM MountsGiveUpForAReason == MountsSpec => []MountsUnknown
<1>1. opt \in MountsOptions /\ PluginInit /\ MountsInit => MountsReasonInv
  BY DEF PluginInit, MountsReasonInv, MountsUnknown
<1>2. MountsInv /\ MountsReasonInv /\ [MountsPlugin \/ MountsChange]_<<main, mountsVars>>
         => MountsReasonInv'
  <2>1. ASSUME MountsReasonInv, MountsChange PROVE MountsReasonInv'
    <3>1. pc # "exited" /\ UNCHANGED <<pc, opt, exit>>
      BY <2>1 DEF MountsChange, main
    <3> QED BY <2>1, <3>1 DEF MountsReasonInv, MountsUnknown, Opens, Runs
  <2>2. ASSUME MountsReasonInv, UNCHANGED <<main, mountsVars>> PROVE MountsReasonInv'
    <3>1. UNCHANGED <<pc, opt, exit, mountHost, mountSeen>>
      BY <2>2 DEF main, mountsVars, host
    <3>2. MountsBadOptions' = MountsBadOptions /\ Opens' = Opens
      BY <3>1 DEF MountsBadOptions, Opens, Runs
    <3>3. MountsReason' = MountsReason
      BY <3>1, <3>2 DEF MountsReason, Runs
    <3> QED BY <2>2, <3>1, <3>2, <3>3 DEF MountsReasonInv, MountsUnknown
  <2> QED BY <2>1, <2>2, MountsReasonStep
<1>3. MountsReasonInv => MountsUnknown
  BY DEF MountsReasonInv
<1> QED BY <1>1, <1>2, <1>3, MountsInductive, PTL DEF MountsSpec

-----------------------------------------------------------------------------
\* The exit status of check_nbprocs and check_users.
ProcessesUnknown == pc = "exited" => (exit = STATE_UNKNOWN <=> ProcessesReason)

\* Which of the reasons has been ruled out at each place.
ProcessesReasonInv ==
    /\ pc \in {"proc", "utmp", "verdict"} => ~ProcessesBadOptions
    /\ pc = "verdict" => ~ProcessesReason
    /\ ProcessesUnknown

\* The reasons are of the command line and the host, neither of which changes.
LEMMA ProcessesReasonStays ==
    ASSUME UNCHANGED <<opt, procHost>>
    PROVE  ProcessesReason' = ProcessesReason /\ ProcessesBadOptions' = ProcessesBadOptions
BY DEF ProcessesReason, ProcessesBadOptions, Runs

\* Each step of the plugin keeps it.
LEMMA ProcessesReasonStep ==
    ASSUME ProcInv, ProcessesReasonInv, ProcessesPlugin
    PROVE  ProcessesReasonInv'
<1>0. UNCHANGED <<opt, procHost>>
  BY DEF ProcessesPlugin, ProcessesParseOptions, Readdir, ReadStatus, PassOver, Ended, JudgeProcesses,
         GiveUp, Exit, Goto, main, processesVars, procWorld, count_users
<1>1. /\ ProcessesReason' = ProcessesReason /\ ProcessesBadOptions' = ProcessesBadOptions
  BY <1>0, ProcessesReasonStays
<1>2. procHost \in [proc : {"yes", "no", "broken"}, systemd : {"yes", "no", "fails"}]
  BY ProcessesAssumption DEF ProcInv, ProcTypes, ProcessesTypeOK
<1>3. CASE ProcessesParseOptions
  <2>1. CASE ProcessesBadOptions \/ (Runs({"nbprocs"}) /\ procHost.proc = "no")
    <3>1. pc' = "exited" /\ exit' = STATE_UNKNOWN
      BY <1>3, <2>1 DEF ProcessesParseOptions, GiveUp, Exit
    <3>2. ProcessesReason
      BY <2>1 DEF ProcessesReason
    <3> QED BY <1>1, <3>1, <3>2 DEF ProcessesReasonInv, ProcessesUnknown
  <2>2. CASE ~(ProcessesBadOptions \/ (Runs({"nbprocs"}) /\ procHost.proc = "no"))
    <3>1. pc' \in {"proc", "utmp"}
      BY <1>3, <2>2 DEF ProcessesParseOptions, Goto
    <3> QED BY <1>1, <2>2, <3>1 DEF ProcessesReasonInv, ProcessesUnknown
  <2> QED BY <2>1, <2>2
<1>4. CASE Readdir
  <2>1. pc = "proc" /\ Runs({"nbprocs"}) /\ ~ProcessesBadOptions
    BY <1>4 DEF Readdir, ProcInv, ProcTypes, ProcessesReasonInv
  <2>2. CASE procHost.proc = "broken" /\ GiveUp
    <3>1. pc' = "exited" /\ exit' = STATE_UNKNOWN /\ ProcessesReason
      BY <2>1, <2>2 DEF GiveUp, Exit, ProcessesReason
    <3> QED BY <1>1, <3>1 DEF ProcessesReasonInv, ProcessesUnknown
  <2>3. CASE procHost.proc = "yes" /\ Goto("verdict")
    <3>1. ~ProcessesReason
      BY <2>1, <2>3 DEF ProcessesReason, Runs
    <3> QED BY <1>1, <2>1, <2>3, <3>1 DEF Goto, ProcessesReasonInv, ProcessesUnknown
  <2>4. CASE UNCHANGED main
    BY <1>1, <2>1, <2>4 DEF main, ProcessesReasonInv, ProcessesUnknown
  <2> QED BY <1>4, <2>2, <2>3, <2>4 DEF Readdir
<1>5. CASE ReadStatus \/ PassOver
  <2>1. UNCHANGED main /\ pc = "proc"
    BY <1>5 DEF ReadStatus, PassOver, Ended
  <2> QED BY <1>1, <2>1 DEF main, ProcessesReasonInv, ProcessesUnknown
<1>6. CASE count_users
  <2>1. pc = "utmp" /\ Runs({"users"}) /\ ~ProcessesBadOptions
    BY <1>6 DEF count_users, ProcInv, ProcTypes, ProcessesReasonInv
  <2>2. CASE procHost.systemd = "fails"
    <3>1. GiveUp
      BY Zenon, <1>6, <2>2 DEF count_users
    <3>2. pc' = "exited" /\ exit' = STATE_UNKNOWN /\ ProcessesReason
      BY <2>1, <2>2, <3>1 DEF GiveUp, Exit, ProcessesReason
    <3> QED BY <1>1, <3>2 DEF ProcessesReasonInv, ProcessesUnknown
  <2>3. CASE procHost.systemd # "fails"
    <3>1. Goto("verdict") \/ UNCHANGED main
      BY <1>6, <2>3 DEF count_users
    <3>2. ~ProcessesReason
      BY <2>1, <2>3 DEF ProcessesReason, Runs
    <3> QED BY <1>1, <2>1, <3>1, <3>2 DEF Goto, main, ProcessesReasonInv, ProcessesUnknown
  <2> QED BY <2>2, <2>3
<1>7. CASE JudgeProcesses
  <2>1. pc = "verdict" /\ pc' = "exited" /\ exit' = get_status(number, opt.my_threshold)
    BY <1>7 DEF JudgeProcesses, Exit
  <2>2. exit' # STATE_UNKNOWN
    BY <2>1, JudgementKnows
  <2> QED BY <1>1, <2>1, <2>2 DEF ProcessesReasonInv, ProcessesUnknown
<1> QED BY <1>3, <1>4, <1>5, <1>6, <1>7 DEF ProcessesPlugin

\* check_nbprocs and check_users say UNKNOWN exactly if an option is not acceptable, or /proc
\* or systemd cannot be asked, however processes and sessions come and go.
THEOREM ProcessesGiveUpForAReason == ProcessesSpec => []ProcessesUnknown
<1>1. opt \in ProcessesOptions /\ PluginInit /\ ProcessesInit => ProcessesReasonInv
  BY DEF PluginInit, ProcessesReasonInv, ProcessesUnknown
<1>2. ProcInv /\ ProcessesReasonInv
        /\ [ProcessesPlugin \/ ProcessesChange]_<<main, processesVars>> => ProcessesReasonInv'
  <2>1. ASSUME ProcessesReasonInv, ProcessesChange \/ UNCHANGED <<main, processesVars>>
        PROVE  ProcessesReasonInv'
    <3>1. UNCHANGED <<pc, opt, exit, procHost>>
      BY <2>1 DEF ProcessesChange, main, processesVars, procWorld
    <3> QED BY <2>1, <3>1, ProcessesReasonStays DEF ProcessesReasonInv, ProcessesUnknown
  <2> QED BY <2>1, ProcessesReasonStep
<1>3. ProcessesReasonInv => ProcessesUnknown
  BY DEF ProcessesReasonInv
<1> QED BY <1>1, <1>2, <1>3, ProcInvariant, PTL DEF ProcessesSpec

-----------------------------------------------------------------------------
\* The exit status of check_tcpcount.
TcpUnknown == pc = "exited" => (exit = STATE_UNKNOWN <=> TcpReason)

\* A table is still to be opened, or it is there.
TcpReasonInv ==
    /\ pc \in {"tables", "lines"} =>
          opt.ranges_ok /\ \A f \in tcp_flags : f \in Range(tofiles) \/ tcp[f] # NULL
    /\ TcpUnknown

\* Whether a table is there does not change.
LEMMA TcpReasonStays ==
    ASSUME opt' = opt, \A f \in tcp_flags : tcp'[f] = NULL <=> tcp[f] = NULL
    PROVE  (TcpReason' <=> TcpReason) /\ tcp_flags' = tcp_flags
<1>1. tcp_flags' = tcp_flags
  BY DEF tcp_flags
<1> QED BY <1>1 DEF TcpReason

\* The three choices of tables.
LEMMA FlagsDiffer == Files # {"tcp6"} /\ Files # {"tcp"} /\ {"tcp"} # {"tcp6"}
<1>1. "tcp" # "tcp6"
  OBVIOUS
<1> QED BY <1>1 DEF Files

\* A table does not go away.
LEMMA TablesStay ==
    ASSUME TcpInv, TcpChange
    PROVE  \A f \in tcp_flags : tcp'[f] = NULL <=> tcp[f] = NULL
<1>1. PICK f \in Files, p \in Place, s \in TcpMoves :
         tcp[f] # NULL /\ tcp[f][p] # Bogus /\ tcp' = [tcp EXCEPT ![f][p] = s]
  BY DEF TcpChange
<1>2. tcp \in [Files -> Table \cup {NULL}] /\ tcp[f] \in Table /\ s \in States \cup {Vacant}
  BY <1>1, TcpAssumption DEF TcpInv, TcpTypes, TcpTypeOK
<1> DEFINE new == [tcp[f] EXCEPT ![p] = s]
<1>3. new \in Table /\ new # NULL
  BY <1>2, TcpAssumption DEF Table
<1>4. tcp' = [tcp EXCEPT ![f] = new]
  BY <1>1
<1> HIDE DEF new
<1>5. \A g \in Files : tcp'[g] = NULL <=> tcp[g] = NULL
  BY <1>1, <1>2, <1>3, <1>4
<1> QED BY <1>5, TcpFlags DEF TcpInv, TcpTypes

\* The invariant of the count holds throughout.
LEMMA TcpInvariant == TcpSpec => []TcpInv
<1>1. TcpInv /\ [TcpPlugin \/ TcpChange]_<<main, tcpVars>> => TcpInv'
  BY TcpStep
<1> QED BY <1>1, TcpInitInv, PTL DEF TcpSpec

\* Every step of the plugin keeps it.
LEMMA TcpReasonStep ==
    ASSUME TcpInv, TcpReasonInv, TcpPlugin
    PROVE  TcpReasonInv'
<1>0. UNCHANGED <<opt, tcp>>
  BY DEF TcpPlugin, TcpParseOptions, OpenTable, procparser_tcp, EndOfTable, JudgeTcp, GiveUp,
         Exit, Goto, main, sockets, tcpVars
<1>1. (TcpReason' <=> TcpReason) /\ tcp_flags' = tcp_flags /\ tofiles \in Lists
      /\ tcp_flags \subseteq Files
  BY <1>0, TcpReasonStays, TcpFlags DEF TcpInv, TcpTypes
<1>2. CASE TcpParseOptions
  <2>1. CASE opt.ranges_ok
    <3>1. pc' = "tables"
      BY <1>2, <2>1 DEF TcpParseOptions, Goto
    <3>2. tcp_flags \in {Files, {"tcp"}, {"tcp6"}}
      BY <1>1 DEF tcp_flags, Files
    <3>3. tcp_flags \subseteq Range(tofiles')
      <4>1. CASE tcp_flags = Files
        <5>1. tofiles' = <<"tcp", "tcp6">>
          BY <1>2, <4>1, Zenon, FlagsDiffer DEF TcpParseOptions
        <5> QED BY <4>1, <5>1 DEF Files, Range
      <4>2. CASE tcp_flags = {"tcp6"}
        <5>1. tofiles' = <<"tcp6">>
          BY <1>2, <4>2, Zenon, FlagsDiffer DEF TcpParseOptions
        <5> QED BY <4>2, <5>1 DEF Range
      <4>3. CASE tcp_flags = {"tcp"}
        <5>1. tofiles' = <<"tcp">>
          BY <1>2, <4>3, Zenon, FlagsDiffer DEF TcpParseOptions
        <5> QED BY <4>3, <5>1 DEF Range
      <4> QED BY <3>2, <4>1, <4>2, <4>3
    <3> QED BY <1>0, <1>1, <2>1, <3>1, <3>3 DEF TcpReasonInv, TcpUnknown
  <2>2. CASE ~opt.ranges_ok
    <3>1. pc' = "exited" /\ exit' = STATE_UNKNOWN /\ TcpReason
      BY <1>2, <2>2 DEF TcpParseOptions, GiveUp, Exit, TcpReason
    <3> QED BY <1>1, <3>1 DEF TcpReasonInv, TcpUnknown
  <2> QED BY <2>1, <2>2
<1>3. CASE OpenTable
  <2>1. pc = "tables" /\ tofiles # <<>> /\ tofiles' = tofiles
    BY <1>3 DEF OpenTable
  <2>2. CASE tcp[Head(tofiles)] = NULL
    <3>1. pc' = "exited" /\ exit' = STATE_UNKNOWN
      BY <1>3, <2>2 DEF OpenTable, GiveUp, Exit
    <3>2. Head(tofiles) \in tcp_flags
      BY <1>1, <2>1, TheLists DEF TcpInv, TcpTypes
    <3>3. TcpReason
      BY <2>2, <3>2 DEF TcpReason
    <3> QED BY <1>1, <3>1, <3>3 DEF TcpReasonInv, TcpUnknown
  <2>3. CASE tcp[Head(tofiles)] # NULL
    <3>1. pc' = "lines"
      BY <1>3, <2>3 DEF OpenTable, Goto
    <3> QED BY <1>0, <1>1, <2>1, <3>1 DEF TcpReasonInv, TcpUnknown
  <2> QED BY <2>2, <2>3
<1>4. CASE procparser_tcp
  <2>1. UNCHANGED <<pc, opt, exit, tofiles, tcp>> /\ pc = "lines"
    BY <1>4 DEF procparser_tcp, main, sockets
  <2> QED BY <1>1, <2>1 DEF TcpReasonInv, TcpUnknown
<1>5. CASE EndOfTable
  <2>1. pc = "lines" /\ pc' = "tables" /\ tofiles' = Tail(tofiles)
    BY <1>5 DEF EndOfTable, Goto
  <2>2. tcp[Head(tofiles)] # NULL /\ Range(tofiles) = Range(Tail(tofiles)) \cup {Head(tofiles)}
    BY <1>1, <2>1, TheLists DEF TcpInv, TcpTypes
  <2> QED BY <1>0, <1>1, <2>1, <2>2 DEF TcpReasonInv, TcpUnknown
<1>6. CASE JudgeTcp
  <2>1. /\ pc = "tables" /\ tofiles = <<>> /\ pc' = "exited"
        /\ exit' = get_status(data[TCP_ESTABLISHED], opt.my_threshold)
    BY <1>6 DEF JudgeTcp, Exit
  <2>2. exit' # STATE_UNKNOWN
    BY <2>1, JudgementKnows
  <2>3. ~TcpReason
    BY <1>1, <2>1, TheLists DEF TcpReason, TcpReasonInv
  <2> QED BY <1>1, <2>1, <2>2, <2>3 DEF TcpReasonInv, TcpUnknown
<1> QED BY <1>2, <1>3, <1>4, <1>5, <1>6 DEF TcpPlugin

\* check_tcpcount says UNKNOWN exactly if a threshold is not acceptable or one of the tables it
\* is asked for is missing, even if the other has been read, whatever connections do.
THEOREM TcpGivesUpForAReason == TcpSpec => []TcpUnknown
<1>1. opt \in TcpOptions /\ PluginInit /\ TcpInit => TcpReasonInv
  BY DEF PluginInit, TcpReasonInv, TcpUnknown
<1>2. TcpInv /\ TcpReasonInv /\ [TcpPlugin \/ TcpChange]_<<main, tcpVars>> => TcpReasonInv'
  <2>1. ASSUME TcpInv, TcpReasonInv, TcpChange PROVE TcpReasonInv'
    <3>1. UNCHANGED <<pc, opt, exit, tofiles>>
      BY <2>1 DEF TcpChange, main, reading
    <3>2. \A f \in tcp_flags : tcp'[f] = NULL <=> tcp[f] = NULL
      BY <2>1, TablesStay
    <3> QED BY <2>1, <3>1, <3>2, TcpReasonStays DEF TcpReasonInv, TcpUnknown
  <2>2. ASSUME TcpReasonInv, UNCHANGED <<main, tcpVars>> PROVE TcpReasonInv'
    <3>1. UNCHANGED <<pc, opt, exit, tofiles, tcp>>
      BY <2>2 DEF main, tcpVars, reading, sockets
    <3> QED BY <2>2, <3>1, TcpReasonStays DEF TcpReasonInv, TcpUnknown
  <2> QED BY <2>1, <2>2, TcpReasonStep
<1>3. TcpReasonInv => TcpUnknown
  BY DEF TcpReasonInv
<1> QED BY <1>1, <1>2, <1>3, TcpInvariant, PTL DEF TcpSpec
=============================================================================
