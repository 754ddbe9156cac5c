------------------------------ MODULE Processes ------------------------------
(***************************************************************************)
(* check_nbprocs (over lib/processes.c), which walks /proc and counts      *)
(* processes or threads by user, and check_users, which reads the login    *)
(* records: both while processes and sessions come and go.                 *)
(*                                                                         *)
(* The kernel returns the entries of /proc in the order of the process     *)
(* numbers, as many at a time as fit into the buffer of readdir().  The    *)
(* text of a status file is made when it is read first, so it is of one    *)
(* moment; a login record is read under a lock.                            *)
(***************************************************************************)
EXTENDS Plugin, Sequences, FiniteSets, FiniteSetsExt, Functions

CONSTANTS
    PID, Uid,           \* the process numbers and the users there may be
    Slot,               \* the places of the login records, 1 .. n
    MaxThreads,         \* bound: the threads of a process
    ProcHosts,          \* the choices for procHost,
    ProcsAtStart,       \* for procs
    UtmpAtStart,        \* and for utmp
    MaxProcEvents,      \* bound: processes and sessions that change
    ProcessesOptions    \* the command lines

Process == [uid : Uid, threads : 1 .. MaxThreads]
Record == Uid \cup {"dead", "unnamed"}

\* threads: how the option is given.
ProcessesCommandLine ==
    [program : {"nbprocs", "users"}, threads : {"no", "-t", "--threads"},
     ranges_ok : BOOLEAN, my_threshold : Limits]

ASSUME ProcessesAssumption ==
    /\ PID \subseteq Nat /\ 0 \notin PID /\ Slot \subseteq Nat /\ 0 \notin Slot
    /\ IsFiniteSet(PID) /\ IsFiniteSet(Slot) /\ IsFiniteSet(Uid)
    /\ MaxThreads \in Nat \ {0} /\ MaxProcEvents \in Nat
    /\ ProcHosts \subseteq [proc : {"yes", "no", "broken"}, systemd : {"yes", "no", "fails"}]
    /\ ProcsAtStart \subseteq [PID -> Process \cup {NULL}]
    /\ UtmpAtStart \subseteq [Slot -> Record]
    /\ {} \notin {ProcHosts, ProcsAtStart, UtmpAtStart}
    /\ ProcessesOptions \subseteq ProcessesCommandLine

VARIABLES
    entries, cursor,    \* what readdir() has buffered, and up to where
    plist,              \* struct procs_list_node: the head, then one node a user
    numuser,            \* check_users: the count
    procs, utmp,        \* the processes, the login records
    procHost,           \* whether /proc is readable, who keeps the sessions
    procSeen,           \* ghost: those counted, all the time and at some time
    procEvents

walked == <<entries, cursor, plist, numuser>>
procWorld == <<procs, utmp, procHost, procSeen, procEvents>>
processesVars == <<walked, procWorld>>

ProcessesPrograms == {"nbprocs", "users"}

\* A thread of a process is <<process, user, number>>, a session <<slot, user, 1>>;
\* without --threads a process is its first thread.
Counted(ps, records) ==
    IF Runs({"users"}) THEN {<<s, records[s], 1>> : s \in {r \in Slot : records[r] \in Uid}}
    ELSE UNION {{<<p, ps[p].uid, k>> :
                    k \in 1 .. IF opt.threads = "no" THEN 1 ELSE ps[p].threads} :
                 p \in {q \in PID : ps[q] # NULL}}

ProcessesInit ==
    /\ entries = {} /\ cursor = 0 /\ plist = <<[uid |-> NULL, nbr |-> 0]>> /\ numuser = 0
    /\ procs \in Either({"nbprocs"}, ProcsAtStart) /\ utmp \in Either({"users"}, UtmpAtStart)
    /\ procHost \in Either(ProcessesPrograms, ProcHosts)
    /\ procSeen = IF Runs(ProcessesPrograms) THEN Since(Counted(procs, utmp)) ELSE Since({})
    /\ procEvents = 0

\* A process begins, ends, changes its user or its threads; somebody logs in or out.
ProcessesChange ==
    /\ pc \in {"proc", "utmp"} /\ procEvents < MaxProcEvents /\ procEvents' = procEvents + 1
    /\ \/ /\ Runs({"nbprocs"}) /\ UNCHANGED utmp
          /\ \E p \in PID, new \in Process \cup {NULL} : procs' = [procs EXCEPT ![p] = new]
       \/ /\ Runs({"users"}) /\ UNCHANGED procs
          /\ \E s \in Slot, new \in Record : utmp' = [utmp EXCEPT ![s] = new]
    /\ procSeen' = Meeting(procSeen, Counted(procs', utmp'))
    /\ UNCHANGED <<main, walked, procHost>>

-----------------------------------------------------------------------------
\* The option string of check_nbprocs has no t.
ProcessesBadOptions == opt.threads = "-t" \/ ~opt.ranges_ok

ProcessesParseOptions ==
    /\ pc = "options" /\ Runs(ProcessesPrograms) /\ UNCHANGED processesVars
    /\ IF ProcessesBadOptions \/ (Runs({"nbprocs"}) /\ procHost.proc = "no") THEN GiveUp
       ELSE Goto(IF Runs({"nbprocs"}) THEN "proc" ELSE "utmp")

\* readdir(): the next entries, or the end, or an error.
Readdir ==
    /\ pc = "proc" /\ entries = {} /\ UNCHANGED <<plist, numuser, procWorld>>
    /\ LET left == {p \in PID : procs[p] # NULL /\ p > cursor}
       IN \/ procHost.proc = "broken" /\ GiveUp /\ UNCHANGED <<entries, cursor>>
          \/ /\ procHost.proc = "yes" /\ left = {}
             /\ Goto("verdict") /\ UNCHANGED <<entries, cursor>>
          \/ /\ procHost.proc = "yes" /\ UNCHANGED main
             /\ \E q \in left : cursor' = q /\ entries' = {p \in left : p <= q}

\* The node of a user in the list: the head, which is no user's, is passed over.
NodeOf(uid, list) == {k \in 2 .. Len(list) : list[k].uid = uid}

\* A mutant: a user met again gets one process more, whatever is counted.
procs_list_node_addOne(uid, inc, list) ==
    LET counted == [list EXCEPT ![1].nbr = @ + inc]
    IN IF NodeOf(uid, list) = {} THEN Append(counted, [uid |-> uid, nbr |-> inc])
       ELSE [counted EXCEPT ![Min(NodeOf(uid, list))].nbr = @ + 1]

\* procs_list_node_add: the node of the user, or a new one at the end; the head has
\* the total.
procs_list_node_add(uid, inc, list) ==
    LET counted == [list EXCEPT ![1].nbr = @ + inc]
    IN IF NodeOf(uid, list) = {} THEN Append(counted, [uid |-> uid, nbr |-> inc])
       ELSE [counted EXCEPT ![Min(NodeOf(uid, list))].nbr = @ + inc]

Noted(p) ==
    procs_list_node_add(procs[p].uid, IF opt.threads = "no" THEN 1 ELSE procs[p].threads, plist)

\* The status of the next process is read, if it has not ended since.
ReadStatus ==
    /\ pc = "proc" /\ entries # {} /\ procs[Min(entries)] # NULL
    /\ entries' = entries \ {Min(entries)} /\ plist' = Noted(Min(entries))
    /\ UNCHANGED <<main, cursor, numuser, procWorld>>

Ended == pc = "proc" /\ entries # {} /\ procs[Min(entries)] = NULL

\* A mutant: an ended process is tried again.
PassOverRetry == Ended /\ UNCHANGED <<main, processesVars>>

\* "Ignore errors: fopen() might fail if process has just terminated".
PassOver ==
    /\ Ended /\ entries' = entries \ {Min(entries)}
    /\ UNCHANGED <<main, cursor, plist, numuser, procWorld>>

\* A mutant: a session without a name counts.
LoggedInUnnamed(record) == record # "dead"

\* Of type USER_PROCESS, with a name.
LoggedIn(record) == record \in Uid

\* count_users: systemd has the number at once, or the error is negative; else the
\* login records are read one by one.
count_users ==
    /\ pc = "utmp" /\ UNCHANGED <<entries, plist, procWorld>>
    /\ LET left == {s \in Slot : s > cursor}
           s == Min(left)
       IN CASE procHost.systemd = "fails" -> GiveUp /\ UNCHANGED <<cursor, numuser>>
            [] procHost.systemd = "yes" ->
                 /\ numuser' = Cardinality(Counted(procs, utmp))
                 /\ Goto("verdict") /\ UNCHANGED cursor
            [] procHost.systemd = "no" /\ left = {} ->
                 Goto("verdict") /\ UNCHANGED <<cursor, numuser>>
            [] OTHER -> /\ cursor' = s /\ UNCHANGED main
                        /\ numuser' = numuser + IF LoggedIn(utmp[s]) THEN 1 ELSE 0

\* What is judged.
number == IF Runs({"nbprocs"}) THEN plist[1].nbr ELSE numuser

JudgeProcesses ==
    /\ pc = "verdict" /\ Runs(ProcessesPrograms)
    /\ Exit(get_status(number, opt.my_threshold)) /\ UNCHANGED processesVars

ProcessesPlugin == ProcessesParseOptions \/ Readdir \/ ReadStatus \/ PassOver \/ count_users \/ JudgeProcesses

ProcessesSpec == /\ opt \in ProcessesOptions /\ PluginInit /\ ProcessesInit
                 /\ [][ProcessesPlugin \/ ProcessesChange]_<<main, processesVars>>

-----------------------------------------------------------------------------
ProcessesTypeOK ==
    /\ entries \subseteq PID /\ cursor \in PID \cup Slot \cup {0}
    /\ plist \in Seq([uid : Uid \cup {NULL}, nbr : Nat]) /\ numuser \in Nat
    /\ procs \in [PID -> Process \cup {NULL}] /\ utmp \in [Slot -> Record]
    /\ procHost \in ProcHosts /\ procEvents \in 0 .. MaxProcEvents

\* With processes and sessions that come and go, the number judged counts all that
\* were there from start to end, and only what was there at some time: the plugins
\* implement Census.
CountedNow == IF Runs(ProcessesPrograms) THEN Counted(procs, utmp) ELSE {}
Census == INSTANCE Census WITH
              Member <- (PID \cup Slot) \X Uid \X (1 .. MaxThreads),
              members <- CountedNow, seen <- procSeen,
              answer <- IF Runs(ProcessesPrograms) /\ Judged THEN number ELSE NULL
ImplementsCensus == Census!Spec

\* The list printed says of every user what the total says of all: no user is in it
\* twice, the nodes add up to the head, and each has the processes, or threads, that
\* the user had all the time, and none the user never had.
UsersAddUp ==
    LET nodes == 2 .. Len(plist)
        nbr == [k \in nodes |-> plist[k].nbr]
        Of(set, uid) == Cardinality({t \in set : t[2] = uid})
    IN /\ \A j, k \in nodes : plist[j].uid = plist[k].uid => j = k
       /\ plist[1].nbr = SumFunctionOnSet(nbr, nodes)
       /\ Runs({"nbprocs"}) /\ Judged =>
            \A uid \in Uid :
              SumFunctionOnSet(nbr, {k \in nodes : plist[k].uid = uid})
                \in Of(procSeen.steady, uid) .. Of(procSeen.ever, uid)

\* Why the exit status may be UNKNOWN.
ProcessesReason ==
    \/ ProcessesBadOptions
    \/ Runs({"nbprocs"}) /\ procHost.proc # "yes"
    \/ Runs({"users"}) /\ procHost.systemd = "fails"
=============================================================================
