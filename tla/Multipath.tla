------------------------------ MODULE Multipath ------------------------------
(***************************************************************************)
(* check_multipath: a root process asks multipathd "show paths" over a     *)
(* stream socket and judges the answer.  Each message is its length (a     *)
(* size_t) followed by its bytes.  write() and read() may move fewer bytes *)
(* than asked, may be interrupted by a signal, and block while the socket  *)
(* is full or empty; the daemon may be absent, slow, or die at any point.  *)
(*                                                                         *)
(* Bytes are counted in units: one per line of the answer plus one for the *)
(* NUL that ends it.  What a byte says is determined by its place in the   *)
(* stream, so only counts are kept.                                        *)
(***************************************************************************)
EXTENDS PathReply

CONSTANTS LenSize,      \* units of a size_t
          QueryLen,     \* units of the query and its NUL
          BufSize,      \* the plugin's static buffer
          SockBuf,      \* units the socket holds in each direction
          Replies,      \* the answers the daemon may give
          MaxIntr       \* bound: interruptions by a signal

ASSUME MultipathAssumption ==
    /\ LenSize \in Nat \ {0} /\ QueryLen \in Nat \ {0}
    /\ BufSize \in Nat \ {0} /\ SockBuf \in Nat \ {0}
    /\ Replies \subseteq Seq(Rows)
    /\ NULL \notin Replies
    /\ MaxIntr \in Nat

\* The status a shell shows for a process killed by SIGPIPE.
KILLED_SIGPIPE == 141

\* What the daemon announces as the length of an answer.
ReplyLen(r) == Len(r) + 1

VARIABLES
    pc,         \* where the plugin is
    options,    \* what getopt_long() finds: nothing or -v, -h or -V, else
    root,       \* getuid () == 0
    sigpipe,    \* the disposition of SIGPIPE the plugin inherited
    total,      \* read_all() / write_all(): units moved so far
    len,        \* multipathd_query(): the variable len
    exit,       \* how the plugin ended, RUNNING before
    daemon,     \* "absent", "up" or "closed"
    dgot,       \* units of the request the daemon has read
    reply,      \* the answer it computed, NULL before
    dsent,      \* units of the answer it has written
    toDaemon, toPlugin,   \* units in the socket
    interrupts  \* signals taken so far

pluginVars == <<pc, total, len, exit>>
envVars    == <<options, root, sigpipe>>
daemonVars == <<daemon, dgot, reply, dsent>>
vars == <<pc, options, root, sigpipe, total, len, exit, daemon, dgot, reply,
          dsent, toDaemon, toPlugin, interrupts>>

TypeOK ==
    /\ pc \in {"options", "connect", "send_len", "send_query", "recv_len",
               "recv_buf", "check", "exited"}
    /\ options \in {"none", "help", "invalid"}
    /\ root \in BOOLEAN
    /\ sigpipe \in {"default", "ignored"}
    /\ total \in Nat /\ len \in Nat
    /\ exit \in Statuses \cup {RUNNING, KILLED_SIGPIPE}
    /\ daemon \in {"absent", "up", "closed"}
    /\ dgot \in Nat /\ dsent \in Nat
    /\ reply \in Replies \cup {NULL}
    /\ toDaemon \in 0 .. SockBuf /\ toPlugin \in 0 .. SockBuf
    /\ interrupts \in 0 .. MaxIntr

Init ==
    /\ pc = "options"
    /\ options \in {"none", "help", "invalid"}
    /\ root \in BOOLEAN
    /\ sigpipe \in {"default", "ignored"}
    /\ total = 0 /\ len = QueryLen /\ exit = RUNNING
    /\ daemon \in {"absent", "up"}
    /\ dgot = 0 /\ reply = NULL /\ dsent = 0
    /\ toDaemon = 0 /\ toPlugin = 0
    /\ interrupts = 0

\* plugin_error (status, ...) and usage (): print and exit.
Exit(status) ==
    /\ pc' = "exited" /\ exit' = status
    /\ UNCHANGED <<total, len>>

-----------------------------------------------------------------------------
(* The plugin *)

\* The getopt_long() loop and the test for root.
ParseOptions ==
    /\ pc = "options"
    /\ CASE options = "help" -> Exit(STATE_OK)
         [] options = "invalid" -> Exit(STATE_UNKNOWN)
         [] OTHER -> IF ~root THEN Exit(STATE_UNKNOWN)
                     ELSE pc' = "connect" /\ UNCHANGED <<total, len, exit>>
    /\ UNCHANGED <<envVars, daemonVars, toDaemon, toPlugin, interrupts>>

\* multipathd_connect(): the connection is complete once the daemon listens.
multipathd_connect ==
    /\ pc = "connect"
    /\ IF daemon = "up"
       THEN pc' = "send_len" /\ total' = 0 /\ UNCHANGED <<len, exit>>
       ELSE Exit(STATE_UNKNOWN)
    /\ UNCHANGED <<envVars, daemonVars, toDaemon, toPlugin, interrupts>>

\* One write() of write_all() that moves n units; with the last of them the
\* loop ends and the caller goes on.
write_all(size, n, next) ==
    /\ daemon = "up"
    /\ n <= size - total /\ n <= SockBuf - toDaemon
    /\ toDaemon' = toDaemon + n
    /\ IF total + n = size
       THEN pc' = next /\ total' = 0
       ELSE pc' = pc /\ total' = total + n
    /\ UNCHANGED <<len, exit, toPlugin, interrupts, envVars, daemonVars>>

\* A write() once the peer is gone: SIGPIPE kills the plugin, or EPIPE makes
\* write_all() return short and multipathd_query() give up.
WriteFails ==
    /\ pc \in {"send_len", "send_query"}
    /\ daemon = "closed"
    /\ Exit(IF sigpipe = "default" THEN KILLED_SIGPIPE ELSE STATE_UNKNOWN)
    /\ UNCHANGED <<envVars, daemonVars, toDaemon, toPlugin, interrupts>>

SendLen(n) == pc = "send_len" /\ write_all(LenSize, n, "send_query")

SendQuery(n) == pc = "send_query" /\ write_all(len, n, "recv_len")

\* One read() of read_all() that moves n units.
ReadUnits(size, n) ==
    /\ n <= size - total /\ n <= toPlugin
    /\ toPlugin' = toPlugin - n
    /\ UNCHANGED <<toDaemon, interrupts, envVars, daemonVars>>

\* A mutant: the announced length is not compared with the buffer's size.
RecvLenUnchecked(n) ==
    /\ pc = "recv_len"
    /\ ReadUnits(LenSize, n)
    /\ IF total + n < LenSize
       THEN total' = total + n /\ UNCHANGED <<pc, len>>
       ELSE len' = ReplyLen(reply) /\ total' = 0 /\ pc' = "recv_buf"
    /\ UNCHANGED exit

\* Reading the length of the answer, and the check that it fits.
RecvLen(n) ==
    /\ pc = "recv_len"
    /\ ReadUnits(LenSize, n)
    /\ IF total + n < LenSize
       THEN total' = total + n /\ UNCHANGED <<pc, len, exit>>
       ELSE /\ len' = ReplyLen(reply) /\ total' = 0
            /\ IF len' > BufSize
               THEN pc' = "exited" /\ exit' = STATE_UNKNOWN
               ELSE pc' = "recv_buf" /\ UNCHANGED exit

\* A mutant: one read() is taken to deliver the whole answer.
RecvBufOnce(n) ==
    /\ pc = "recv_buf"
    /\ ReadUnits(len, n)
    /\ total' = total + n /\ pc' = "check" /\ UNCHANGED <<len, exit>>

\* Reading the answer itself.
RecvBuf(n) ==
    /\ pc = "recv_buf"
    /\ ReadUnits(len, n)
    /\ total' = total + n
    /\ pc' = IF total' = len THEN "check" ELSE pc
    /\ UNCHANGED <<len, exit>>

\* Mutants: what read_all() returned is not compared with what was asked; end
\* of file is taken like an interruption, and read again.
ReadFailsUnnoticed ==
    /\ pc \in {"recv_len", "recv_buf"}
    /\ daemon = "closed" /\ toPlugin = 0
    /\ IF pc = "recv_len" THEN Exit(STATE_UNKNOWN)
       ELSE pc' = "check" /\ UNCHANGED <<total, len, exit>>
    /\ UNCHANGED <<envVars, daemonVars, toDaemon, toPlugin, interrupts>>

ReadFailsRetried ==
    /\ pc \in {"recv_len", "recv_buf"}
    /\ daemon = "closed" /\ toPlugin = 0
    /\ UNCHANGED vars

\* read() finds the stream ended (0) or reset (ECONNRESET): read_all()
\* returns short and multipathd_query() gives up.
ReadFails ==
    /\ pc \in {"recv_len", "recv_buf"}
    /\ daemon = "closed" /\ toPlugin = 0
    /\ Exit(STATE_UNKNOWN)
    /\ UNCHANGED <<envVars, daemonVars, toDaemon, toPlugin, interrupts>>

\* A mutant: an interrupted call ends the loop like any other error.
InterruptFatal ==
    /\ pc \in {"send_len", "send_query", "recv_len", "recv_buf"}
    /\ interrupts < MaxIntr
    /\ interrupts' = interrupts + 1
    /\ Exit(STATE_UNKNOWN)
    /\ UNCHANGED <<envVars, daemonVars, toDaemon, toPlugin>>

\* EINTR (or EAGAIN): "continue", nothing moved.
Interrupt ==
    /\ pc \in {"send_len", "send_query", "recv_len", "recv_buf"}
    /\ interrupts < MaxIntr
    /\ interrupts' = interrupts + 1
    /\ UNCHANGED <<pluginVars, envVars, daemonVars, toDaemon, toPlugin>>

\* The lines of the answer that are in the buffer.
Received ==
    SubSeq(reply, 1, IF total < Len(reply) THEN total ELSE Len(reply))

\* The rest of main(): the buffer is judged and the plugin returns.
Check ==
    /\ pc = "check"
    /\ Exit(PathStatus(Received))
    /\ UNCHANGED <<envVars, daemonVars, toDaemon, toPlugin, interrupts>>

-----------------------------------------------------------------------------
(* multipathd, as the plugin sees it *)

DaemonRead(n) ==
    /\ daemon = "up" /\ n <= toDaemon
    /\ toDaemon' = toDaemon - n /\ dgot' = dgot + n
    /\ UNCHANGED <<pluginVars, envVars, daemon, reply, dsent, toPlugin,
                   interrupts>>

\* The whole request is there: an answer is computed.
DaemonAnswer ==
    /\ daemon = "up" /\ reply = NULL /\ dgot = LenSize + QueryLen
    /\ reply' \in Replies
    /\ UNCHANGED <<pluginVars, envVars, daemon, dgot, dsent, toDaemon, toPlugin,
                   interrupts>>

DaemonWrite(n) ==
    /\ daemon = "up" /\ reply # NULL
    /\ n <= LenSize + ReplyLen(reply) - dsent /\ n <= SockBuf - toPlugin
    /\ toPlugin' = toPlugin + n /\ dsent' = dsent + n
    /\ UNCHANGED <<pluginVars, envVars, daemon, dgot, reply, toDaemon,
                   interrupts>>

\* The daemon is stopped, dies, or closes the connection; what it wrote can
\* still be read.
DaemonClose ==
    /\ daemon = "up"
    /\ daemon' = "closed" /\ toDaemon' = 0
    /\ UNCHANGED <<pluginVars, envVars, dgot, reply, dsent, toPlugin,
                   interrupts>>

-----------------------------------------------------------------------------
Plugin ==
    \/ ParseOptions \/ multipathd_connect \/ WriteFails \/ ReadFails \/ Check
    \/ \E n \in 1 .. SockBuf : SendLen(n) \/ SendQuery(n) \/ RecvLen(n)
                               \/ RecvBuf(n)

Daemon ==
    \/ DaemonAnswer
    \/ \E n \in 1 .. SockBuf : DaemonRead(n) \/ DaemonWrite(n)

Next == Plugin \/ Daemon \/ Interrupt \/ DaemonClose

Spec == Init /\ [][Next]_vars

\* The plugin is scheduled; a daemon that is up goes on reading, answering
\* and writing.  Nothing obliges it to close, and no signal need come.
FairSpec == Spec /\ WF_vars(Plugin) /\ WF_vars(Daemon)

-----------------------------------------------------------------------------
\* The plugin ended with a verdict about the paths.
Judged == pc = "exited" /\ options = "none" /\ exit \in {STATE_OK, STATE_CRITICAL}

\* OK and CRITICAL come from a whole answer of the daemon, and say what that
\* answer says: no short read, signal or death of the daemon turns part of an
\* answer into a verdict (multipathd_query, check_for_faulty_paths).
VerdictFromWholeReply ==
    Judged => /\ reply # NULL
              /\ dsent = LenSize + ReplyLen(reply)
              /\ exit = PathStatus(reply)

\* The plugin gives up only with a reason: it is not run as root, no daemon
\* answers at its socket or it closed before the answer was complete, or the
\* answer is too long for the buffer.  In particular neither signals nor
\* partial transfers make it give up.
UnknownHasAReason ==
    pc = "exited" /\ options = "none" /\ ~Judged =>
        \/ ~root
        \/ daemon = "absent"
        \/ daemon = "closed" /\ (reply = NULL
                                 \/ dsent < LenSize + ReplyLen(reply))
        \/ reply # NULL /\ ReplyLen(reply) > BufSize

\* read_all() never stores past the end of the buffer.
BufferNotOverrun ==
    pc \in {"recv_buf", "check"} => total <= len /\ len <= BufSize

\* The types hold, and with a daemon that serves its clients, the plugin ends.
Termination == []TypeOK /\ <>(pc = "exited")

\* The abstract specification: the answer counts once it is all in the buffer.
WholeAnswer == IF pc = "check" \/ Judged THEN reply ELSE NULL

AbstractExit == IF options = "none" THEN exit ELSE RUNNING

Query == INSTANCE PathQuery
         WITH answer <- WholeAnswer, exit <- AbstractExit,
              Verdict <- [r \in Replies |-> PathStatus(r)],
              Failures <- {STATE_UNKNOWN, KILLED_SIGPIPE}

\* The plugin implements PathQuery.
Implements == Query!Spec
=============================================================================
