--------------------------- MODULE MultipathProofs ---------------------------
(***************************************************************************)
(* Proofs about check_multipath, for every size of the length field, query,*)
(* buffer and socket, every set of answers and any number of signals.      *)
(***************************************************************************)
EXTENDS Multipath, TLAPS

\* The daemon has sent nothing because it has not been asked yet.
NotAsked == reply = NULL /\ dsent = 0 /\ toPlugin = 0

\* The accounts of the two streams at each place of multipathd_query(): what
\* is in a socket is what one side wrote and the other has not read.
Streams ==
    /\ pc \in {"options", "connect"} => NotAsked /\ dgot = 0 /\ toDaemon = 0
    /\ pc = "send_len" =>
         NotAsked /\ total < LenSize /\ dgot + toDaemon <= total
    /\ pc = "send_query" =>
         /\ NotAsked /\ total < len /\ dgot + toDaemon <= LenSize + total
    /\ pc \in {"options", "connect", "send_len", "send_query"} => len = QueryLen
    /\ pc = "recv_len" => total < LenSize /\ total + toPlugin = dsent
    /\ pc = "recv_buf" =>
         /\ reply # NULL /\ len = ReplyLen(reply) /\ len <= BufSize
         /\ total < len /\ LenSize + total + toPlugin = dsent
    /\ pc = "check" =>
         /\ reply # NULL /\ len = ReplyLen(reply) /\ len <= BufSize
         /\ total = len /\ dsent = LenSize + len
    /\ reply = NULL => dsent = 0
    /\ reply # NULL => dsent <= LenSize + ReplyLen(reply)

\* How far the plugin can have come.
Control ==
    /\ exit = RUNNING <=> pc # "exited"
    /\ pc \notin {"options", "exited"} => options = "none" /\ root
    /\ daemon = "absent" => pc \in {"options", "connect", "exited"}

\* The inductive invariant.
IInv == /\ TypeOK /\ Streams /\ Control
        /\ VerdictFromWholeReply /\ UnknownHasAReason

\* An answer is a non-empty message.
LEMMA ReplyLenType ==
    ASSUME NEW r \in Replies
    PROVE  ReplyLen(r) \in Nat /\ ReplyLen(r) >= 1 /\ Len(r) \in Nat
BY MultipathAssumption DEF ReplyLen

\* Once the whole answer is in the buffer, what is judged is the answer.
LEMMA ReceivedAll ==
    ASSUME reply \in Replies, total = ReplyLen(reply)
    PROVE  Received = reply
<1>1. reply \in Seq(Rows) /\ Len(reply) \in Nat
  BY MultipathAssumption
<1>2. Received = SubSeq(reply, 1, Len(reply))
  BY <1>1 DEF Received, ReplyLen
<1> QED BY <1>1, <1>2

\* A verdict is OK or CRITICAL.
LEMMA PathStatusType ==
    ASSUME NEW r
    PROVE  PathStatus(r) \in {STATE_OK, STATE_CRITICAL}
BY DEF PathStatus

\* The inductive invariant holds initially.
LEMMA InitIInv == Init => IInv
BY MultipathAssumption
   DEF Init, IInv, TypeOK, Streams, Control, NotAsked, VerdictFromWholeReply,
       UnknownHasAReason, Judged, Statuses, RUNNING

\* Every step of the plugin, the daemon or the environment keeps it.
LEMMA NextIInv == IInv /\ [Next]_vars => IInv'
<1> SUFFICES ASSUME IInv, [Next]_vars
             PROVE  IInv'
  OBVIOUS
<1> USE MultipathAssumption, ReplyLenType
    DEF IInv, TypeOK, RUNNING, Statuses, STATE_OK, STATE_WARNING,
        STATE_CRITICAL, STATE_UNKNOWN, KILLED_SIGPIPE,
        envVars, daemonVars, pluginVars
<1>1. CASE ParseOptions
  BY <1>1 DEF ParseOptions, Exit, Streams, Control, NotAsked,
              VerdictFromWholeReply, UnknownHasAReason, Judged
<1>2. CASE multipathd_connect
  BY <1>2 DEF multipathd_connect, Exit, Streams, Control, NotAsked,
              VerdictFromWholeReply, UnknownHasAReason, Judged
<1>3. CASE WriteFails
  BY <1>3 DEF WriteFails, Exit, Streams, Control, NotAsked,
              VerdictFromWholeReply, UnknownHasAReason, Judged
<1>4. CASE ReadFails
  BY <1>4 DEF ReadFails, Exit, Streams, Control, NotAsked,
              VerdictFromWholeReply, UnknownHasAReason, Judged
<1>5. CASE Check
  <2>1. Received = reply
    BY <1>5, ReceivedAll DEF Check, Streams
  <2>2. exit' = PathStatus(reply) /\ exit' \in {STATE_OK, STATE_CRITICAL}
    BY <1>5, <2>1, PathStatusType DEF Check, Exit
  <2> QED
    BY SMTT(30), <1>5, <2>2 DEF Check, Exit, Streams, Control, NotAsked,
       VerdictFromWholeReply, UnknownHasAReason, Judged
<1>6. ASSUME NEW n \in 1 .. SockBuf, SendLen(n)
      PROVE  IInv'
  BY <1>6 DEF SendLen, write_all, Streams, Control, NotAsked,
              VerdictFromWholeReply, UnknownHasAReason, Judged
<1>7. ASSUME NEW n \in 1 .. SockBuf, SendQuery(n)
      PROVE  IInv'
  BY <1>7 DEF SendQuery, write_all, Streams, Control, NotAsked,
              VerdictFromWholeReply, UnknownHasAReason, Judged
<1>8. ASSUME NEW n \in 1 .. SockBuf, RecvLen(n)
      PROVE  IInv'
  BY SMTT(30), <1>8 DEF RecvLen, ReadUnits, Streams, Control, NotAsked,
              VerdictFromWholeReply, UnknownHasAReason, Judged
<1>9. ASSUME NEW n \in 1 .. SockBuf, RecvBuf(n)
      PROVE  IInv'
  BY <1>9 DEF RecvBuf, ReadUnits, Streams, Control, NotAsked,
              VerdictFromWholeReply, UnknownHasAReason, Judged
<1>10. CASE DaemonAnswer
  BY <1>10 DEF DaemonAnswer, Streams, Control, NotAsked,
               VerdictFromWholeReply, UnknownHasAReason, Judged
<1>11. ASSUME NEW n \in 1 .. SockBuf, DaemonRead(n)
       PROVE  IInv'
  BY <1>11 DEF DaemonRead, Streams, Control, NotAsked,
               VerdictFromWholeReply, UnknownHasAReason, Judged
<1>12. ASSUME NEW n \in 1 .. SockBuf, DaemonWrite(n)
       PROVE  IInv'
  BY <1>12 DEF DaemonWrite, Streams, Control, NotAsked,
               VerdictFromWholeReply, UnknownHasAReason, Judged
<1>13. CASE Interrupt
  BY <1>13 DEF Interrupt, Streams, Control, NotAsked,
               VerdictFromWholeReply, UnknownHasAReason, Judged
<1>14. CASE DaemonClose
  BY <1>14 DEF DaemonClose, Streams, Control, NotAsked,
               VerdictFromWholeReply, UnknownHasAReason, Judged
<1>15. CASE UNCHANGED vars
  BY <1>15 DEF vars, Streams, Control, NotAsked, VerdictFromWholeReply,
               UnknownHasAReason, Judged
<1> QED
  BY <1>1, <1>2, <1>3, <1>4, <1>5, <1>6, <1>7, <1>8, <1>9, <1>10, <1>11,
     <1>12, <1>13, <1>14, <1>15 DEF Next, Plugin, Daemon

\* The inductive invariant holds throughout.
THEOREM Inductive == Spec => []IInv
BY InitIInv, NextIInv, PTL DEF Spec

\* Type correctness.
THEOREM TypeCorrect == Spec => []TypeOK
<1>1. IInv => TypeOK
  BY DEF IInv
<1> QED BY <1>1, Inductive, PTL

\* However the transfers are split, interrupted or cut short: OK and CRITICAL
\* are the status of one whole answer.
THEOREM WholeReply == Spec => []VerdictFromWholeReply
<1>1. IInv => VerdictFromWholeReply
  BY DEF IInv
<1> QED BY <1>1, Inductive, PTL

\* However the transfers are split or interrupted: giving up has a reason that
\* lies in the daemon, the user or the size of the answer.
THEOREM GivesUpForAReason == Spec => []UnknownHasAReason
<1>1. IInv => UnknownHasAReason
  BY DEF IInv
<1> QED BY <1>1, Inductive, PTL

\* The buffer is never overrun, whatever length the daemon announces.
THEOREM NoOverrun == Spec => []BufferNotOverrun
<1>1. IInv => BufferNotOverrun
  BY DEF IInv, Streams, BufferNotOverrun, TypeOK
<1> QED BY <1>1, Inductive, PTL

\* Every step of the plugin with its daemon is a step of PathQuery, or none.
LEMMA StepImplements == IInv /\ [Next]_vars => [Query!Next]_Query!vars
<1> SUFFICES ASSUME IInv, [Next]_vars
             PROVE  [Query!Next]_Query!vars
  OBVIOUS
<1> USE MultipathAssumption
    DEF IInv, TypeOK, Control, RUNNING, Statuses, STATE_OK, STATE_WARNING,
        STATE_CRITICAL, STATE_UNKNOWN, KILLED_SIGPIPE,
        envVars, daemonVars, pluginVars, Query!vars
<1>1. CASE ParseOptions \/ multipathd_connect \/ WriteFails \/ ReadFails
  <2>1. pc \notin {"check", "exited"} /\ pc' # "check" /\ options' = options
    BY SMTT(30), <1>1 DEF ParseOptions, multipathd_connect, WriteFails, ReadFails, Exit
  <2>2. /\ exit = RUNNING
        /\ options = "none" => exit' \in {RUNNING, STATE_UNKNOWN, KILLED_SIGPIPE}
    BY SMTT(30), <1>1 DEF ParseOptions, multipathd_connect, WriteFails, ReadFails, Exit
  <2>3. WholeAnswer = NULL /\ WholeAnswer' = NULL
    BY <2>1, <2>2 DEF WholeAnswer, Judged
  <2>4. \/ AbstractExit' = AbstractExit
        \/ AbstractExit = RUNNING /\ AbstractExit' \in {STATE_UNKNOWN, KILLED_SIGPIPE}
    BY <2>1, <2>2 DEF AbstractExit
  <2> QED BY <2>3, <2>4 DEF Query!Next, Query!GiveUp
<1>2. CASE Check
  <2>1. Received = reply
    BY <1>2, ReceivedAll DEF Check, Streams
  <2>2. exit' = PathStatus(reply) /\ exit' \in {STATE_OK, STATE_CRITICAL}
    BY <1>2, <2>1, PathStatusType DEF Check, Exit
  <2>3. /\ WholeAnswer = reply /\ reply # NULL /\ WholeAnswer' = reply
        /\ AbstractExit = RUNNING /\ AbstractExit' = PathStatus(reply)
    BY <1>2, <2>2
       DEF Check, Exit, WholeAnswer, AbstractExit, Judged, Streams
  <2> QED BY <2>3 DEF Query!Next, Query!Decide
<1>3. ASSUME NEW n \in 1 .. SockBuf, SendLen(n) \/ SendQuery(n) \/ RecvLen(n)
      PROVE  [Query!Next]_Query!vars
  <2>1. WholeAnswer = NULL /\ WholeAnswer' = NULL
    BY <1>3 DEF SendLen, SendQuery, RecvLen, write_all, ReadUnits, WholeAnswer,
                Judged
  <2>2. \/ AbstractExit' = AbstractExit
        \/ AbstractExit = RUNNING /\ AbstractExit' = STATE_UNKNOWN
    BY <1>3 DEF SendLen, SendQuery, RecvLen, write_all, ReadUnits, AbstractExit
  <2> QED
    BY <2>1, <2>2 DEF Query!Next, Query!GiveUp
<1>4. ASSUME NEW n \in 1 .. SockBuf, RecvBuf(n)
      PROVE  [Query!Next]_Query!vars
  <2>1. /\ WholeAnswer = NULL /\ AbstractExit = RUNNING /\ AbstractExit' = RUNNING
        /\ reply \in Replies /\ reply' = reply
        /\ WholeAnswer' \in {NULL, reply}
    BY <1>4 DEF RecvBuf, ReadUnits, WholeAnswer, AbstractExit, Judged, Streams
  <2> QED BY <2>1 DEF Query!Next, Query!Obtain
<1>5. ASSUME NEW n \in 1 .. SockBuf,
             DaemonAnswer \/ DaemonRead(n) \/ DaemonWrite(n) \/ Interrupt
               \/ DaemonClose \/ UNCHANGED vars
      PROVE  UNCHANGED Query!vars
  <2>1. /\ UNCHANGED <<pc, exit, options>>
        /\ reply # NULL => reply' = reply
    BY <1>5 DEF DaemonAnswer, DaemonRead, DaemonWrite, Interrupt, DaemonClose,
                vars
  <2>2. pc = "check" \/ Judged => reply # NULL
    BY DEF Streams, VerdictFromWholeReply
  <2> QED BY <2>1, <2>2 DEF WholeAnswer, AbstractExit, Judged
<1>6. 1 \in 1 .. SockBuf
  OBVIOUS
<1> QED
  BY <1>1, <1>2, <1>3, <1>4, <1>5, <1>6 DEF Next, Plugin, Daemon

\* check_multipath implements PathQuery: the whole exchange over the socket
\* looks like obtaining one answer and judging it, or giving up.
THEOREM ImplementsPathQuery == Spec => Implements
<1>1. Init => Query!Init
  BY DEF Init, Query!Init, WholeAnswer, AbstractExit, Judged
<1>2. IInv /\ [Next]_vars => [Query!Next]_Query!vars
  BY StepImplements
<1> QED BY <1>1, <1>2, Inductive, PTL DEF Spec, Query!Spec, Implements
=============================================================================
