--------------------------- MODULE NetinfoProofs ---------------------------
(***************************************************************************)
(* Proofs about the two dumps of check_network and the rates it takes      *)
(* between them, for any number of links, any width of the counters, and   *)
(* whatever the kernel does meanwhile.                                     *)
(***************************************************************************)
EXTENDS Netinfo, CommonLemmas

\* The counts of a link grow, so what a dump has of it is not above what another has
\* that was made later.
Below(s, t) == s.tx <= t.tx /\ s.rx <= t.rx

\* What has been read of a link is not above its counts.
InThePast ==
    /\ \A msg \in reply : Below(msg.stats, link[msg.ix].stats)
    /\ \A k \in DOMAIN list[1] : Below(list[1][k].total, link[list[1][k].ix].stats)

\* The second dump is not below the first; it is empty while the first is made.
InOrder ==
    /\ pc \notin {"recv", "exited"} => reply = {}
    /\ snap = 1 => list[2] = <<>>
    /\ snap = 2 => \A k \in DOMAIN list[1], msg \in reply :
                      list[1][k].ix = msg.ix => Below(list[1][k].total, msg.stats)
    /\ \A k \in DOMAIN list[1], m \in DOMAIN list[2] :
          list[1][k].ix = list[2][m].ix => Below(list[1][k].total, list[2][m].total)

\* The counters are those of the kernel, truncated; but in the first list they have
\* become rates before position n.
IsTruncated(e) == e.stats = [tx |-> uint(e.total.tx), rx |-> uint(e.total.rx)]

\* The counters of both lists are truncated, from position n of the first.
Truncated(n) ==
    /\ \A k \in DOMAIN list[1] : n <= k => IsTruncated(list[1][k])
    /\ \A k \in DOMAIN list[2] : IsTruncated(list[2][k])

\* The rates before position n are those of the links.
RatesBefore(n) ==
    \A p \in 1 .. n - 1, f \in {"tx", "rx"} :
        list[1][p].ix = list[2][p].ix /\ Grown(p, f) < UintMod
          => RoundedUp(list[1][p].stats[f], Grown(p, f))

\* What is paired at each place of the program.
Pairing ==
    /\ pc \in {"options", "dump", "recv", "sleep"} => pos = 1 /\ ninterfaces = 0 /\ Truncated(1)
    /\ pc = "pair" => /\ ninterfaces = pos - 1 /\ Truncated(pos) /\ RatesBefore(pos)
                      /\ pos <= Len(list[1]) + 1 /\ pos <= Len(list[2]) + 1
    /\ pc = "judge" => /\ RatesBefore(ninterfaces + 1)
                       /\ ninterfaces <= Len(list[1]) /\ ninterfaces <= Len(list[2])

\* There are two dumps only with a delay.
Delayed ==
    /\ opt \in OptionSets
    /\ pc = "options" => snap = 1
    /\ pc \notin {"options", "exited"} => ~BadOptions
    /\ snap = 2 \/ pc \in {"sleep", "pair", "judge"} => delay # 0
    /\ pc \in {"pair", "judge"} => snap = 2

\* The inductive invariant.
IInv == TypeOK /\ InThePast /\ InOrder /\ Pairing /\ Delayed

-----------------------------------------------------------------------------
(* Arithmetic *)

\* An unsigned difference of truncated counts is the true one if that fits.
LEMMA TruncatedDifference ==
    ASSUME NEW m \in Nat \ {0}, NEW a \in Nat, NEW b \in Nat, a <= b, b - a < m
    PROVE  ((b % m) - (a % m)) % m = b - a
<1> DEFINE q == (a \div m) - (b \div m)
<1>1. /\ a = (a \div m) * m + (a % m) /\ b = (b \div m) * m + (b % m)
      /\ a \div m \in Int /\ b \div m \in Int /\ a % m \in Int /\ b % m \in Int
  BY DivMod
<1>2. (b % m) - (a % m) = q * m + (b - a)
  BY <1>1
<1>3. q \in Int /\ b - a \in 0 .. m - 1
  BY <1>1
<1> HIDE DEF q
<1> QED BY <1>2, <1>3, UniqueMod

\* A quotient rounded up.
LEMMA CeilDiv ==
    ASSUME NEW x \in Nat, NEW n \in Nat \ {0}
    PROVE  LET r == (x + n - 1) \div n
           IN r \in 0 .. x /\ x <= r * n /\ r * n < x + n
<1> DEFINE r == (x + n - 1) \div n
<1>1. /\ r \in Int /\ (x + n - 1) % n \in 0 .. n - 1
      /\ x + n - 1 = r * n + ((x + n - 1) % n)
  BY DivMod
<1> DEFINE rest == (x + n - 1) % n
<1> HIDE DEF r, rest
<1>2. x + n - 1 = r * n + rest /\ rest \in 0 .. n - 1 /\ r \in Int
  BY <1>1 DEF rest
<1>3. x <= r * n /\ r * n < x + n
  BY <1>2
<1>4. r >= 0
  <2>1. CASE r <= -1
    <3>1. (-1 - r) * n \in Nat
      BY <1>2, <2>1
    <3>2. (-1 - r) * n = -n - r * n
      BY <1>2
    <3> QED BY <1>2, <1>3, <3>1, <3>2
  <2> QED BY <1>2, <2>1
<1>5. r <= x
  <2>1. CASE r >= x + 1
    <3>1. r * n >= (x + 1) * n
      BY <1>2, <2>1
    <3>2. (x + 1) * n = x * n + n /\ x * n >= x
      OBVIOUS
    <3> QED BY <1>2, <1>3, <3>1, <3>2
  <2> QED BY <1>2, <2>1
<1> QED BY <1>2, <1>3, <1>4, <1>5 DEF r

\* DIV() of two counters.
LEMMA DivType ==
    ASSUME delay \in Nat \ {0}, NEW a \in Uint, NEW b \in Uint
    PROVE  DIV(a, b) \in Uint
<1>1. UintMod \in Nat \ {0} /\ a \in Int /\ b \in Int
  BY NetAssumption DEF Uint
<1>2. uint(b - a) \in Uint /\ uint(b - a) \in Nat
  BY <1>1, DivMod DEF uint, Uint
<1>3. DIV(a, b) \in 0 .. uint(b - a)
  BY <1>2, CeilDiv DEF DIV
<1> QED BY <1>1, <1>2, <1>3 DEF Uint

\* It is the growth per second, rounded up, of the counts that were truncated.
LEMMA DivExact ==
    ASSUME delay \in Nat \ {0}, NEW s \in Nat, NEW t \in Nat, s <= t, t - s < UintMod
    PROVE  RoundedUp(DIV(uint(s), uint(t)), t - s)
<1>1. UintMod \in Nat \ {0} /\ t - s \in Nat
  BY NetAssumption
<1>2. uint(uint(t) - uint(s)) = t - s
  BY <1>1, TruncatedDifference DEF uint
<1> QED BY <1>1, <1>2, CeilDiv DEF DIV, RoundedUp

-----------------------------------------------------------------------------
(* Types *)

Message == [ix : Index, flags : SUBSET Flags, stats : Counts(Nat)]

\* What the types say of a message, an entry and a link.
LEMMA RecordTypes ==
    /\ \A msg \in Message : /\ msg.ix \in Index /\ msg.flags \in SUBSET Flags
                            /\ msg.stats \in Counts(Nat)
    /\ \A e \in Entry : e.ix \in Index /\ e.stats \in Counts(Uint) /\ e.total \in Counts(Nat)
    /\ \A l \in Link : /\ l.flags \in SUBSET Flags /\ l.stats \in Counts(Nat)
                       /\ l.speed \in Uint \cup {SPEED_UNKNOWN}
                       /\ l.duplex \in {DUPLEX_HALF, DUPLEX_FULL, DUPLEX_UNKNOWN}
    /\ \A c \in Counts(Nat) : c.tx \in Nat /\ c.rx \in Nat
    /\ \A c \in Counts(Uint) : c.tx \in Uint /\ c.rx \in Uint
    /\ 0 \in Uint
BY NetAssumption DEF Message, Entry, Link, Counts, Uint

\* The counts of a link that has gone on are not below those it had.
LEMMA BelowFacts ==
    /\ \A s \in Counts(Nat) : Below(s, s)
    /\ \A s, t, u \in Counts(Nat) : Below(s, t) /\ Below(t, u) => Below(s, u)
BY RecordTypes DEF Below

\* The verdict on a link is a status.
LEMMA StatusType ==
    \A e : iface_status(e) \in Statuses
BY DEF iface_status, get_statusPercent, get_status, Statuses, STATE_OK, STATE_WARNING,
       STATE_CRITICAL, STATE_UNKNOWN

\* The entry made of a message.
LEMMA EntryType ==
    ASSUME TypeOK, NEW msg \in Message
    PROVE  /\ EntryOf(msg) \in Entry /\ IsTruncated(EntryOf(msg))
           /\ EntryOf(msg).ix = msg.ix /\ EntryOf(msg).total = msg.stats
<1> DEFINE name == NameOf[msg.ix]
<1>1. \A n \in Index : link[n] \in Link
  BY DEF TypeOK
<1>2. Ioctl(name) = NULL \/ Ioctl(name) \in Link
  BY <1>1 DEF Ioctl, Present
<1> HIDE DEF name
<1>3. /\ speed_of(name) \in Uint
      /\ duplex_of(name) \in {DUPLEX_HALF, DUPLEX_FULL, DUPLEX_UNKNOWN}
  BY <1>2, RecordTypes DEF speed_of, duplex_of
<1>4. \A x \in Nat : uint(x) \in Uint
  BY NetAssumption, DivMod DEF uint, Uint
<1>5. [tx |-> uint(msg.stats.tx), rx |-> uint(msg.stats.rx)] \in Counts(Uint)
  BY <1>4, RecordTypes DEF Counts
<1> QED BY <1>3, <1>5, RecordTypes DEF name, EntryOf, Entry, IsTruncated

-----------------------------------------------------------------------------
(* The kernel *)

\* Whatever the kernel does, its links keep their types, and their counts do not
\* run backwards.
LEMMA KernelGrows ==
    ASSUME TypeOK, Kernel
    PROVE  /\ UNCHANGED <<pc, opt, dump, pos, ninterfaces, verdict, netlink>>
           /\ events' \in 0 .. MaxEvents
           /\ life' \in [Index -> {"unborn", "present", "gone"}]
           /\ link' \in [Index -> Link]
           /\ \A n \in Index : Below(link[n].stats, link'[n].stats)
<1>0. /\ link \in [Index -> Link] /\ life \in [Index -> {"unborn", "present", "gone"}]
      /\ Present \subseteq Index
      /\ \A n \in Index : link[n] \in Link /\ Below(link[n].stats, link[n].stats)
  BY RecordTypes, BelowFacts DEF TypeOK, Present
<1>1. ASSUME Event PROVE events' \in 0 .. MaxEvents
  BY <1>1, NetAssumption DEF Event, TypeOK
<1>2. CASE Traffic
  <2>1. PICK n \in Present, delta \in Deltas :
          link' = [link EXCEPT ![n].stats = [tx |-> @.tx + delta.tx, rx |-> @.rx + delta.rx]]
    BY <1>2 DEF Traffic
  <2> DEFINE s == link[n].stats
             t == [tx |-> s.tx + delta.tx, rx |-> s.rx + delta.rx]
  <2>2. s \in Counts(Nat) /\ delta \in Counts(Nat)
    BY <1>0, RecordTypes, NetAssumption
  <2>3. t \in Counts(Nat) /\ Below(s, t)
    BY <2>2, RecordTypes DEF Counts, Below
  <2>4. link' = [link EXCEPT ![n].stats = t]
    BY <2>1
  <2> HIDE DEF s, t
  <2>5. [link[n] EXCEPT !.stats = t] \in Link /\ [link[n] EXCEPT !.stats = t].stats = t
    BY <1>0, <2>3 DEF Link
  <2>6. link' = [link EXCEPT ![n] = [link[n] EXCEPT !.stats = t]]
    BY <2>4
  <2>7. link' \in [Index -> Link]
    BY <1>0, <2>5, <2>6
  <2>8. \A m \in Index : Below(link[m].stats, link'[m].stats)
    BY <1>0, <2>3, <2>5, <2>6 DEF s
  <2> QED BY <1>0, <1>1, <1>2, <2>7, <2>8 DEF Traffic
<1>3. CASE Carrier
  <2>1. PICK n \in Present :
          link' = [link EXCEPT ![n].flags =
                     IF "RUNNING" \in @ THEN @ \ {"RUNNING"} ELSE @ \cup {"RUNNING"}]
    BY <1>3 DEF Carrier
  <2> DEFINE g == link[n].flags
             h == IF "RUNNING" \in g THEN g \ {"RUNNING"} ELSE g \cup {"RUNNING"}
  <2>2. h \in SUBSET Flags
    BY <1>0, RecordTypes DEF Flags
  <2>3. link' = [link EXCEPT ![n] = [link[n] EXCEPT !.flags = h]]
    BY <2>1
  <2> HIDE DEF h
  <2>4. /\ [link[n] EXCEPT !.flags = h] \in Link
        /\ [link[n] EXCEPT !.flags = h].stats = link[n].stats
    BY <1>0, <2>2 DEF Link
  <2>5. link' \in [Index -> Link] /\ \A m \in Index : link'[m].stats = link[m].stats
    BY <1>0, <2>3, <2>4
  <2> QED BY <1>0, <1>1, <1>3, <2>5 DEF Carrier
<1>4. CASE Appear
  BY <1>0, <1>1, <1>4 DEF Appear
<1>5. CASE Vanish
  BY <1>0, <1>1, <1>5 DEF Vanish
<1> QED BY <1>2, <1>3, <1>4, <1>5 DEF Kernel

\* Whatever the kernel does, the invariant holds after it.
LEMMA KernelKeeps ==
    ASSUME IInv, Kernel
    PROVE  IInv'
<1>1. /\ UNCHANGED <<pc, opt, snap, reply, list, cursor, pos, ninterfaces, status, exit, netlink>>
      /\ events' \in 0 .. MaxEvents
      /\ life' \in [Index -> {"unborn", "present", "gone"}]
      /\ link' \in [Index -> Link]
      /\ \A n \in Index : Below(link[n].stats, link'[n].stats)
  BY KernelGrows DEF IInv, dump, verdict
<1>2. TypeOK'
  BY <1>1 DEF IInv, TypeOK
<1>3. InThePast'
  <2>1. \A n \in Index : link[n].stats \in Counts(Nat) /\ link'[n].stats \in Counts(Nat)
    BY <1>1, RecordTypes DEF IInv, TypeOK
  <2>2. \A msg \in reply : msg.ix \in Index /\ msg.stats \in Counts(Nat)
    BY RecordTypes DEF IInv, TypeOK, Message
  <2>3. \A k \in DOMAIN list[1] : list[1][k].ix \in Index /\ list[1][k].total \in Counts(Nat)
    <3>1. \A k \in DOMAIN list[1] : list[1][k] \in Entry
      BY SMTT(30) DEF IInv, TypeOK
    <3> QED BY <3>1, RecordTypes
  <2> QED BY <1>1, <2>1, <2>2, <2>3, BelowFacts DEF IInv, InThePast
<1>4. InOrder' /\ Pairing' /\ Delayed'
  BY <1>1 DEF IInv, InOrder, Pairing, Delayed, Truncated, RatesBefore, Grown, RoundedUp,
              delay, BadOptions, IsTruncated
<1> QED BY <1>2, <1>3, <1>4 DEF IInv

-----------------------------------------------------------------------------
(* The plugin *)

LEMMA InitIInv == Init => IInv
<1> SUFFICES ASSUME Init PROVE IInv
  OBVIOUS
<1>1. TypeOK
  <2>1. <<>> \in Seq(Entry)
    OBVIOUS
  <2>2. list \in [{1, 2} -> Seq(Entry)]
    BY <2>1 DEF Init
  <2>3. /\ snap \in {1, 2} /\ cursor \in 1 .. LastIndex + 1 /\ pos \in Nat \ {0}
        /\ ninterfaces \in Nat /\ events \in 0 .. MaxEvents
    BY NetAssumption DEF Init
  <2>4. /\ life \in [Index -> {"unborn", "present", "gone"}] /\ link \in [Index -> Link]
        /\ status \in Statuses /\ exit \in Statuses \cup {RUNNING}
    BY NetAssumption DEF Init, Statuses
  <2> QED BY <2>2, <2>3, <2>4 DEF Init, TypeOK
<1>2. InThePast /\ InOrder
  BY DEF Init, InThePast, InOrder
<1>3. Pairing /\ Delayed
  BY DEF Init, Pairing, Delayed, Truncated
<1> QED BY <1>1, <1>2, <1>3 DEF IInv

\* An accepted delay is a number.
LEMMA DelayType ==
    ASSUME opt \in OptionSets, ~BadOptions, delay # 0
    PROVE  delay \in Nat \ {0}
<1>1. opt.delay \in Int \cup {NULL}
  BY NetAssumption DEF CommandLine
<1> QED BY <1>1, NetAssumption DEF BadOptions, delay

\* A failure leaves the lists alone.
LEMMA FailKeeps ==
    ASSUME IInv, NEW s \in Statuses, Fail(s), pc # "recv"
    PROVE  IInv'
<1>1. /\ UNCHANGED <<opt, snap, reply, list, cursor, pos, ninterfaces, status, netlink,
                     life, link, events>>
      /\ pc' = "exited" /\ exit' = s
  BY DEF Fail, dump, links
<1>2. TypeOK' /\ InThePast' /\ Pairing'
  BY <1>1 DEF IInv, TypeOK, InThePast, Pairing
<1>3. InOrder' /\ Delayed'
  BY <1>1 DEF IInv, InOrder, Delayed, delay
<1> QED BY <1>2, <1>3 DEF IInv

\* What the plugin exits with is a status.
LEMMA Verdict == {STATE_OK, STATE_WARNING, STATE_CRITICAL, STATE_UNKNOWN} \subseteq Statuses
BY DEF Statuses

\* A step that leaves the lists, the answers and the links alone.
LEMMA StepKeeps ==
    ASSUME IInv,
           UNCHANGED <<opt, reply, list, pos, ninterfaces, links>>,
           TypeOK', pc # "recv" \/ reply = {},
           snap' = snap \/ snap' = 2,
           pc \in {"options", "dump", "recv", "sleep"},
           pc' \in {"options", "dump", "recv", "sleep"}, Delayed'
    PROVE  IInv'
<1>1. reply = {}
  BY DEF IInv, InOrder
<1>2. InThePast' /\ InOrder'
  BY <1>1 DEF IInv, InThePast, InOrder, links
<1>3. Pairing'
  BY DEF IInv, Pairing, Truncated, IsTruncated
<1> QED BY <1>2, <1>3 DEF IInv

\* The options are parsed.
LEMMA ParseOptionsKeeps ==
    ASSUME IInv, ParseOptions
    PROVE  IInv'
<1>1. CASE BadOptions
  BY <1>1, FailKeeps, Verdict DEF ParseOptions
<1>2. CASE ~BadOptions
  <2>1. /\ UNCHANGED <<opt, snap, reply, list, cursor, pos, ninterfaces, status, exit,
                       netlink, life, link, events>>
        /\ pc = "options" /\ pc' = "dump"
    BY <1>2 DEF ParseOptions, dump, verdict, links
  <2>2. TypeOK' /\ Delayed'
    BY <1>2, <2>1 DEF IInv, TypeOK, Delayed, delay, BadOptions
  <2> QED BY <2>1, <2>2, StepKeeps DEF links
<1> QED BY <1>1, <1>2

\* A dump is asked for.
LEMMA RequestKeeps ==
    ASSUME IInv, Request
    PROVE  IInv'
<1>1. CASE netlink = "fails"
  BY <1>1, FailKeeps, Verdict DEF Request
<1>2. CASE netlink # "fails"
  <2>1. /\ UNCHANGED <<opt, snap, reply, list, pos, ninterfaces, status, exit,
                       netlink, life, link, events>>
        /\ pc = "dump" /\ pc' = "recv" /\ cursor' = 1
    BY <1>2 DEF Request, verdict, links
  <2>2. TypeOK' /\ Delayed'
    BY <2>1, NetAssumption DEF IInv, TypeOK, Delayed, delay, BadOptions
  <2> QED BY <2>1, <2>2, StepKeeps DEF links
<1> QED BY <1>1, <1>2

\* An error is skipped.
LEMMA ErrorIgnoredKeeps ==
    ASSUME IInv, ErrorIgnored
    PROVE  IInv'
<1>1. /\ UNCHANGED <<pc, opt, snap, reply, list, cursor, pos, ninterfaces, status, exit,
                     life, link, events>>
      /\ netlink' = "silent"
  BY DEF ErrorIgnored, dump, verdict, links
<1>2. TypeOK' /\ InThePast' /\ InOrder'
  BY SMTT(30), <1>1 DEF IInv, TypeOK, InThePast, InOrder
<1>3. Pairing' /\ Delayed'
  BY <1>1 DEF IInv, Pairing, Truncated, RatesBefore, Grown, RoundedUp, IsTruncated,
              Delayed, delay, BadOptions
<1> QED BY <1>2, <1>3 DEF IInv

\* A batch holds what the links have now.
LEMMA RecvKeeps ==
    ASSUME IInv, Recv
    PROVE  IInv'
<1>1. /\ UNCHANGED <<pc, opt, snap, list, pos, ninterfaces, status, exit, netlink, life,
                     link, events>>
      /\ pc = "recv" /\ reply = {}
  BY DEF Recv, verdict, links
<1>2. PICK last \in cursor .. LastIndex :
        /\ reply' = {[ix |-> n, flags |-> link[n].flags, stats |-> link[n].stats] :
                        n \in Present \cap cursor .. last}
        /\ cursor' = last + 1
  BY DEF Recv
<1>3. \A n \in Index : link[n] \in Link
  BY DEF IInv, TypeOK
<1>4. \A msg \in reply' : /\ msg \in Message /\ msg.ix \in Index
                          /\ msg.stats = link[msg.ix].stats
  BY <1>2, <1>3, RecordTypes DEF Message, Present
<1>5. TypeOK'
  BY <1>1, <1>2, <1>4, NetAssumption DEF IInv, TypeOK, Message
<1>6. InThePast'
  <2>1. \A n \in Index : Below(link[n].stats, link[n].stats)
    BY <1>3, RecordTypes, BelowFacts
  <2> QED BY <1>1, <1>4, <2>1 DEF IInv, InThePast
<1>7. InOrder'
  BY <1>1, <1>4 DEF IInv, InOrder, InThePast
<1>8. Pairing' /\ Delayed'
  BY <1>1 DEF IInv, Pairing, Truncated, IsTruncated, Delayed, delay, BadOptions
<1> QED BY <1>5, <1>6, <1>7, <1>8 DEF IInv

\* A message becomes the last entry of the list of its dump, or none.
LEMMA NewLinkKeeps ==
    ASSUME IInv, NewLink
    PROVE  IInv'
<1>1. /\ UNCHANGED <<pc, opt, snap, cursor, pos, ninterfaces, status, exit, netlink, life,
                     link, events>>
      /\ pc = "recv"
  BY DEF NewLink, verdict, links
<1>2. PICK msg \in reply :
        /\ reply' = reply \ {msg}
        /\ list' = IF Skip(msg) THEN list
                   ELSE [list EXCEPT ![snap] = Append(@, EntryOf(msg))]
  BY DEF NewLink
<1> DEFINE e == EntryOf(msg)
<1>3. msg \in Message
  BY DEF IInv, TypeOK, Message
<1>4. e \in Entry /\ IsTruncated(e) /\ e.ix = msg.ix /\ e.total = msg.stats
  BY <1>3, EntryType DEF IInv
<1>5. /\ list \in [{1, 2} -> Seq(Entry)] /\ list[1] \in Seq(Entry) /\ list[2] \in Seq(Entry)
      /\ snap \in {1, 2}
  BY DEF IInv, TypeOK
<1>6. Delayed'
  BY <1>1 DEF IInv, Delayed, delay, BadOptions
<1>7. \A l \in Seq(Entry) :
        /\ Append(l, e) \in Seq(Entry) /\ Len(Append(l, e)) = Len(l) + 1
        /\ DOMAIN Append(l, e) = DOMAIN l \cup {Len(l) + 1}
        /\ \A k \in DOMAIN l : Append(l, e)[k] = l[k]
        /\ Append(l, e)[Len(l) + 1] = e
  BY <1>4
<1> HIDE DEF e
<1>8. CASE Skip(msg)
  <2>1. list' = list /\ reply' \subseteq reply
    BY <1>2, <1>8
  <2>2. TypeOK' /\ InThePast' /\ InOrder'
    BY <1>1, <2>1 DEF IInv, TypeOK, InThePast, InOrder
  <2>3. Pairing'
    BY <1>1, <2>1 DEF IInv, Pairing, Truncated, IsTruncated
  <2> QED BY <1>6, <2>2, <2>3 DEF IInv
<1>9. CASE ~Skip(msg) /\ snap = 1
  <2>1. list'[1] = Append(list[1], e) /\ list'[2] = list[2] /\ list' \in [{1, 2} -> Seq(Entry)]
    BY <1>2, <1>5, <1>7, <1>9 DEF e
  <2>2. TypeOK'
    BY <1>1, <1>2, <2>1 DEF IInv, TypeOK
  <2>3. InThePast'
    BY <1>1, <1>2, <1>4, <1>5, <1>7, <2>1 DEF IInv, InThePast
  <2>4. InOrder'
    BY <1>1, <1>2, <1>9, <2>1 DEF IInv, InOrder
  <2>5. Pairing'
    <3>1. pos = 1 /\ ninterfaces = 0 /\ Truncated(1)
      BY <1>1 DEF IInv, Pairing
    <3>2. Truncated(1)'
      BY <1>4, <1>5, <1>7, <2>1, <3>1 DEF Truncated, IsTruncated
    <3> QED BY <1>1, <3>1, <3>2 DEF Pairing
  <2> QED BY <1>6, <2>2, <2>3, <2>4, <2>5 DEF IInv
<1>10. CASE ~Skip(msg) /\ snap = 2
  <2>1. list'[2] = Append(list[2], e) /\ list'[1] = list[1] /\ list' \in [{1, 2} -> Seq(Entry)]
    BY <1>2, <1>5, <1>7, <1>10 DEF e
  <2>2. TypeOK'
    BY <1>1, <1>2, <2>1 DEF IInv, TypeOK
  <2>3. InThePast'
    BY <1>1, <1>2, <2>1 DEF IInv, InThePast
  <2>4. InOrder'
    <3>1. \A k \in DOMAIN list[1] : list[1][k].ix = e.ix => Below(list[1][k].total, e.total)
      BY <1>4, <1>10 DEF IInv, InOrder
    <3>2. /\ DOMAIN list'[2] = DOMAIN list[2] \cup {Len(list[2]) + 1}
          /\ \A k \in DOMAIN list[2] : list'[2][k] = list[2][k]
          /\ list'[2][Len(list[2]) + 1] = e
      BY <1>5, <1>7, <2>1
    <3>3. \A k \in DOMAIN list[1], m \in DOMAIN list'[2] :
            list[1][k].ix = list'[2][m].ix => Below(list[1][k].total, list'[2][m].total)
      BY <3>1, <3>2 DEF IInv, InOrder
    <3> QED BY <1>1, <1>2, <1>10, <2>1, <3>3 DEF IInv, InOrder
  <2>5. Pairing'
    <3>1. pos = 1 /\ ninterfaces = 0 /\ Truncated(1)
      BY <1>1 DEF IInv, Pairing
    <3>2. Truncated(1)'
      BY <1>4, <1>5, <1>7, <2>1, <3>1 DEF Truncated, IsTruncated
    <3> QED BY <1>1, <3>1, <3>2 DEF Pairing
  <2> QED BY <1>6, <2>2, <2>3, <2>4, <2>5 DEF IInv
<1> QED BY <1>5, <1>8, <1>9, <1>10

\* There is no socket.
LEMMA NoSocketKeeps ==
    ASSUME IInv, NoSocket
    PROVE  IInv'
<1>1. /\ UNCHANGED <<opt, snap, reply, list, cursor, pos, ninterfaces, status, life, link,
                     events>>
      /\ pc' = "exited" /\ exit' = STATE_UNKNOWN /\ netlink' = "no_socket"
  BY DEF NoSocket, dump, links
<1>2. TypeOK' /\ InThePast' /\ InOrder'
  BY SMTT(30), <1>1, Verdict DEF IInv, TypeOK, InThePast, InOrder
<1>3. Pairing' /\ Delayed'
  BY <1>1 DEF IInv, Pairing, Delayed, delay
<1> QED BY <1>2, <1>3 DEF IInv

\* A dump ends.
LEMMA DoneKeeps ==
    ASSUME IInv, Done
    PROVE  IInv'
<1>1. /\ UNCHANGED <<opt, snap, reply, list, cursor, pos, ninterfaces, status, netlink, life,
                     link, events>>
      /\ pc = "recv" /\ reply = {}
  BY DEF Done, dump, verdict, links
<1>2. \/ snap = 1 /\ delay = 0 /\ pc' = "exited" /\ exit' = STATE_UNKNOWN
      \/ snap = 1 /\ delay # 0 /\ pc' = "sleep" /\ exit' = exit
      \/ snap = 2 /\ pc' = "pair" /\ exit' = exit
  BY DEF Done, verdict, IInv, TypeOK
<1>3. TypeOK'
  BY <1>1, <1>2, Verdict DEF IInv, TypeOK
<1>4. InThePast' /\ InOrder'
  BY <1>1 DEF IInv, InThePast, InOrder
<1>5. Delayed'
  BY <1>1, <1>2 DEF IInv, Delayed, delay, BadOptions
<1>6. Pairing'
  <2>1. pos = 1 /\ ninterfaces = 0 /\ Truncated(1)
    BY <1>1 DEF IInv, Pairing
  <2>2. Len(list[1]) \in Nat /\ Len(list[2]) \in Nat
    BY DEF IInv, TypeOK
  <2>3. RatesBefore(1)' /\ Truncated(1)'
    BY <1>1, <2>1 DEF RatesBefore, Truncated, IsTruncated
  <2> QED BY <1>1, <1>2, <2>1, <2>2, <2>3 DEF Pairing
<1> QED BY <1>3, <1>4, <1>5, <1>6 DEF IInv

\* The second dump begins.
LEMMA WakeKeeps ==
    ASSUME IInv, Wake
    PROVE  IInv'
<1>1. /\ UNCHANGED <<opt, reply, list, cursor, pos, ninterfaces, status, exit, netlink, life,
                     link, events>>
      /\ pc = "sleep" /\ pc' = "dump" /\ snap' = 2
  BY DEF Wake, verdict, links
<1>2. TypeOK' /\ Delayed'
  BY <1>1 DEF IInv, TypeOK, Delayed, delay, BadOptions
<1> QED BY <1>1, <1>2, StepKeeps DEF links

\* The counters of the pair at pos become its rates.
LEMMA PairKeeps ==
    ASSUME IInv, Pair
    PROVE  IInv'
<1> DEFINE a == list[1][pos]
           b == list[2][pos]
<1>0. pc = "pair" /\ Paired
  BY DEF Pair
<1>1. CASE Fail(STATE_UNKNOWN) \/ Fail(STATE_CRITICAL)
  BY <1>0, <1>1, FailKeeps, Verdict
<1>2. CASE /\ list' = [list EXCEPT ![1][pos].stats =
                         [tx |-> DIV(a.stats.tx, b.stats.tx), rx |-> DIV(a.stats.rx, b.stats.rx)]]
           /\ pos' = pos + 1 /\ ninterfaces' = ninterfaces + 1
           /\ UNCHANGED <<pc, opt, snap, reply, cursor, verdict, netlink, links>>
  <2> DEFINE r == [tx |-> DIV(a.stats.tx, b.stats.tx), rx |-> DIV(a.stats.rx, b.stats.rx)]
             e == [a EXCEPT !.stats = r]
  <2>1. /\ UNCHANGED <<pc, opt, snap, reply, cursor, status, exit, netlink, life, link, events>>
        /\ pos' = pos + 1 /\ ninterfaces' = ninterfaces + 1
        /\ list' = [list EXCEPT ![1] = [@ EXCEPT ![pos] = e]]
    BY <1>2 DEF verdict, links
  <2>2. /\ list \in [{1, 2} -> Seq(Entry)] /\ list[1] \in Seq(Entry) /\ list[2] \in Seq(Entry)
        /\ pos \in Nat \ {0} /\ pos \in DOMAIN list[1] /\ pos \in DOMAIN list[2]
        /\ Len(list[1]) \in Nat /\ Len(list[2]) \in Nat
        /\ DOMAIN list[1] = 1 .. Len(list[1]) /\ DOMAIN list[2] = 1 .. Len(list[2])
    BY <1>0 DEF IInv, TypeOK, Paired
  <2>3. a \in Entry /\ b \in Entry
    BY <2>2
  <2>4. delay \in Nat \ {0}
    BY <1>0, DelayType DEF IInv, Delayed
  <2>5. r \in Counts(Uint)
    <3>1. /\ a.stats.tx \in Uint /\ b.stats.tx \in Uint
          /\ a.stats.rx \in Uint /\ b.stats.rx \in Uint
      BY <2>3, RecordTypes
    <3>2. DIV(a.stats.tx, b.stats.tx) \in Uint /\ DIV(a.stats.rx, b.stats.rx) \in Uint
      BY <2>4, <3>1, DivType
    <3> QED BY <3>2 DEF Counts
  <2>6. ninterfaces = pos - 1 /\ Truncated(pos) /\ RatesBefore(pos)
    BY <1>0 DEF IInv, Pairing
  <2>7. a.ix = b.ix => Below(a.total, b.total)
    BY <2>2 DEF IInv, InOrder
  <2>8. IsTruncated(a) /\ IsTruncated(b)
    BY <2>2, <2>6 DEF Truncated
  <2>9. \A f \in {"tx", "rx"} : a.ix = b.ix /\ b.total[f] - a.total[f] < UintMod
          => RoundedUp(r[f], b.total[f] - a.total[f])
    <3>1. /\ a.total.tx \in Nat /\ b.total.tx \in Nat
          /\ a.total.rx \in Nat /\ b.total.rx \in Nat
      BY <2>3, RecordTypes
    <3>2. /\ r.tx = DIV(uint(a.total.tx), uint(b.total.tx))
          /\ r.rx = DIV(uint(a.total.rx), uint(b.total.rx))
      BY <2>8 DEF IsTruncated
    <3> HIDE DEF a, b, r
    <3>3. ASSUME a.ix = b.ix, b.total.tx - a.total.tx < UintMod
          PROVE  RoundedUp(r.tx, b.total.tx - a.total.tx)
      BY <2>4, <2>7, <3>1, <3>2, <3>3, DivExact DEF Below
    <3>4. ASSUME a.ix = b.ix, b.total.rx - a.total.rx < UintMod
          PROVE  RoundedUp(r.rx, b.total.rx - a.total.rx)
      BY <2>4, <2>7, <3>1, <3>2, <3>4, DivExact DEF Below
    <3> QED BY <3>3, <3>4
  <2> HIDE DEF r
  <2>10. e \in Entry /\ e.stats = r /\ e.ix = a.ix /\ e.total = a.total
    BY <2>3, <2>5 DEF Entry
  <2> HIDE DEF e
  <2>11. /\ list' \in [{1, 2} -> Seq(Entry)] /\ list'[2] = list[2]
         /\ Len(list'[1]) = Len(list[1]) /\ DOMAIN list'[1] = DOMAIN list[1]
         /\ list'[1][pos] = e /\ \A k \in DOMAIN list[1] \ {pos} : list'[1][k] = list[1][k]
    <3> DEFINE l == [list[1] EXCEPT ![pos] = e]
    <3>1. /\ l \in Seq(Entry) /\ Len(l) = Len(list[1]) /\ DOMAIN l = DOMAIN list[1]
          /\ l[pos] = e /\ \A k \in DOMAIN list[1] \ {pos} : l[k] = list[1][k]
      BY <2>2, <2>10
    <3>2. list' = [list EXCEPT ![1] = l]
      BY <2>1
    <3> HIDE DEF l
    <3> QED BY <2>2, <3>1, <3>2
  <2>12. \A k \in DOMAIN list[1] : /\ list'[1][k].ix = list[1][k].ix
                                   /\ list'[1][k].total = list[1][k].total
    BY <2>10, <2>11
  <2>13. TypeOK'
    BY <2>1, <2>2, <2>6, <2>11 DEF IInv, TypeOK
  <2>14. InThePast' /\ InOrder'
    BY <2>1, <2>11, <2>12 DEF IInv, InThePast, InOrder
  <2>15. Delayed'
    BY <2>1 DEF IInv, Delayed, delay, BadOptions
  <2>16. Truncated(pos)'
    <3>1. ASSUME NEW k \in DOMAIN list[1], pos + 1 <= k
          PROVE  list'[1][k] = list[1][k] /\ pos <= k
      BY <2>2, <2>11, <3>1
    <3>2. \A k \in DOMAIN list'[1] : pos + 1 <= k => IsTruncated(list'[1][k])
      BY <2>6, <2>11, <3>1 DEF Truncated
    <3>3. \A k \in DOMAIN list'[2] : IsTruncated(list'[2][k])
      BY <2>6, <2>11 DEF Truncated
    <3> QED BY <2>1, <3>2, <3>3 DEF Truncated, IsTruncated
  <2>17. RatesBefore(pos)'
    <3>1. delay' = delay
      BY <2>1 DEF delay
    <3> SUFFICES ASSUME NEW p \in 1 .. pos, NEW f \in {"tx", "rx"},
                        list'[1][p].ix = list'[2][p].ix, Grown(p, f)' < UintMod
                 PROVE  RoundedUp(list[1][p].stats[f], Grown(p, f))'
      BY <2>1, <2>2 DEF RatesBefore
    <3>2. p \in DOMAIN list[1]
      BY <2>2
    <3>3. Grown(p, f)' = Grown(p, f) /\ list[1][p].ix = list[2][p].ix
      BY <2>11, <2>12, <3>2 DEF Grown
    <3>4. CASE p = pos
      BY <2>9, <2>10, <2>11, <3>1, <3>3, <3>4 DEF Grown, RoundedUp
    <3>5. CASE p # pos
      <4>1. p \in 1 .. pos - 1
        BY <2>2, <3>5
      <4>2. list'[1][p] = list[1][p]
        BY <2>11, <3>2, <3>5
      <4>3. RoundedUp(list[1][p].stats[f], Grown(p, f))
        BY <2>6, <3>3, <4>1 DEF RatesBefore
      <4> QED BY <3>1, <3>3, <4>2, <4>3 DEF RoundedUp
    <3> QED BY <3>4, <3>5
  <2>18. Pairing'
    BY <1>0, <2>1, <2>2, <2>6, <2>11, <2>16, <2>17 DEF Pairing
  <2> QED BY <2>13, <2>14, <2>15, <2>18 DEF IInv
<1> QED BY <1>1, <1>2 DEF Pair

\* One of the lists is at its end.
LEMMA PairsDoneKeeps ==
    ASSUME IInv, PairsDone
    PROVE  IInv'
<1>1. CASE ~opt.ranges_ok
  BY <1>1, FailKeeps, Verdict DEF PairsDone
<1>2. CASE opt.ranges_ok
  <2>1. /\ UNCHANGED <<opt, snap, reply, list, cursor, ninterfaces, status, exit, netlink, life,
                       link, events>>
        /\ pc = "pair" /\ pc' = "judge" /\ pos' = 1
    BY <1>2 DEF PairsDone, dump, verdict, links
  <2>2. TypeOK' /\ InThePast' /\ InOrder'
    BY <2>1 DEF IInv, TypeOK, InThePast, InOrder
  <2>3. Delayed'
    BY <2>1 DEF IInv, Delayed, delay, BadOptions
  <2>4. pos = ninterfaces + 1 /\ RatesBefore(pos) /\ pos \in Nat
        /\ pos <= Len(list[1]) + 1 /\ pos <= Len(list[2]) + 1
    BY <2>1 DEF IInv, TypeOK, Pairing
  <2>5. RatesBefore(ninterfaces + 1)'
    BY SMTT(30), <2>1, <2>4 DEF RatesBefore, Grown, RoundedUp, delay
  <2>6. Len(list[1]) \in Nat /\ Len(list[2]) \in Nat /\ ninterfaces \in Nat
    BY DEF IInv, TypeOK
  <2>7. Pairing'
    BY <2>1, <2>4, <2>5, <2>6 DEF Pairing
  <2> QED BY <2>2, <2>3, <2>7 DEF IInv
<1> QED BY <1>1, <1>2

\* A link is judged.
LEMMA JudgeKeeps ==
    ASSUME IInv, Judge
    PROVE  IInv'
<1> DEFINE e == list[1][pos]
<1>0. pc = "judge"
  BY DEF Judge
<1>1. CASE Fail(STATE_UNKNOWN)
  BY <1>0, <1>1, FailKeeps, Verdict
<1>2. CASE /\ status' = Worse(status, iface_status(e)) /\ pos' = pos + 1
           /\ UNCHANGED <<pc, opt, dump, ninterfaces, exit, netlink, links>>
  <2>1. UNCHANGED <<pc, opt, snap, reply, list, cursor, ninterfaces, exit, netlink, life, link,
                    events>>
    BY <1>2 DEF dump, links
  <2>2. status' \in Statuses
    BY <1>2, StatusType DEF IInv, TypeOK, Worse
  <2>3. TypeOK' /\ InThePast' /\ InOrder'
    BY <1>2, <2>1, <2>2 DEF IInv, TypeOK, InThePast, InOrder
  <2>4. Pairing' /\ Delayed'
    BY <1>0, <2>1 DEF IInv, Pairing, RatesBefore, Grown, RoundedUp, Delayed, delay, BadOptions
  <2> QED BY <2>3, <2>4 DEF IInv
<1> QED BY <1>1, <1>2 DEF Judge

\* The verdict is given.
LEMMA ReturnKeeps ==
    ASSUME IInv, Return
    PROVE  IInv'
<1>1. /\ UNCHANGED <<opt, snap, reply, list, cursor, pos, ninterfaces, status, netlink, life,
                     link, events>>
      /\ pc = "judge" /\ pc' = "exited" /\ exit' \in Statuses
  BY Verdict DEF Return, dump, links, IInv, TypeOK
<1>2. TypeOK' /\ InThePast' /\ Pairing'
  BY <1>1 DEF IInv, TypeOK, InThePast, Pairing
<1>3. InOrder' /\ Delayed'
  BY <1>1 DEF IInv, InOrder, Delayed, delay
<1> QED BY <1>2, <1>3 DEF IInv

-----------------------------------------------------------------------------
(* The theorems *)

THEOREM Inductive == Spec => []IInv
<1>1. IInv /\ [Next]_vars => IInv'
  <2> SUFFICES ASSUME IInv, [Next]_vars PROVE IInv'
    OBVIOUS
  <2>1. CASE Kernel
    BY <2>1, KernelKeeps
  <2>2. CASE Plugin
    BY <2>2, ParseOptionsKeeps, RequestKeeps, ErrorIgnoredKeeps, RecvKeeps, NewLinkKeeps,
       NoSocketKeeps, DoneKeeps, WakeKeeps, PairKeeps, PairsDoneKeeps, JudgeKeeps, ReturnKeeps DEF Plugin
  <2>3. CASE UNCHANGED vars
    <3>1. UNCHANGED <<pc, opt, snap, reply, list, cursor, pos, ninterfaces, status, exit,
                      netlink, life, link, events>>
      BY <2>3 DEF vars, dump, verdict, links
    <3>2. TypeOK' /\ InThePast' /\ InOrder'
      BY SMTT(30), <3>1 DEF IInv, TypeOK, InThePast, InOrder
    <3>3. Pairing' /\ Delayed'
      BY <3>1 DEF IInv, Pairing, Truncated, RatesBefore, Grown, RoundedUp, IsTruncated,
                  Delayed, delay, BadOptions
    <3> QED BY <3>2, <3>3 DEF IInv
  <2> QED BY <2>1, <2>2, <2>3 DEF Next
<1> QED BY <1>1, InitIInv, PTL DEF Spec

\* Type correctness of check_network.
THEOREM TypeCorrect == Spec => []TypeOK
<1>1. IInv => TypeOK
  BY DEF IInv
<1> QED BY <1>1, Inductive, PTL

\* check_network: the rate of a link in both dumps is the growth of its own counters by
\* the second, however often links come and go between the steps of a dump.
THEOREM RatesAreExact == Spec => []RatesExact
<1>1. IInv => RatesExact
  <2> SUFFICES ASSUME IInv, pc = "judge" PROVE RatesExact
    BY DEF RatesExact
  <2>1. RatesBefore(ninterfaces + 1) /\ ninterfaces \in Nat
    BY DEF IInv, TypeOK, Pairing
  <2>2. 1 .. (ninterfaces + 1) - 1 = 1 .. ninterfaces
    BY <2>1
  <2> QED BY <2>1, <2>2 DEF RatesBefore, RatesExact
<1> QED BY <1>1, Inductive, PTL
-----------------------------------------------------------------------------
(* The two dumps *)

\* What a link is, but for RUNNING and its counts, it remains; one that was there from the
\* start has appeared.
Stable ==
    /\ \A n \in Index :
         /\ link[n].wireless = LinkOf[n].wireless
         /\ "LOOPBACK" \in link[n].flags <=> "LOOPBACK" \in LinkOf[n].flags
    /\ \A n \in AtBoot : life[n] # "unborn"

\* A list of the links asked for among those of S, in the order of their indices.
Holds(l, S) ==
    /\ \A j, k \in DOMAIN l : j < k => l[j].ix < l[k].ix
    /\ {l[k].ix : k \in DOMAIN l} = Wanted \cap S

\* The links the dump has passed, and whose message has been handled.
Handled == {n \in AtBoot : n < cursor /\ \A msg \in reply : msg.ix # n}

\* A batch has one message a link, of those passed, and the list has none of them yet.
Batch ==
    \A msg \in reply :
        /\ msg.ix \in AtBoot /\ msg.ix < cursor
        /\ "LOOPBACK" \in msg.flags <=> "LOOPBACK" \in LinkOf[msg.ix].flags
        /\ \A m \in reply : m.ix = msg.ix => m = msg
        /\ \A k \in DOMAIN list[snap] : list[snap][k].ix < msg.ix

\* What the lists hold at each place of the program.
Dumped ==
    /\ pc \in {"options", "dump"} => list[snap] = <<>>
    /\ pc = "sleep" => snap = 1
    /\ pc = "recv" => Batch /\ Holds(list[snap], Handled)
    /\ snap = 2 \/ pc \in {"sleep", "pair", "judge"} \/ ninterfaces > 0
         => Holds(list[1], AtBoot)
    /\ pc \in {"pair", "judge"} \/ ninterfaces > 0 => Holds(list[2], AtBoot)

\* The inductive invariant of the two dumps.
AgreeInv == IInv /\ Stable /\ (Quiet => Dumped)

\* If no link has come or gone after a step, none had before.
LEMMA QuietBefore ==
    ASSUME TypeOK, Stable, [Next]_vars
    PROVE  Stable' /\ (Quiet' => Quiet /\ life' = life)
<1>0. /\ life \in [Index -> {"unborn", "present", "gone"}] /\ link \in [Index -> Link]
      /\ AtBoot \subseteq Index /\ Present \subseteq Index
      /\ \A n \in Index : link[n] \in Link
  BY NetAssumption DEF TypeOK, Present
<1>1. CASE UNCHANGED links
  BY <1>1 DEF links, Stable, Quiet
<1>2. CASE Traffic
  <2>. PICK n \in Present :
         \E s : link' = [link EXCEPT ![n].stats = s] /\ life' = life
    BY <1>2 DEF Traffic
  <2>1. PICK s : link' = [link EXCEPT ![n].stats = s] /\ life' = life
    OBVIOUS
  <2>2. \A m \in Index : /\ link'[m].wireless = link[m].wireless
                         /\ link'[m].flags = link[m].flags
    <3>1. /\ [link[n] EXCEPT !.stats = s].wireless = link[n].wireless
          /\ [link[n] EXCEPT !.stats = s].flags = link[n].flags
      BY <1>0 DEF Link
    <3>2. link' = [link EXCEPT ![n] = [link[n] EXCEPT !.stats = s]]
      BY <2>1
    <3> QED BY <1>0, <3>1, <3>2
  <2> QED BY <2>1, <2>2 DEF Stable, Quiet
<1>3. CASE Carrier
  <2>1. PICK n \in Present :
          /\ link' = [link EXCEPT ![n].flags =
                        IF "RUNNING" \in @ THEN @ \ {"RUNNING"} ELSE @ \cup {"RUNNING"}]
          /\ life' = life
    BY <1>3 DEF Carrier
  <2>2. PICK h : h = IF "RUNNING" \in link[n].flags THEN link[n].flags \ {"RUNNING"}
                     ELSE link[n].flags \cup {"RUNNING"}
    OBVIOUS
  <2>3. "LOOPBACK" \in h <=> "LOOPBACK" \in link[n].flags
    BY <2>2
  <2>4. link' = [link EXCEPT ![n] = [link[n] EXCEPT !.flags = h]]
    BY <2>1, <2>2
  <2>5. /\ [link[n] EXCEPT !.flags = h].wireless = link[n].wireless
        /\ [link[n] EXCEPT !.flags = h].flags = h
    BY <1>0 DEF Link
  <2>6. \A m \in Index :
          /\ link'[m].wireless = link[m].wireless
          /\ "LOOPBACK" \in link'[m].flags <=> "LOOPBACK" \in link[m].flags
    BY <1>0, <2>3, <2>4, <2>5
  <2> QED BY <2>1, <2>6 DEF Stable, Quiet
<1>4. CASE Appear
  <2>1. PICK n \in Index : life[n] = "unborn" /\ life' = [life EXCEPT ![n] = "present"]
    BY <1>4 DEF Appear
  <2>2. link' = link /\ life'[n] = "present" /\ n \notin AtBoot
    BY <1>0, <1>4, <2>1 DEF Appear, Stable
  <2>3. \A m \in AtBoot : life'[m] # "unborn"
    BY <1>0, <2>1, <2>2 DEF Stable
  <2> QED BY <2>2, <2>3 DEF Stable, Quiet
<1>5. CASE Vanish
  <2>1. PICK n \in Index : life' = [life EXCEPT ![n] = "gone"]
    BY <1>0, <1>5 DEF Vanish
  <2>2. link' = link /\ life'[n] = "gone"
    BY <1>0, <1>5, <2>1 DEF Vanish
  <2>3. \A m \in AtBoot : life'[m] # "unborn"
    BY <1>0, <2>1 DEF Stable
  <2> QED BY <2>2, <2>3 DEF Stable, Quiet
<1>6. CASE Plugin
  <2>1. UNCHANGED links
    BY <1>6 DEF Plugin, ParseOptions, Request, ErrorIgnored, Recv, NewLink, NoSocket,
       Done, Wake, Pair, PairsDone, Judge, Return, Fail
  <2> QED BY <1>1, <2>1
<1>7. CASE UNCHANGED vars
  BY <1>1, <1>7 DEF vars
<1> QED BY <1>2, <1>3, <1>4, <1>5, <1>6, <1>7 DEF Next, Kernel

\* The links that are not asked for are those whose message is skipped.
LEMMA SkipsUnwanted ==
    ASSUME TypeOK, Stable, Quiet, Batch, NEW msg \in reply
    PROVE  Skip(msg) <=> msg.ix \notin Wanted
<1>1. Present = AtBoot /\ AtBoot \subseteq Index
  BY NetAssumption DEF Present, Quiet
<1>2. msg.ix \in AtBoot /\ ("LOOPBACK" \in msg.flags <=> "LOOPBACK" \in LinkOf[msg.ix].flags)
  BY DEF Batch
<1> DEFINE name == NameOf[msg.ix]
<1>3. Ioctl(name) = link[msg.ix]
  <2>1. (CHOOSE n \in Present : NameOf[n] = name) = msg.ix
    BY <1>1, <1>2, NetAssumption
  <2> QED BY <1>1, <1>2, <2>1 DEF Ioctl
<1>4. link[msg.ix] \in Link /\ link[msg.ix] # NULL
  BY <1>1, <1>2, NetAssumption DEF TypeOK
<1>5. link_wireless(name) = LinkOf[msg.ix].wireless
  <2>1. LinkOf[msg.ix].wireless \in BOOLEAN
    BY <1>1, <1>2, NetAssumption DEF Link
  <2>2. link[msg.ix].wireless = LinkOf[msg.ix].wireless
    BY <1>1, <1>2 DEF Stable
  <2> QED BY <1>3, <1>4, <2>1, <2>2 DEF link_wireless
<1> QED BY <1>2, <1>5, Zenon DEF Skip, Wanted

\* Two lists of the same links are the same list of indices.
LEMMA SameIndices ==
    ASSUME NEW l \in Seq(Entry), NEW m \in Seq(Entry), NEW S, Holds(l, S), Holds(m, S)
    PROVE  IndicesOf(l) = IndicesOf(m)
<1>1. /\ Len(l) \in Nat /\ DOMAIN l = 1 .. Len(l) /\ Len(m) \in Nat /\ DOMAIN m = 1 .. Len(m)
      /\ \A k \in DOMAIN l : l[k].ix \in Int
      /\ \A k \in DOMAIN m : m[k].ix \in Int
  <2>1. /\ Len(l) \in Nat /\ DOMAIN l = 1 .. Len(l) /\ Len(m) \in Nat /\ DOMAIN m = 1 .. Len(m)
        /\ \A k \in DOMAIN l : l[k] \in Entry
        /\ \A k \in DOMAIN m : m[k] \in Entry
    OBVIOUS
  <2>2. \A e \in Entry : e.ix \in Int
    BY NetAssumption DEF Entry, Index
  <2> QED BY <2>1, <2>2
<1> DEFINE a == IndicesOf(l)
           b == IndicesOf(m)
<1>2. /\ DOMAIN a = 1 .. Len(l) /\ DOMAIN b = 1 .. Len(m)
      /\ \A k \in DOMAIN a : a[k] = l[k].ix
      /\ \A k \in DOMAIN b : b[k] = m[k].ix
      /\ a = [k \in 1 .. Len(l) |-> a[k]] /\ b = [k \in 1 .. Len(m) |-> b[k]]
  BY <1>1 DEF IndicesOf
<1>3. /\ \A j, k \in DOMAIN a : j < k => a[j] < a[k]
      /\ \A j, k \in DOMAIN b : j < k => b[j] < b[k]
      /\ \A k \in DOMAIN a : a[k] \in Int /\ \E j \in DOMAIN b : b[j] = a[k]
      /\ \A k \in DOMAIN b : b[k] \in Int /\ \E j \in DOMAIN a : a[j] = b[k]
  <2>1. {l[k].ix : k \in DOMAIN l} = {m[k].ix : k \in DOMAIN m}
    BY DEF Holds
  <2>2. \A k \in DOMAIN l : \E j \in DOMAIN m : m[j].ix = l[k].ix
    BY <2>1
  <2>3. \A k \in DOMAIN m : \E j \in DOMAIN l : l[j].ix = m[k].ix
    BY <2>1
  <2>4. /\ \A j, k \in DOMAIN l : j < k => l[j].ix < l[k].ix
        /\ \A j, k \in DOMAIN m : j < k => m[j].ix < m[k].ix
    BY DEF Holds
  <2>5. DOMAIN a = DOMAIN l /\ DOMAIN b = DOMAIN m
    BY <1>1, <1>2
  <2> HIDE DEF a, b
  <2>6. /\ \A j, k \in DOMAIN a : j < k => a[j] < a[k]
        /\ \A j, k \in DOMAIN b : j < k => b[j] < b[k]
    <3>1. ASSUME NEW j \in DOMAIN a, NEW k \in DOMAIN a, j < k PROVE a[j] < a[k]
      <4>1. a[j] = l[j].ix /\ a[k] = l[k].ix /\ l[j].ix < l[k].ix
        BY <1>2, <2>4, <2>5, <3>1
      <4> QED BY <4>1
    <3>2. ASSUME NEW j \in DOMAIN b, NEW k \in DOMAIN b, j < k PROVE b[j] < b[k]
      <4>1. b[j] = m[j].ix /\ b[k] = m[k].ix /\ m[j].ix < m[k].ix
        BY <1>2, <2>4, <2>5, <3>2
      <4> QED BY <4>1
    <3> QED BY <3>1, <3>2
  <2>7. \A k \in DOMAIN a : a[k] \in Int /\ \E j \in DOMAIN b : b[j] = a[k]
    BY <1>1, <1>2, <2>2, <2>5
  <2>8. \A k \in DOMAIN b : b[k] \in Int /\ \E j \in DOMAIN a : a[j] = b[k]
    BY <1>1, <1>2, <2>3, <2>5
  <2> QED BY <2>6, <2>7, <2>8
<1> HIDE DEF a, b
<1>4. \A k \in DOMAIN a : k \in DOMAIN b /\ a[k] = b[k]
  <2> DEFINE D == {k \in DOMAIN a : ~(k \in DOMAIN b /\ a[k] = b[k])}
  <2> SUFFICES ASSUME D # {} PROVE FALSE
    OBVIOUS
  <2>1. PICK k \in D : \A j \in D : k <= j
    <3>1. D \subseteq Nat
      BY <1>1, <1>2
    <3> HIDE DEF D
    <3> QED BY <3>1, LeastNumber
  <2>2. ASSUME NEW j \in DOMAIN a, j < k
        PROVE  j \in DOMAIN b /\ a[j] = b[j]
    <3>1. j \in Nat /\ k \in Nat
      BY <1>1, <1>2
    <3>2. j \notin D
      <4> HIDE DEF D
      <4> QED BY <2>1, <2>2, <3>1
    <3> QED BY <3>2
  <2>3. PICK j \in DOMAIN b : b[j] = a[k]
    BY <1>3
  <2>4. j # k
    BY <2>3
  <2>5. ~(j < k)
    <3> SUFFICES ASSUME j < k PROVE FALSE
      OBVIOUS
    <3>1. j \in DOMAIN a
      BY <1>1, <1>2
    <3>2. a[j] = a[k] /\ a[j] < a[k] /\ a[k] \in Int
      BY <1>3, <2>2, <2>3, <3>1
    <3> QED BY <3>2
  <2>6. k < j /\ k \in DOMAIN b
    BY <1>1, <1>2, <2>4, <2>5
  <2>7. b[k] < a[k]
    BY <1>3, <2>3, <2>6
  <2>8. PICK i \in DOMAIN a : a[i] = b[k]
    BY <1>3, <2>6
  <2>9. i < k
    <3>1. ~(k < i)
      BY <1>3, <2>7, <2>8
    <3>2. i # k
      BY <1>3, <2>7, <2>8
    <3> QED BY <1>1, <1>2, <3>1, <3>2
  <2>10. i \in DOMAIN b /\ b[i] = a[i] /\ b[i] < b[k]
    BY <1>3, <2>2, <2>6, <2>9
  <2>11. PICK x \in Int : x = b[k] /\ x < x
    BY <1>3, <2>6, <2>8, <2>10
  <2> QED BY <2>11
<1>5. Len(l) = Len(m)
  <2>1. Len(l) <= Len(m)
    <3>1. CASE Len(l) = 0
      BY <1>1, <3>1
    <3>2. CASE Len(l) # 0
      <4>1. Len(l) \in DOMAIN a
        BY <1>1, <1>2, <3>2
      <4>2. Len(l) \in 1 .. Len(m)
        BY <1>2, <1>4, <4>1
      <4> QED BY <1>1, <4>2
    <3> QED BY <3>1, <3>2
  <2>2. ~(Len(l) < Len(m))
    <3> SUFFICES ASSUME Len(l) < Len(m) PROVE FALSE
      OBVIOUS
    <3>1. Len(m) \in DOMAIN b
      BY <1>1, <1>2
    <3>2. PICK j \in DOMAIN a : a[j] = b[Len(m)]
      BY <1>3, <3>1
    <3>3. j < Len(m) /\ j \in DOMAIN b /\ b[j] = b[Len(m)]
      <4>1. j \in 1 .. Len(l)
        BY <1>2
      <4> QED BY <1>1, <1>4, <3>2, <4>1
    <3>4. b[j] < b[Len(m)] /\ b[j] \in Int
      BY <1>3, <3>1, <3>3
    <3>5. PICK x \in Int : x < x
      BY SMTT(30), <3>3, <3>4
    <3> QED BY <3>5
  <2>3. PICK x, y \in Nat : x = Len(l) /\ y = Len(m)
    BY <1>1, Zenon
  <2>4. x <= y /\ ~(x < y)
    BY <2>1, <2>2, <2>3
  <2> QED BY <2>3, <2>4
<1>6. a = b
  BY <1>2, <1>4, <1>5
<1> QED BY <1>6 DEF a, b

\* The two dumps of a step that leaves the lists alone, and ends or goes on to judge.
LEMMA StillDumped ==
    ASSUME IInv, Dumped, UNCHANGED <<opt, snap, reply, list, cursor>>,
           \/ pc' = pc /\ ninterfaces' = ninterfaces
           \/ pc' = "exited" /\ ninterfaces' = ninterfaces
           \/ pc = "options" /\ pc' = "dump" /\ ninterfaces' = ninterfaces
           \/ pc = "pair" /\ pc' \in {"pair", "judge"}
    PROVE  Dumped'
<1>1. Wanted' = Wanted /\ Handled' = Handled
  BY DEF Wanted, Handled
<1>2. \A l, S : Holds(l, S)' <=> Holds(l, S)
  BY DEF Holds, Wanted
<1>3. pc = "recv" /\ pc' = "recv" => Batch' /\ Holds(list[snap], Handled)'
  BY <1>1 DEF Dumped, Batch, Holds
<1>4. /\ Holds(list[1], AtBoot) => Holds(list[1], AtBoot)'
      /\ Holds(list[2], AtBoot) => Holds(list[2], AtBoot)'
  BY <1>1 DEF Holds
<1> QED BY <1>3, <1>4 DEF Dumped

\* A dump begins with nothing.
LEMMA RequestDumps ==
    ASSUME IInv, Dumped, Request
    PROVE  Dumped'
<1>1. CASE netlink = "fails"
  BY <1>1, StillDumped DEF Request, Fail, dump
<1>2. CASE netlink # "fails"
  <2>1. /\ UNCHANGED <<opt, snap, reply, list, ninterfaces>>
        /\ pc = "dump" /\ pc' = "recv" /\ cursor' = 1
    BY <1>2 DEF Request
  <2>2. list[snap] = <<>> /\ reply = {}
    BY <2>1 DEF Dumped, IInv, InOrder
  <2>3. Handled' = {}
    <3>1. \A n \in AtBoot : ~(n < 1)
      BY NetAssumption DEF Index
    <3> QED BY <2>1, <3>1 DEF Handled
  <2>4. Wanted' = Wanted
    BY <2>1 DEF Wanted
  <2>5. Batch' /\ Holds(list[snap], Handled)'
    BY <2>1, <2>2, <2>3 DEF Batch, Holds
  <2>6. snap = 2 \/ ninterfaces > 0 => Holds(list[1], AtBoot)'
    BY <2>1, <2>4 DEF Dumped, Holds
  <2>7. ~(ninterfaces > 0)
    BY <2>1 DEF IInv, Pairing
  <2> QED BY <2>1, <2>5, <2>6, <2>7 DEF Dumped
<1> QED BY <1>1, <1>2

\* A batch leaves handled what was.
LEMMA RecvDumps ==
    ASSUME IInv, Stable, Quiet, Dumped, Recv
    PROVE  Dumped'
<1>1. /\ UNCHANGED <<pc, opt, snap, list, ninterfaces>> /\ pc = "recv" /\ reply = {}
  BY DEF Recv
<1>2. PICK last \in cursor .. LastIndex :
        /\ reply' = {[ix |-> n, flags |-> link[n].flags, stats |-> link[n].stats] :
                        n \in Present \cap cursor .. last}
        /\ cursor' = last + 1
  BY DEF Recv
<1>3. /\ Present = AtBoot /\ AtBoot \subseteq Nat /\ AtBoot \subseteq Index
      /\ cursor \in Nat /\ last \in Nat
  <2>1. AtBoot \subseteq Index /\ Index \subseteq Nat
    BY NetAssumption DEF Index
  <2>2. Present = AtBoot
    BY <2>1 DEF Present, Quiet
  <2>3. cursor \in Nat /\ last \in Nat
    BY NetAssumption DEF IInv, TypeOK
  <2> QED BY <2>1, <2>2, <2>3
<1>4. \A msg \in reply' : /\ msg.ix \in AtBoot \cap cursor .. last
                          /\ msg.flags = link[msg.ix].flags
                          /\ msg.stats = link[msg.ix].stats
                          /\ msg = [ix |-> msg.ix, flags |-> msg.flags, stats |-> msg.stats]
  <2> SUFFICES ASSUME NEW msg \in reply'
               PROVE  /\ msg.ix \in AtBoot \cap cursor .. last
                      /\ msg.flags = link[msg.ix].flags
                      /\ msg.stats = link[msg.ix].stats
                      /\ msg = [ix |-> msg.ix, flags |-> msg.flags, stats |-> msg.stats]
    OBVIOUS
  <2>1. PICK n \in AtBoot \cap cursor .. last :
          msg = [ix |-> n, flags |-> link[n].flags, stats |-> link[n].stats]
    BY <1>2, <1>3, Zenon
  <2>2. msg.ix = n /\ msg.flags = link[n].flags /\ msg.stats = link[n].stats
    BY <2>1
  <2> QED BY <2>1, <2>2
<1>5. \A n \in AtBoot \cap cursor .. last : \E msg \in reply' : msg.ix = n
  <2> SUFFICES ASSUME NEW n \in AtBoot \cap cursor .. last
               PROVE  \E msg \in reply' : msg.ix = n
    OBVIOUS
  <2> DEFINE msg == [ix |-> n, flags |-> link[n].flags, stats |-> link[n].stats]
  <2>1. msg \in reply'
    BY <1>2, <1>3, Zenon
  <2>2. msg.ix = n
    OBVIOUS
  <2> QED BY <2>1, <2>2, Zenon
<1>6. Handled' = Handled
  <2>1. ASSUME NEW n \in AtBoot
        PROVE  (n < cursor' /\ \A msg \in reply' : msg.ix # n) <=> n < cursor
    <3>1. CASE n < cursor
      BY <1>2, <1>3, <1>4, <3>1
    <3>2. CASE ~(n < cursor)
      BY <1>2, <1>3, <1>5, <3>2
    <3> QED BY <3>1, <3>2
  <2>2. Handled = {n \in AtBoot : n < cursor}
    BY <1>1 DEF Handled
  <2> QED BY <2>1, <2>2 DEF Handled
<1>7. Wanted' = Wanted
  BY <1>1 DEF Wanted
<1>8. Holds(list[snap], Handled)
  BY <1>1 DEF Dumped
<1>9. Holds(list[snap], Handled)'
  BY <1>1, <1>6, <1>7, <1>8 DEF Holds
<1>10. Batch'
  <2> SUFFICES ASSUME NEW msg \in reply'
               PROVE  /\ msg.ix \in AtBoot /\ msg.ix < cursor'
                      /\ "LOOPBACK" \in msg.flags <=> "LOOPBACK" \in LinkOf[msg.ix].flags
                      /\ \A m \in reply' : m.ix = msg.ix => m = msg
                      /\ \A k \in DOMAIN list[snap] : list[snap][k].ix < msg.ix
    BY <1>1 DEF Batch
  <2>1. msg.ix \in AtBoot /\ msg.ix < cursor'
    BY <1>2, <1>3, <1>4
  <2>2. "LOOPBACK" \in msg.flags <=> "LOOPBACK" \in LinkOf[msg.ix].flags
    BY <1>3, <1>4 DEF Stable
  <2>3. \A m \in reply' : m.ix = msg.ix => m = msg
    BY <1>4
  <2>4. ASSUME NEW k \in DOMAIN list[snap] PROVE list[snap][k].ix < msg.ix
    <3>1. list[snap][k].ix \in Handled
      BY <1>8 DEF Holds
    <3>2. list[snap][k].ix < cursor /\ list[snap][k].ix \in Nat
      BY <1>3, <3>1 DEF Handled
    <3>3. msg.ix >= cursor /\ msg.ix \in Nat
      BY <1>3, <1>4
    <3> QED BY <1>3, <3>2, <3>3
  <2> QED BY <2>1, <2>2, <2>3, <2>4
<1>11. snap = 2 => Holds(list[1], AtBoot)'
  BY <1>1, <1>7 DEF Dumped, Holds
<1>12. ~(ninterfaces > 0)
  BY <1>1 DEF IInv, Pairing
<1> QED BY <1>1, <1>9, <1>10, <1>11, <1>12 DEF Dumped

\* What a list holds with one more entry at its end.
LEMMA AppendHolds ==
    ASSUME NEW l \in Seq(Entry), NEW e \in Entry, NEW S, Holds(l, S), e.ix \in Wanted,
           \A k \in DOMAIN l : l[k].ix < e.ix
    PROVE  Holds(Append(l, e), S \cup {e.ix})
<1> DEFINE a == Append(l, e)
           n == Len(l)
<1>1. /\ n \in Nat /\ DOMAIN l = 1 .. n /\ DOMAIN a = 1 .. n + 1 /\ a[n + 1] = e
      /\ \A k \in DOMAIN l : a[k] = l[k]
  OBVIOUS
<1> HIDE DEF a, n
<1>2. ASSUME NEW j \in DOMAIN a, NEW k \in DOMAIN a, j < k PROVE a[j].ix < a[k].ix
  <2>1. j \in DOMAIN l /\ a[j] = l[j]
    BY <1>1, <1>2
  <2>2. CASE k \in DOMAIN l
    BY <1>1, <1>2, <2>1, <2>2 DEF Holds
  <2>3. CASE k \notin DOMAIN l
    <3>1. k = n + 1
      BY <1>1, <2>3
    <3> QED BY <1>1, <2>1, <3>1
  <2> QED BY <2>2, <2>3
<1>3. {a[k].ix : k \in DOMAIN a} = {l[k].ix : k \in DOMAIN l} \cup {e.ix}
  <2>1. DOMAIN a = DOMAIN l \cup {n + 1}
    BY <1>1
  <2> QED BY <1>1, <2>1
<1>4. {l[k].ix : k \in DOMAIN l} = Wanted \cap S
  BY DEF Holds
<1>5. {a[k].ix : k \in DOMAIN a} = Wanted \cap (S \cup {e.ix})
  BY <1>3, <1>4
<1>6. Holds(a, S \cup {e.ix})
  BY <1>2, <1>5 DEF Holds
<1> QED BY <1>6 DEF a

\* A message handled is an entry at the end of the list, if its link is asked for.
LEMMA NewLinkDumps ==
    ASSUME IInv, Stable, Quiet, Dumped, NewLink
    PROVE  Dumped'
<1>1. UNCHANGED <<pc, opt, snap, cursor, ninterfaces>> /\ pc = "recv"
  BY DEF NewLink
<1>2. PICK msg \in reply :
        /\ \A m \in reply : msg.ix <= m.ix
        /\ reply' = reply \ {msg}
        /\ list' = IF Skip(msg) THEN list
                   ELSE [list EXCEPT ![snap] = Append(@, EntryOf(msg))]
  BY DEF NewLink
<1>3. Batch /\ Holds(list[snap], Handled) /\ snap \in {1, 2}
  BY <1>1 DEF Dumped, IInv, TypeOK
<1>4. msg.ix \in AtBoot /\ msg.ix \in Nat /\ msg \in Message /\ msg.ix < cursor
  BY <1>3, NetAssumption DEF Batch, IInv, TypeOK, Message, Index
<1>5. Skip(msg) <=> msg.ix \notin Wanted
  BY <1>3, SkipsUnwanted DEF IInv
<1>6. \A m \in reply \ {msg} : m.ix # msg.ix
  BY <1>3 DEF Batch
<1>7. Handled' = Handled \cup {msg.ix}
  <2>1. ASSUME NEW n \in AtBoot
        PROVE  (n < cursor /\ \A m \in reply \ {msg} : m.ix # n)
                 <=> (n < cursor /\ \A m \in reply : m.ix # n) \/ n = msg.ix
    BY <1>4, <1>6
  <2>2. Handled' = {n \in AtBoot : n < cursor /\ \A m \in reply \ {msg} : m.ix # n}
    BY <1>1, <1>2 DEF Handled
  <2> QED BY <1>4, <2>1, <2>2 DEF Handled
<1>8. Wanted' = Wanted
  BY <1>1 DEF Wanted
<1>9. EntryOf(msg) \in Entry /\ EntryOf(msg).ix = msg.ix
  BY <1>4, EntryType DEF IInv
<1>10. \A k \in DOMAIN list[snap] : list[snap][k].ix < msg.ix
  BY <1>3 DEF Batch
<1>11. list[snap] \in Seq(Entry) /\ list \in [{1, 2} -> Seq(Entry)]
  BY <1>3 DEF IInv, TypeOK
<1>12. PICK l : /\ list' = [list EXCEPT ![snap] = l]
                /\ Holds(l, Handled \cup {msg.ix})
                /\ \A m \in reply \ {msg}, k \in DOMAIN l : l[k].ix < m.ix
  <2>1. CASE Skip(msg)
    <3>1. Wanted \cap (Handled \cup {msg.ix}) = Wanted \cap Handled
      BY <1>5, <2>1
    <3>2. Holds(list[snap], Handled \cup {msg.ix})
      BY <1>3, <3>1 DEF Holds
    <3>3. list' = [list EXCEPT ![snap] = list[snap]]
      BY <1>2, <1>3, <1>11, <2>1
    <3>4. \A m \in reply \ {msg}, k \in DOMAIN list[snap] : list[snap][k].ix < m.ix
      BY <1>3 DEF Batch
    <3> QED BY <3>2, <3>3, <3>4
  <2>2. CASE ~Skip(msg)
    <3> DEFINE l == Append(list[snap], EntryOf(msg))
    <3>1. list' = [list EXCEPT ![snap] = l]
      BY <1>2, <2>2
    <3>2. Holds(l, Handled \cup {msg.ix})
      BY <1>3, <1>5, <1>9, <1>10, <1>11, <2>2, AppendHolds
    <3>3. ASSUME NEW m \in reply \ {msg}, NEW k \in DOMAIN l PROVE l[k].ix < m.ix
      <4>1. msg.ix <= m.ix /\ m.ix # msg.ix /\ m.ix \in Nat
        <5>1. m.ix \in AtBoot /\ AtBoot \subseteq Index /\ Index \subseteq Nat
          BY <1>3, NetAssumption DEF Batch, Index
        <5> QED BY <1>2, <1>6, <5>1
      <4>2. msg.ix < m.ix
        BY <1>4, <4>1
      <4>3. \/ k \in DOMAIN list[snap] /\ l[k] = list[snap][k]
            \/ l[k] = EntryOf(msg)
        BY <1>11
      <4> HIDE DEF l
      <4>4. CASE l[k] = EntryOf(msg)
        BY <1>9, <4>2, <4>4
      <4>5. CASE k \in DOMAIN list[snap] /\ l[k] = list[snap][k]
        BY <1>3, <4>5 DEF Batch
      <4> QED BY <4>3, <4>4, <4>5
    <3> HIDE DEF l
    <3> QED BY <3>1, <3>2, <3>3
  <2> QED BY <2>1, <2>2
<1>13. list'[snap] = l /\ \A i \in {1, 2} \ {snap} : list'[i] = list[i]
  BY <1>3, <1>11, <1>12
<1>14. Batch'
  <2>1. \A m \in reply \ {msg} :
          /\ m.ix \in AtBoot /\ m.ix < cursor
          /\ "LOOPBACK" \in m.flags <=> "LOOPBACK" \in LinkOf[m.ix].flags
          /\ \A o \in reply \ {msg} : o.ix = m.ix => o = m
    BY <1>3 DEF Batch
  <2> QED BY <1>1, <1>2, <1>12, <1>13, <2>1 DEF Batch
<1>15. Holds(list[snap], Handled)'
  BY <1>1, <1>7, <1>8, <1>12, <1>13 DEF Holds
<1>16. snap = 2 => Holds(list[1], AtBoot)'
  <2> SUFFICES ASSUME snap = 2 PROVE Holds(list[1], AtBoot)'
    OBVIOUS
  <2>1. Holds(list[1], AtBoot) /\ list'[1] = list[1]
    BY <1>13 DEF Dumped
  <2> QED BY <1>8, <2>1 DEF Holds
<1>17. ~(ninterfaces > 0)
  BY <1>1 DEF IInv, Pairing
<1> QED BY <1>1, <1>14, <1>15, <1>16, <1>17 DEF Dumped

\* At the end of a dump every link has been handled.
LEMMA DoneDumps ==
    ASSUME IInv, Quiet, Dumped, Done
    PROVE  Dumped'
<1>1. /\ UNCHANGED <<opt, snap, reply, list, cursor, ninterfaces>> /\ pc = "recv" /\ reply = {}
      /\ \A n \in Present : n < cursor
      /\ pc' = "exited" \/ (snap = 1 /\ pc' = "sleep") \/ (snap # 1 /\ pc' = "pair")
  BY DEF Done, dump
<1>2. Handled = AtBoot
  <2>1. AtBoot \subseteq Present
    BY NetAssumption DEF Present, Quiet
  <2> QED BY <1>1, <2>1 DEF Handled
<1>3. Wanted' = Wanted /\ snap \in {1, 2}
  BY <1>1 DEF Wanted, IInv, TypeOK
<1>4. Holds(list[snap], AtBoot)
  BY <1>1, <1>2 DEF Dumped
<1>5. Holds(list[snap], AtBoot)' /\ (snap = 2 => Holds(list[1], AtBoot)')
  BY <1>1, <1>3, <1>4 DEF Dumped, Holds
<1>6. ~(ninterfaces > 0)
  BY <1>1 DEF IInv, Pairing
<1> QED BY <1>1, <1>3, <1>5, <1>6 DEF Dumped

\* The second dump begins where the first has ended.
LEMMA WakeDumps ==
    ASSUME IInv, Dumped, Wake
    PROVE  Dumped'
<1>1. /\ UNCHANGED <<opt, reply, list, cursor, ninterfaces>>
      /\ pc = "sleep" /\ pc' = "dump" /\ snap' = 2
  BY DEF Wake
<1>2. list[2] = <<>> /\ Holds(list[1], AtBoot)
  BY <1>1 DEF Dumped, IInv, InOrder
<1>3. Holds(list[1], AtBoot)'
  BY <1>1, <1>2 DEF Holds, Wanted
<1>4. ~(ninterfaces > 0)
  BY <1>1 DEF IInv, Pairing
<1> QED BY <1>1, <1>2, <1>3, <1>4 DEF Dumped

\* Pairing turns counts into rates; the lists hold the links they held.
LEMMA PairDumps ==
    ASSUME IInv, Dumped, Pair
    PROVE  Dumped'
<1> DEFINE ifl == list[1][pos]
           r == [tx |-> DIV(ifl.stats.tx, list[2][pos].stats.tx),
                 rx |-> DIV(ifl.stats.rx, list[2][pos].stats.rx)]
<1>1. pc = "pair" /\ Paired
  BY DEF Pair
<1>2. CASE Fail(STATE_UNKNOWN) \/ Fail(STATE_CRITICAL)
  BY <1>2, StillDumped DEF Fail, dump
<1>3. CASE /\ list' = [list EXCEPT ![1][pos].stats = r]
           /\ UNCHANGED <<pc, opt, snap, reply, cursor>>
  <2>1. /\ list \in [{1, 2} -> Seq(Entry)] /\ pos \in DOMAIN list[1]
        /\ \A k \in DOMAIN list[1] : list[1][k] \in Entry
    BY <1>1 DEF Paired, IInv, TypeOK
  <2> HIDE DEF r
  <2>2. list' = [list EXCEPT ![1] = [list[1] EXCEPT ![pos] = [ifl EXCEPT !.stats = r]]]
    BY <1>3
  <2>3. [ifl EXCEPT !.stats = r].ix = ifl.ix
    BY <2>1 DEF Entry
  <2>4. /\ list'[2] = list[2] /\ DOMAIN list'[1] = DOMAIN list[1]
        /\ \A k \in DOMAIN list[1] : list'[1][k].ix = list[1][k].ix
    <3> DEFINE e == [ifl EXCEPT !.stats = r]
    <3>1. e.ix = ifl.ix
      BY <2>3
    <3> HIDE DEF e
    <3>2. list' = [list EXCEPT ![1] = [list[1] EXCEPT ![pos] = e]]
      BY <2>2 DEF e
    <3> QED BY <2>1, <3>1, <3>2
  <2>5. Wanted' = Wanted
    BY <1>3 DEF Wanted
  <2>6. Holds(list[1], AtBoot) /\ Holds(list[2], AtBoot)
    BY <1>1 DEF Dumped
  <2>7. Holds(list[1], AtBoot)' /\ Holds(list[2], AtBoot)'
    BY <2>4, <2>5, <2>6 DEF Holds
  <2>8. pc' = "pair"
    BY <1>1, <1>3
  <2> QED BY <2>7, <2>8 DEF Dumped
<1> QED BY <1>2, <1>3, Zenon DEF Pair

\* Nothing is listed before the first dump.
LEMMA AgreeInitially == Init => Stable /\ Dumped
<1> SUFFICES ASSUME Init PROVE Stable /\ Dumped
  OBVIOUS
<1>1. Stable
  BY NetAssumption DEF Init, Stable
<1> QED BY <1>1 DEF Init, Dumped

\* check_network: when no link comes or goes, both dumps list the links asked for in the
\* same order, however they are cut into batches, and whatever else changes meanwhile.
THEOREM SnapshotsDoAgree == Spec => []SnapshotsAgree
<1>1. Init => AgreeInv
  BY InitIInv, AgreeInitially DEF AgreeInv
<1>2. AgreeInv /\ [Next]_vars /\ IInv' => AgreeInv'
  <2> SUFFICES ASSUME IInv, Stable, Quiet => Dumped, [Next]_vars, Quiet', IInv'
               PROVE  Dumped'
    BY QuietBefore DEF AgreeInv, IInv
  <2>1. Quiet /\ Dumped
    BY QuietBefore DEF IInv
  <2>2. CASE Kernel \/ UNCHANGED vars
    <3>1. UNCHANGED <<pc, opt, dump, ninterfaces>>
      BY <2>2, KernelGrows DEF IInv, vars
    <3> QED BY <2>1, <3>1, StillDumped DEF dump
  <2>3. CASE Plugin
    <3>1. CASE ParseOptions
      BY <2>1, <3>1, StillDumped DEF ParseOptions, Fail, dump
    <3>2. CASE ErrorIgnored
      BY <2>1, <3>2, StillDumped DEF ErrorIgnored, dump
    <3>3. CASE PairsDone
      BY <2>1, <3>3, StillDumped DEF PairsDone, Fail, dump
    <3>4. CASE Judge
      BY <2>1, <3>4, StillDumped DEF Judge, Fail, dump
    <3>5. CASE Return
      BY <2>1, <3>5, StillDumped DEF Return, dump
    <3>6. CASE NoSocket
      BY <2>1, <3>6, StillDumped DEF NoSocket, dump
    <3> QED BY <2>1, <2>3, <3>1, <3>2, <3>3, <3>4, <3>5, <3>6, RequestDumps, RecvDumps,
               NewLinkDumps, DoneDumps, WakeDumps, PairDumps DEF Plugin
  <2> QED BY <2>2, <2>3 DEF Next
<1>3. AgreeInv => SnapshotsAgree
  <2> SUFFICES ASSUME AgreeInv, Sampled, Quiet PROVE SnapshotsAgree
    BY DEF SnapshotsAgree
  <2>1. Holds(list[1], AtBoot) /\ Holds(list[2], AtBoot)
    BY DEF AgreeInv, Dumped, Sampled
  <2>2. list[1] \in Seq(Entry) /\ list[2] \in Seq(Entry)
    BY DEF AgreeInv, IInv, TypeOK
  <2>3. IndicesOf(list[1]) = IndicesOf(list[2])
    BY <2>1, <2>2, SameIndices
  <2>4. PICK l : l = list[1]
    OBVIOUS
  <2>5. /\ DOMAIN IndicesOf(l) = DOMAIN l
        /\ \A k \in DOMAIN l : IndicesOf(l)[k] = l[k].ix
    BY DEF IndicesOf
  <2>6. Ascending(IndicesOf(l))
    BY <2>1, <2>4, <2>5 DEF Holds, Ascending
  <2>7. Range(IndicesOf(l)) = Wanted
    <3>1. Range(IndicesOf(l)) = {l[k].ix : k \in DOMAIN l}
      BY <2>5 DEF Range
    <3>2. Wanted \cap AtBoot = Wanted
      BY DEF Wanted
    <3> QED BY <2>1, <2>4, <3>1, <3>2 DEF Holds
  <2> QED BY <2>3, <2>4, <2>6, <2>7 DEF SnapshotsAgree
<1> QED BY <1>1, <1>2, <1>3, Inductive, PTL DEF Spec

-----------------------------------------------------------------------------
(* The verdict *)

\* The links that were paired are up, if that is checked.
Flagged ==
    pc \in {"pair", "judge"} =>
      \A p \in 1 .. ninterfaces : opt.check_link => {"UP", "RUNNING"} \subseteq list[1][p].flags

\* The status is the worst of the links judged before position n.
Judged(n) ==
    /\ \A p \in 1 .. n - 1 : iface_status(list[1][p]) <= status
    /\ (n = 1 /\ status = STATE_OK) \/ \E p \in 1 .. n - 1 : iface_status(list[1][p]) = status

\* The status at each place of the program.
Judging ==
    /\ pc \in {"options", "dump", "recv", "sleep", "pair"} => status = STATE_OK
    /\ pc = "judge" => /\ pos <= Len(list[1]) + 1 /\ Judged(pos)
                       /\ ninterfaces = Len(list[1]) \/ ninterfaces = Len(list[2])

\* The inductive invariant of the verdict.
VerdictInv == Flagged /\ Judging /\ VerdictIsTrue

\* A common factor on both sides of a comparison.
LEMMA CommonFactor ==
    ASSUME NEW f \in Nat \ {0}, NEW a \in Int, NEW w \in Int, NEW v \in Int
    PROVE  /\ a * (f * w) <= f * v <=> a * w <= v
           /\ f * v <= a * (f * w) <=> v <= a * w
<1>1. PICK s \in Int : s = a * w
  OBVIOUS
<1>2. a * (f * w) = f * s
  BY <1>1
<1>3. /\ s <= v => f * s <= f * v
      /\ v <= s => f * v <= f * s
  OBVIOUS
<1>4. /\ s < v => f * s < f * v
      /\ v < s => f * v < f * s
  <2>1. ASSUME NEW x \in Int, NEW y \in Int, x < y PROVE f * x < f * y
    <3>1. PICK d \in Nat \ {0} : y = x + d
      <4>1. y - x \in Nat \ {0} /\ y = x + (y - x)
        BY <2>1
      <4> QED BY <4>1
    <3>2. f * y = f * x + f * d /\ f * d > 0
      BY <3>1
    <3> QED BY <3>2
  <2> QED BY <2>1
<1>5. f * s \in Int /\ f * v \in Int
  OBVIOUS
<1> QED BY <1>1, <1>2, <1>3, <1>4, <1>5

\* A percentage is that of any multiple of its part and whole.
LEMMA SamePercent ==
    ASSUME NEW f \in Nat \ {0}, NEW part \in Int, NEW whole \in Int,
           NEW t, t.warning \in RangeStruct \cup {NULL}, t.critical \in RangeStruct \cup {NULL}
    PROVE  get_statusPercent(f * part, f * whole, t) = get_statusPercent(part, whole, t)
<1>1. ASSUME NEW r \in RangeStruct
      PROVE  /\ Scaled(r, whole) # NULL /\ Scaled(r, f * whole) # NULL
             /\ check_range(100 * (f * part), Scaled(r, f * whole))
                  <=> check_range(100 * part, Scaled(r, whole))
  <2>1. r # NULL /\ r.start \in Int /\ r.end \in Int
    BY NullAssumption DEF RangeStruct
  <2> DEFINE q(k) == [r EXCEPT !.start = @ * k, !.end = @ * k]
  <2>2. \A k \in Int : /\ Scaled(r, k) = q(k) /\ q(k) \in RangeStruct
                       /\ q(k).start = r.start * k /\ q(k).end = r.end * k
                       /\ q(k).start_infinity = r.start_infinity
                       /\ q(k).end_infinity = r.end_infinity /\ q(k).alert_on = r.alert_on
    <3> SUFFICES ASSUME NEW k \in Int
                 PROVE /\ Scaled(r, k) = q(k) /\ q(k) \in RangeStruct
                       /\ q(k).start = r.start * k /\ q(k).end = r.end * k
                       /\ q(k).start_infinity = r.start_infinity
                       /\ q(k).end_infinity = r.end_infinity /\ q(k).alert_on = r.alert_on
      OBVIOUS
    <3>1. PICK x, y \in Int : x = r.start * k /\ y = r.end * k
      BY <2>1
    <3>2. q(k) = [r EXCEPT !.start = x, !.end = y]
      BY <3>1
    <3>3. Scaled(r, k) = q(k)
      BY <2>1 DEF Scaled
    <3> HIDE DEF q
    <3> QED BY <3>1, <3>2, <3>3 DEF RangeStruct
  <2> HIDE DEF q
  <2>3. whole \in Int /\ f * whole \in Int
    OBVIOUS
  <2>4. PICK a, b \in RangeStruct : a = Scaled(r, whole) /\ b = Scaled(r, f * whole)
    BY <2>2, <2>3
  <2>5. /\ a.start = r.start * whole /\ a.end = r.end * whole
        /\ b.start = r.start * (f * whole) /\ b.end = r.end * (f * whole)
        /\ a.start_infinity = b.start_infinity /\ a.end_infinity = b.end_infinity
        /\ a.alert_on = b.alert_on
    BY <2>2, <2>3, <2>4
  <2>6. PICK u, v \in Int : u = 100 * (f * part) /\ v = 100 * part /\ u = f * v
    <3>1. 100 * (f * part) = f * (100 * part) /\ 100 * part \in Int /\ f * (100 * part) \in Int
      OBVIOUS
    <3> QED BY <3>1
  <2>7. /\ b.start <= u <=> a.start <= v
        /\ u <= b.end <=> v <= a.end
    BY <2>1, <2>5, <2>6, CommonFactor
  <2>8. check_range(u, b) <=> check_range(v, a)
    BY <2>5, <2>7, Zenon DEF check_range
  <2>9. a # NULL /\ b # NULL
    BY <2>4, NullAssumption
  <2> QED BY <2>4, <2>6, <2>8, <2>9
<1>2. Scaled(NULL, whole) = NULL /\ Scaled(NULL, f * whole) = NULL
  BY DEF Scaled
<1>3. PICK w, c : w = t.warning /\ c = t.critical
  OBVIOUS
<1> DEFINE tf == [warning |-> Scaled(w, f * whole), critical |-> Scaled(c, f * whole)]
           t1 == [warning |-> Scaled(w, whole), critical |-> Scaled(c, whole)]
<1>4. /\ get_statusPercent(f * part, f * whole, t) = get_status(100 * (f * part), tf)
      /\ get_statusPercent(part, whole, t) = get_status(100 * part, t1)
  BY <1>3 DEF get_statusPercent
<1>5. /\ tf.warning = Scaled(w, f * whole) /\ tf.critical = Scaled(c, f * whole)
      /\ t1.warning = Scaled(w, whole) /\ t1.critical = Scaled(c, whole)
  OBVIOUS
<1> HIDE DEF tf, t1
<1>6. \A r \in {w, c} :
        (Scaled(r, f * whole) # NULL /\ check_range(100 * (f * part), Scaled(r, f * whole)))
          <=> (Scaled(r, whole) # NULL /\ check_range(100 * part, Scaled(r, whole)))
  <2> SUFFICES ASSUME NEW r \in {w, c}
               PROVE (Scaled(r, f * whole) # NULL
                        /\ check_range(100 * (f * part), Scaled(r, f * whole)))
                      <=> (Scaled(r, whole) # NULL /\ check_range(100 * part, Scaled(r, whole)))
    OBVIOUS
  <2>1. CASE r = NULL
    BY <1>2, <2>1
  <2>2. CASE r \in RangeStruct
    BY <1>1, <2>2
  <2> QED BY <1>3, <2>1, <2>2
<1>7. get_status(100 * (f * part), tf) = get_status(100 * part, t1)
  BY <1>5, <1>6, Zenon DEF get_status
<1> QED BY <1>4, <1>7

\* A rate is the only number that is the growth by the second, rounded up.
LEMMA RateIs ==
    ASSUME delay \in Nat \ {0}, NEW r \in Nat, NEW n \in Nat, RoundedUp(r, n)
    PROVE  r = (n + delay - 1) \div delay /\ r <= n
<1>1. PICK d \in Nat \ {0} : d = delay
  OBVIOUS
<1>2. PICK q : q = (n + d - 1) \div d
  OBVIOUS
<1>3. q \in 0 .. n /\ n <= q * d /\ q * d < n + d
  BY <1>2, CeilDiv
<1>4. n <= r * d /\ r * d < n + d
  BY <1>1 DEF RoundedUp
<1>5. ASSUME NEW x \in Nat, NEW y \in Nat, n <= x * d, y * d < n + d PROVE ~(x < y)
  <2> SUFFICES ASSUME x + 1 <= y PROVE FALSE
    OBVIOUS
  <2>1. (x + 1) * d <= y * d
    OBVIOUS
  <2>2. (x + 1) * d = x * d + d /\ x * d \in Nat /\ y * d \in Nat
    OBVIOUS
  <2> QED BY <1>5, <2>1, <2>2
<1>6. r = q
  BY <1>3, <1>4, <1>5
<1> QED BY <1>1, <1>2, <1>3, <1>6

\* An unsigned number that fits is itself.
LEMMA Fitting ==
    ASSUME NEW x \in Nat, x < UintMod
    PROVE  uint(x) = x
<1>1. UintMod \in Nat \ {0} /\ x \in 0 .. UintMod - 1 /\ x = 0 * UintMod + x
  BY NetAssumption
<1>2. (0 * UintMod + x) % UintMod = x
  BY <1>1, UniqueMod
<1> QED BY <1>1, <1>2 DEF uint

\* The speed of a link is exact in bytes: a Mbit/s has a whole number of them, and of
\* half of them.
LEMMA SpeedExact ==
    ASSUME NEW e \in Entry, e.speed * Mega < UintMod
    PROVE  /\ Speed(e) \in Nat /\ e.speed \in Nat
           /\ e.duplex = DUPLEX_HALF => e.speed * Mega = 16 * Speed(e)
           /\ e.duplex # DUPLEX_HALF => e.speed * Mega = 8 * Speed(e)
           /\ Speed(e) > 0 <=> e.speed > 0
<1>1. PICK k \in Nat \ {0} : Mega = 16 * k
  <2>1. PICK q \in Int : Mega = q * 16 + (Mega % 16)
    BY NetAssumption, DivMod
  <2>2. q \in Nat \ {0} /\ Mega = 16 * q
    BY <2>1, NetAssumption
  <2> QED BY <2>2
<1>2. e.speed \in Nat
  BY NetAssumption DEF Entry, Uint
<1>3. PICK s \in Nat : s = e.speed
  BY <1>2
<1>4. PICK x \in Nat : x = s * k
  OBVIOUS
<1>5. s * Mega = 16 * x
  BY <1>1, <1>4
<1>6. SpeedBytes(e) = 2 * x
  <2>1. uint(e.speed * Mega) = 16 * x
    BY <1>3, <1>5, Fitting
  <2> QED BY <2>1 DEF SpeedBytes
<1>7. Speed(e) = IF e.duplex = DUPLEX_HALF THEN x ELSE 2 * x
  BY <1>6 DEF Speed
<1>8. x > 0 <=> s > 0
  BY <1>4
<1> QED BY <1>3, <1>5, <1>7, <1>8

\* A link paired with itself gets the status its counts deserve.
LEMMA AsDeserved ==
    ASSUME IInv, Flagged, pc = "judge", NEW p \in 1 .. ninterfaces, Fits(p)
    PROVE  iface_status(list[1][p]) = TrueStatus(p)
<1> DEFINE e == list[1][p]
           PerSecond(f) == (Grown(p, f) + delay - 1) \div delay
           both == (IF opt.rx_only THEN 0 ELSE PerSecond("tx"))
                     + (IF opt.tx_only THEN 0 ELSE PerSecond("rx"))
           n == IF opt.check \in {"collisions", "multicast"} THEN PerSecond("tx") ELSE both
           bits == IF e.duplex = DUPLEX_HALF THEN 16 * n ELSE 8 * n
<1>1. /\ p \in DOMAIN list[1] /\ p \in DOMAIN list[2] /\ e \in Entry /\ list[2][p] \in Entry
      /\ ninterfaces \in Nat
  BY DEF IInv, TypeOK, Pairing
<1>2. /\ e.stats.tx \in Nat /\ e.stats.rx \in Nat
      /\ e.total.tx \in Nat /\ e.total.rx \in Nat
      /\ list[2][p].total.tx \in Nat /\ list[2][p].total.rx \in Nat
  BY <1>1, RecordTypes DEF Uint
<1>3. e.ix = list[2][p].ix /\ Below(e.total, list[2][p].total)
  BY <1>1 DEF Fits, IInv, InOrder
<1>4. PICK x, y \in Nat : x = Grown(p, "tx") /\ y = Grown(p, "rx")
  BY <1>2, <1>3 DEF Grown, Below
<1>5. x + y < UintMod /\ e.speed * Mega < UintMod
  BY <1>4 DEF Fits
<1>6. RoundedUp(e.stats.tx, x) /\ RoundedUp(e.stats.rx, y)
  <2>1. p \in 1 .. (ninterfaces + 1) - 1
    BY <1>1
  <2>2. UintMod \in Nat
    BY NetAssumption
  <2> QED BY SMTT(30), <1>3, <1>4, <1>5, <2>1, <2>2 DEF IInv, Pairing, RatesBefore
<1>7. delay \in Nat \ {0}
  BY DelayType DEF IInv, Delayed
<1>8. /\ e.stats.tx = PerSecond("tx") /\ e.stats.tx <= x
      /\ e.stats.rx = PerSecond("rx") /\ e.stats.rx <= y
  BY <1>2, <1>4, <1>6, <1>7, RateIs
<1> HIDE DEF PerSecond, e
<1>9. counter(e) = n /\ n \in Nat
  <2>1. both \in Nat /\ both < UintMod
    BY <1>2, <1>4, <1>5, <1>8, NetAssumption
  <2>2. get_threshold_metric(e.stats.tx, e.stats.rx) = both
    <3>1. (IF opt.tx_only THEN 0 ELSE e.stats.rx) + (IF opt.rx_only THEN 0 ELSE e.stats.tx)
            = both
      BY <1>2, <1>8
    <3> HIDE DEF both
    <3> QED BY <2>1, <3>1, Fitting DEF get_threshold_metric
  <2> HIDE DEF both
  <2> QED BY <1>2, <1>8, <2>1, <2>2 DEF counter
<1>10. TrueStatus(p) =
         IF opt.check_link /\ ~({"UP", "RUNNING"} \subseteq e.flags) THEN STATE_CRITICAL
         ELSE IF opt.perc /\ opt.check = "bytes" /\ e.speed > 0
         THEN get_statusPercent(bits, e.speed * Mega, opt.my_threshold)
         ELSE get_status(n, opt.my_threshold)
  BY DEF TrueStatus, e, PerSecond
<1> HIDE DEF n
<1>11. ~(opt.check_link /\ ~({"UP", "RUNNING"} \subseteq e.flags))
  BY DEF Flagged, e
<1>12. /\ Speed(e) \in Nat /\ e.speed \in Nat
       /\ e.duplex = DUPLEX_HALF => e.speed * Mega = 16 * Speed(e)
       /\ e.duplex # DUPLEX_HALF => e.speed * Mega = 8 * Speed(e)
       /\ Speed(e) > 0 <=> e.speed > 0
  BY <1>1, <1>5, SpeedExact
<1>13. /\ opt.my_threshold.warning \in RangeStruct \cup {NULL}
       /\ opt.my_threshold.critical \in RangeStruct \cup {NULL}
  BY NetAssumption DEF IInv, Delayed, CommandLine
<1>14. get_statusPercent(n, Speed(e), opt.my_threshold)
         = get_statusPercent(bits, e.speed * Mega, opt.my_threshold)
  <2>1. PICK t, m, w : t = opt.my_threshold /\ m = n /\ w = Speed(e)
    OBVIOUS
  <2>2. \A f \in Nat \ {0} : get_statusPercent(f * m, f * w, t) = get_statusPercent(m, w, t)
    <3>1. m \in Int /\ w \in Int
      BY <1>9, <1>12, <2>1
    <3>2. t.warning \in RangeStruct \cup {NULL} /\ t.critical \in RangeStruct \cup {NULL}
      BY <1>13, <2>1
    <3> QED BY <3>1, <3>2, SamePercent
  <2>3. CASE e.duplex = DUPLEX_HALF
    <3>1. bits = 16 * m /\ e.speed * Mega = 16 * w
      BY <1>12, <2>1, <2>3
    <3>2. get_statusPercent(16 * m, 16 * w, t) = get_statusPercent(m, w, t)
      BY <2>2
    <3> QED BY <2>1, <3>1, <3>2
  <2>4. CASE e.duplex # DUPLEX_HALF
    <3>1. bits = 8 * m /\ e.speed * Mega = 8 * w
      BY <1>12, <2>1, <2>4
    <3>2. get_statusPercent(8 * m, 8 * w, t) = get_statusPercent(m, w, t)
      BY <2>2
    <3> QED BY <2>1, <3>1, <3>2
  <2> QED BY <2>3, <2>4
<1>15. iface_status(e) = TrueStatus(p)
  <2> HIDE DEF bits
  <2> QED BY <1>9, <1>10, <1>11, <1>12, <1>14 DEF iface_status, Percent
<1> QED BY <1>15 DEF e

\* A link deserves no status above CRITICAL.
LEMMA DeservedType ==
    /\ \A p : TrueStatus(p) \in {STATE_OK, STATE_WARNING, STATE_CRITICAL}
    /\ \A e : iface_status(e) \in {STATE_OK, STATE_WARNING, STATE_CRITICAL}
BY DEF TrueStatus, iface_status, get_statusPercent, get_status

\* What a verdict is about stays when the lists and the command line do.
LEMMA SameVerdict ==
    ASSUME UNCHANGED <<opt, list>>
    PROVE  /\ \A e : iface_status(e)' = iface_status(e)
           /\ \A p : Fits(p)' <=> Fits(p)
           /\ \A p : TrueStatus(p)' = TrueStatus(p)
BY DEF iface_status, Percent, Speed, SpeedBytes, counter, get_threshold_metric, Fits, Grown,
       TrueStatus, delay

\* A step before the verdict, or one that changes none of it.
LEMMA VerdictStays ==
    ASSUME IInv, VerdictInv, UNCHANGED <<opt, list, ninterfaces, status>>,
           \/ UNCHANGED <<pc, pos, exit>>
           \/ /\ pc \in {"options", "dump", "recv", "sleep"}
              /\ pc' \in {"options", "dump", "recv", "sleep", "pair"}
           \/ pc' = "exited" /\ exit' = STATE_UNKNOWN
    PROVE  VerdictInv'
<1>1. CASE UNCHANGED <<pc, pos, exit>>
  <2>1. Flagged'
    BY <1>1 DEF VerdictInv, Flagged
  <2>2. Judging'
    <3>0. \A e : iface_status(e)' = iface_status(e)
      BY SameVerdict
    <3>1. Judged(pos) => Judged(pos)'
      BY <1>1, <3>0, Zenon DEF Judged
    <3> QED BY <1>1, <3>1 DEF VerdictInv, Judging
  <2>3. VerdictIsTrue'
    <3>1. \A p : (Fits(p)' <=> Fits(p)) /\ TrueStatus(p)' = TrueStatus(p)
      BY SameVerdict
    <3> QED BY <1>1, <3>1, Zenon DEF VerdictInv, VerdictIsTrue
  <2> QED BY <2>1, <2>2, <2>3 DEF VerdictInv
<1>2. CASE /\ pc \in {"options", "dump", "recv", "sleep"}
           /\ pc' \in {"options", "dump", "recv", "sleep", "pair"}
  <2>1. ninterfaces = 0 /\ status = STATE_OK
    BY <1>2 DEF IInv, Pairing, VerdictInv, Judging
  <2> QED BY <1>2, <2>1 DEF VerdictInv, Flagged, Judging, VerdictIsTrue
<1>3. CASE pc' = "exited" /\ exit' = STATE_UNKNOWN
  BY <1>3 DEF VerdictInv, Flagged, Judging, VerdictIsTrue
<1> QED BY <1>1, <1>2, <1>3

\* A link that is down is the end, and CRITICAL; any other is paired.
LEMMA PairVerdict ==
    ASSUME IInv, VerdictInv, Pair
    PROVE  VerdictInv'
<1> DEFINE ifl == list[1][pos]
           r == [tx |-> DIV(ifl.stats.tx, list[2][pos].stats.tx),
                 rx |-> DIV(ifl.stats.rx, list[2][pos].stats.rx)]
<1>1. /\ pc = "pair" /\ Paired /\ status = STATE_OK /\ ninterfaces = pos - 1 /\ pos \in Nat \ {0}
      /\ pos \in DOMAIN list[1]
  BY DEF Pair, Paired, VerdictInv, Judging, IInv, Pairing, TypeOK
<1>2. CASE Fail(STATE_UNKNOWN)
  BY <1>2, VerdictStays DEF Fail, dump
<1>3. CASE opt.check_link /\ ~({"UP", "RUNNING"} \subseteq ifl.flags) /\ Fail(STATE_CRITICAL)
  <2>1. UNCHANGED <<opt, list>> /\ pc' = "exited" /\ exit' = STATE_CRITICAL
    BY <1>3 DEF Fail, dump
  <2>2. \A p : TrueStatus(p)' = TrueStatus(p)
    BY <2>1, SameVerdict
  <2>3. TrueStatus(pos) = STATE_CRITICAL
    BY <1>3 DEF TrueStatus
  <2>4. pos \in 1 .. Len(list[1])
    BY <1>1 DEF IInv, TypeOK
  <2>5. /\ \A p \in 1 .. Len(list[1]) : TrueStatus(p) <= STATE_CRITICAL
        /\ \E p \in 1 .. Len(list[1]) : TrueStatus(p) = STATE_CRITICAL
    BY <2>3, <2>4, DeservedType DEF STATE_OK, STATE_WARNING, STATE_CRITICAL
  <2>6. VerdictIsTrue'
    BY <2>1, <2>2, <2>5, Zenon DEF VerdictIsTrue
  <2> QED BY <2>1, <2>6 DEF VerdictInv, Flagged, Judging
<1>4. CASE /\ ~(opt.check_link /\ ~({"UP", "RUNNING"} \subseteq ifl.flags))
           /\ list' = [list EXCEPT ![1][pos].stats = r]
           /\ ninterfaces' = ninterfaces + 1
           /\ UNCHANGED <<pc, opt, status>>
  <2>1. /\ list \in [{1, 2} -> Seq(Entry)] /\ \A k \in DOMAIN list[1] : list[1][k] \in Entry
        /\ DOMAIN list[1] = 1 .. Len(list[1]) /\ Len(list[1]) \in Nat
    BY DEF IInv, TypeOK
  <2>2. \A k \in DOMAIN list[1] : list'[1][k].flags = list[1][k].flags
    <3>1. PICK e : e = [ifl EXCEPT !.stats = r]
      OBVIOUS
    <3>2. e.flags = ifl.flags
      BY <1>1, <2>1, <3>1 DEF Entry
    <3>3. list' = [list EXCEPT ![1] = [list[1] EXCEPT ![pos] = e]]
      BY <1>4, <3>1
    <3> QED BY <2>1, <3>2, <3>3
  <2>3. Flagged'
    <3> SUFFICES ASSUME NEW p \in 1 .. ninterfaces + 1, opt.check_link
                 PROVE  {"UP", "RUNNING"} \subseteq list'[1][p].flags
      BY <1>4 DEF Flagged
    <3>1. p \in 1 .. ninterfaces \/ p = pos
      BY <1>1
    <3>2. p \in DOMAIN list[1]
      BY <1>1, <2>1
    <3>3. CASE p = pos
      BY <1>4, <2>2, <3>2, <3>3
    <3>4. CASE p \in 1 .. ninterfaces
      BY <1>1, <2>2, <3>2, <3>4 DEF VerdictInv, Flagged
    <3> QED BY <3>1, <3>3, <3>4
  <2>4. Judging' /\ VerdictIsTrue'
    BY <1>1, <1>4 DEF Judging, VerdictIsTrue
  <2> QED BY <2>3, <2>4 DEF VerdictInv
<1> QED BY <1>2, <1>3, <1>4, Zenon DEF Pair, verdict

\* Judging begins at the first link, when one of the lists is at its end.
LEMMA PairsDoneVerdict ==
    ASSUME IInv, VerdictInv, PairsDone
    PROVE  VerdictInv'
<1>1. CASE Fail(STATE_UNKNOWN)
  BY <1>1, VerdictStays DEF Fail, dump
<1>2. CASE pc' = "judge" /\ pos' = 1 /\ UNCHANGED <<opt, list, ninterfaces, status>>
  <2>1. pc = "pair" /\ ~Paired /\ status = STATE_OK
    BY DEF PairsDone, VerdictInv, Judging
  <2>2. ninterfaces = pos - 1 /\ pos <= Len(list[1]) + 1 /\ pos <= Len(list[2]) + 1
    BY <2>1 DEF IInv, Pairing
  <2>3. pos \in Nat /\ Len(list[1]) \in Nat /\ Len(list[2]) \in Nat
    BY DEF IInv, TypeOK
  <2>4. ninterfaces = Len(list[1]) \/ ninterfaces = Len(list[2])
    BY <2>1, <2>2, <2>3 DEF Paired
  <2>5. Flagged'
    BY <1>2, <2>1 DEF VerdictInv, Flagged
  <2>6. Judged(pos)'
    BY <1>2, <2>1 DEF Judged
  <2>7. Judging' /\ VerdictIsTrue'
    BY <1>2, <2>3, <2>4, <2>6 DEF Judging, VerdictIsTrue
  <2> QED BY <2>5, <2>7 DEF VerdictInv
<1> QED BY <1>1, <1>2 DEF PairsDone, dump, verdict

\* A status that is not worse leaves the worst as it was.
LEMMA JudgeVerdict ==
    ASSUME IInv, VerdictInv, Judge
    PROVE  VerdictInv'
<1> DEFINE e == list[1][pos]
<1>1. CASE Fail(STATE_UNKNOWN)
  BY <1>1, VerdictStays DEF Fail, dump
<1>2. CASE /\ status' = Worse(status, iface_status(e)) /\ pos' = pos + 1
           /\ UNCHANGED <<pc, opt, list, ninterfaces, exit>>
  <2>1. /\ pc = "judge" /\ pos <= Len(list[1]) /\ pos \in Nat \ {0} /\ status \in Statuses
        /\ Len(list[1]) \in Nat
    BY DEF Judge, IInv, TypeOK
  <2>2. Judged(pos)
    BY <2>1 DEF VerdictInv, Judging
  <2>3. PICK s : s = [p \in Nat |-> iface_status(list[1][p])]
    OBVIOUS
  <2>4. \A p \in Nat : s[p] \in {STATE_OK, STATE_WARNING, STATE_CRITICAL}
    BY <2>3, DeservedType
  <2>5. \A p \in Nat : iface_status(list[1][p])' = s[p]
    <3> SUFFICES ASSUME NEW p \in Nat PROVE iface_status(list[1][p])' = s[p]
      OBVIOUS
    <3>1. iface_status(list[1][p])' = iface_status(list[1][p])
      BY <1>2, Zenon DEF iface_status, Percent, Speed, SpeedBytes, counter, get_threshold_metric
    <3> QED BY <2>3, <3>1
  <2>6. /\ \A p \in 1 .. pos - 1 : s[p] <= status
        /\ (pos = 1 /\ status = STATE_OK) \/ \E p \in 1 .. pos - 1 : s[p] = status
    BY <2>1, <2>2, <2>3 DEF Judged
  <2>7. status' = IF s[pos] > status THEN s[pos] ELSE status
    BY <1>2, <2>1, <2>3 DEF Worse
  <2>8. /\ status \in 0 .. 3 /\ \A p \in Nat : s[p] \in 0 .. 2
        /\ STATE_OK = 0
    BY <2>1, <2>4 DEF Statuses, STATE_OK, STATE_WARNING, STATE_CRITICAL, STATE_UNKNOWN
  <2>9. \A p \in 1 .. pos : s[p] <= status'
    <3> SUFFICES ASSUME NEW p \in 1 .. pos PROVE s[p] <= status'
      OBVIOUS
    <3>1. CASE p = pos
      BY <2>1, <2>7, <2>8, <3>1
    <3>2. CASE p # pos
      <4>1. p \in 1 .. pos - 1 /\ p \in Nat
        BY <2>1, <3>2
      <4> QED BY <2>1, <2>6, <2>7, <2>8, <4>1
    <3> QED BY <3>1, <3>2
  <2>10. \E p \in 1 .. pos : s[p] = status'
    <3>1. CASE s[pos] > status
      BY <2>1, <2>7, <3>1
    <3>2. CASE ~(s[pos] > status) /\ pos = 1 /\ status = STATE_OK
      BY <2>1, <2>7, <2>8, <3>2
    <3>3. CASE ~(s[pos] > status) /\ \E p \in 1 .. pos - 1 : s[p] = status
      <4>1. PICK p \in 1 .. pos - 1 : s[p] = status
        BY <3>3
      <4>2. p \in 1 .. pos
        BY <2>1
      <4> QED BY <2>7, <3>3, <4>1, <4>2
    <3> QED BY <2>6, <3>1, <3>2, <3>3
  <2>11. Judged(pos)'
    <3>1. 1 .. pos' - 1 = 1 .. pos /\ 1 .. pos \subseteq Nat
      BY <1>2, <2>1
    <3>2. /\ \A p \in 1 .. pos' - 1 : iface_status(list[1][p])' <= status'
          /\ \E p \in 1 .. pos' - 1 : iface_status(list[1][p])' = status'
      BY <2>5, <2>9, <2>10, <3>1
    <3> QED BY <3>2, Zenon DEF Judged
  <2>12. Judging'
    BY <1>2, <2>1, <2>11 DEF VerdictInv, Judging
  <2>13. Flagged' /\ VerdictIsTrue'
    BY <1>2, <2>1 DEF VerdictInv, Flagged, VerdictIsTrue
  <2> QED BY <2>12, <2>13 DEF VerdictInv
<1> QED BY <1>1, <1>2 DEF Judge, dump

\* When every link has been judged, the status is the worst any deserves.
LEMMA ReturnVerdict ==
    ASSUME IInv, VerdictInv, Return
    PROVE  VerdictInv'
<1>1. /\ pc = "judge" /\ pos > Len(list[1]) /\ pc' = "exited" /\ UNCHANGED <<opt, list>>
      /\ exit' = IF ninterfaces < 1 THEN STATE_UNKNOWN ELSE status
  BY DEF Return, dump
<1>2. CASE ninterfaces < 1
  BY <1>1, <1>2, VerdictStays DEF Return, dump
<1>3. CASE ~(ninterfaces < 1)
  <2>1. /\ pos \in Nat \ {0} /\ Len(list[1]) \in Nat /\ Len(list[2]) \in Nat
        /\ ninterfaces \in Nat
    BY DEF IInv, TypeOK
  <2>2. /\ pos = Len(list[1]) + 1 /\ Judged(pos)
        /\ ninterfaces = Len(list[1]) \/ ninterfaces = Len(list[2])
    BY <1>1, <2>1 DEF VerdictInv, Judging
  <2>3. ASSUME Len(list[1]) = Len(list[2]), \A p \in 1 .. Len(list[1]) : Fits(p)
        PROVE  /\ \A p \in 1 .. Len(list[1]) : TrueStatus(p) <= status
               /\ \E p \in 1 .. Len(list[1]) : TrueStatus(p) = status
    <3>1. ninterfaces = Len(list[1]) /\ 1 .. pos - 1 = 1 .. ninterfaces /\ pos # 1
      BY <1>3, <2>1, <2>2, <2>3
    <3>2. \A p \in 1 .. ninterfaces : iface_status(list[1][p]) = TrueStatus(p)
      BY <1>1, <2>3, <3>1, AsDeserved DEF VerdictInv
    <3>3. /\ \A p \in 1 .. ninterfaces : iface_status(list[1][p]) <= status
          /\ \E p \in 1 .. ninterfaces : iface_status(list[1][p]) = status
      BY <2>2, <3>1, Zenon DEF Judged
    <3> QED BY <3>1, <3>2, <3>3
  <2>4. \A p : (Fits(p)' <=> Fits(p)) /\ TrueStatus(p)' = TrueStatus(p)
    BY <1>1, SameVerdict
  <2>5. exit' = status
    BY <1>1, <1>3
  <2>6. VerdictIsTrue'
    BY <1>1, <2>3, <2>4, <2>5, Zenon DEF VerdictIsTrue
  <2> QED BY <1>1, <2>6 DEF VerdictInv, Flagged, Judging
<1> QED BY <1>2, <1>3

\* The judging of the links goes on from step to step.
LEMMA VerdictInductive == Spec => []VerdictInv
<1>1. Init => VerdictInv
  BY DEF Init, VerdictInv, Flagged, Judging, VerdictIsTrue
<1>2. VerdictInv /\ IInv /\ [Next]_vars => VerdictInv'
  <2> SUFFICES ASSUME VerdictInv, IInv, [Next]_vars PROVE VerdictInv'
    OBVIOUS
  <2>1. CASE Kernel
    BY <2>1, KernelGrows, VerdictStays DEF IInv, dump, verdict
  <2>2. CASE UNCHANGED vars
    BY <2>2, VerdictStays DEF vars, dump, verdict
  <2>3. CASE ParseOptions \/ Request
    BY <2>3, VerdictStays DEF ParseOptions, Request, Fail, dump, verdict
  <2>4. CASE ErrorIgnored \/ Recv \/ Wake
    BY <2>4, VerdictStays DEF ErrorIgnored, Recv, Wake, dump, verdict
  <2>5. CASE Done \/ NoSocket
    BY <2>5, VerdictStays DEF Done, NoSocket, dump, verdict
  <2>6. CASE NewLink
    <3>1. UNCHANGED <<pc, ninterfaces, status, exit>> /\ pc = "recv"
      BY <2>6 DEF NewLink, verdict
    <3> QED BY <3>1 DEF VerdictInv, Flagged, Judging, VerdictIsTrue
  <2>7. CASE Pair \/ PairsDone \/ Judge \/ Return
    BY <2>7, PairVerdict, PairsDoneVerdict, JudgeVerdict, ReturnVerdict
  <2> QED BY <2>1, <2>2, <2>3, <2>4, <2>5, <2>6, <2>7 DEF Next, Plugin
<1> QED BY <1>1, <1>2, Inductive, PTL DEF Spec

\* check_network: when both samples hold the same links, the exit status is the worst that
\* any of them deserves by its own counts, whatever widths, speeds and thresholds.
THEOREM NetworkVerdict == Spec => []VerdictIsTrue
<1>1. VerdictInv => VerdictIsTrue
  BY DEF VerdictInv
<1> QED BY <1>1, VerdictInductive, PTL

-----------------------------------------------------------------------------
(* UNKNOWN for a reason *)

\* The entries at position p of both lists are of one name.
SameName(p) == NameOf[list[1][p].ix] = NameOf[list[2][p].ix]

\* A percentage of the speed is asked for, and there is none.
NoSpeed(p) == opt.perc /\ Thresholded /\ SpeedBytes(list[1][p]) = 0

\* What has been found at each place.
ReasonInv ==
    /\ status \in {STATE_OK, STATE_WARNING, STATE_CRITICAL}
    /\ pc \in {"recv", "sleep", "pair", "judge"} => netlink # "fails"
    /\ pc # "exited" => netlink # "no_socket"
    /\ pc \in {"pair", "judge"} => \A p \in 1 .. ninterfaces : SameName(p)
    /\ pc = "judge" => opt.ranges_ok /\ \A p \in 1 .. pos - 1 : ~NoSpeed(p)
    /\ UnknownHasAReason

\* The reasons are of the command line, the answers and the lists.
LEMMA ReasonsStay ==
    ASSUME UNCHANGED <<opt, netlink, list>>
    PROVE  /\ Reasons' = Reasons /\ BadOptions' = BadOptions
           /\ \A p : SameName(p)' = SameName(p) /\ NoSpeed(p)' = NoSpeed(p)
<1>1. BadOptions' = BadOptions
  BY Zenon DEF BadOptions, delay
<1>2. \A p : SameName(p)' = SameName(p) /\ NoSpeed(p)' = NoSpeed(p)
  BY DEF SameName, NoSpeed, Thresholded, SpeedBytes, uint
<1>3. Reasons' = Reasons
  BY <1>1 DEF Reasons, Thresholded, SpeedBytes, uint
<1> QED BY <1>1, <1>2, <1>3

\* The delay is 0 exactly if the names are asked for.
LEMMA DebugMeansNoDelay ==
    ASSUME ~BadOptions, opt \in OptionSets
    PROVE  delay = 0 <=> opt.ifname_debug
<1>1. opt.delay \in Int \cup {NULL} /\ opt.ifname_debug \in BOOLEAN
  BY NetAssumption DEF CommandLine
<1>2. DELAY_DEFAULT # 0
  BY Zenon, NetAssumption
<1> QED BY <1>1, <1>2 DEF delay, BadOptions

\* Giving up where one of the reasons is found, or with CRITICAL.
LEMMA FailHasReason ==
    ASSUME ReasonInv, NEW s, Fail(s), (s = STATE_UNKNOWN /\ Reasons) \/ s = STATE_CRITICAL
    PROVE  ReasonInv'
<1>1. UNCHANGED <<opt, netlink, list, status>> /\ pc' = "exited" /\ exit' = s
  BY DEF Fail, dump
<1>2. s \notin {STATE_OK, STATE_WARNING}
  BY DEF STATE_OK, STATE_WARNING, STATE_CRITICAL, STATE_UNKNOWN
<1>3. UnknownHasAReason'
  BY <1>1, <1>2, ReasonsStay DEF UnknownHasAReason, STATE_UNKNOWN, STATE_CRITICAL
<1> QED BY <1>1, <1>3 DEF ReasonInv

\* A step of the kernel, or before the lists are paired.
LEMMA EarlySteps ==
    ASSUME IInv, ReasonInv,
           Kernel \/ UNCHANGED vars \/ ParseOptions \/ Request \/ ErrorIgnored \/ Recv
           \/ NewLink \/ NoSocket \/ Done \/ Wake
    PROVE  ReasonInv'
<1> USE DEF dump, verdict, links
<1>0. /\ pc \in {"options", "dump", "recv", "sleep"} => ninterfaces = 0
      /\ opt \in OptionSets /\ (pc = "recv" => ~BadOptions)
  BY DEF IInv, Pairing, Delayed
<1>1. CASE Kernel
  <2>1. UNCHANGED <<opt, netlink, list, pc, status, exit, ninterfaces, pos>>
    BY <1>1, KernelGrows DEF IInv
  <2> QED BY <2>1, ReasonsStay DEF ReasonInv, UnknownHasAReason
<1>2. CASE UNCHANGED vars
  <2>1. UNCHANGED <<opt, netlink, list, pc, status, exit, ninterfaces, pos>>
    BY <1>2 DEF vars
  <2> QED BY <2>1, ReasonsStay DEF ReasonInv, UnknownHasAReason
<1>3. CASE ParseOptions
  <2>1. CASE BadOptions
    BY <1>3, <2>1, FailHasReason DEF ParseOptions, Reasons
  <2>2. CASE ~BadOptions
    BY <1>3, <2>2 DEF ParseOptions, ReasonInv, UnknownHasAReason
  <2> QED BY <2>1, <2>2
<1>4. CASE Request
  <2>1. CASE netlink = "fails"
    BY <1>4, <2>1, FailHasReason DEF Request, Reasons
  <2>2. CASE netlink # "fails"
    BY <1>4, <2>2 DEF Request, ReasonInv, UnknownHasAReason
  <2> QED BY <2>1, <2>2
<1>5. CASE ErrorIgnored \/ Recv \/ NewLink
  <2>1. pc = "recv" /\ pc' = "recv" /\ UNCHANGED <<status, exit>>
        /\ netlink' # "fails" /\ netlink' # "no_socket"
    BY <1>5 DEF ErrorIgnored, Recv, NewLink, ReasonInv
  <2> QED BY <2>1 DEF ReasonInv, UnknownHasAReason
<1>6. CASE Done
  <2>1. pc = "recv" /\ UNCHANGED <<opt, netlink, list, status, ninterfaces>>
    BY <1>6 DEF Done
  <2>2. CASE snap = 1 /\ delay = 0
    <3>1. pc' = "exited" /\ exit' = STATE_UNKNOWN
      BY <1>6, <2>2 DEF Done
    <3>2. Reasons
      BY <1>0, <2>1, <2>2, DebugMeansNoDelay DEF Reasons
    <3> QED BY <2>1, <3>1, <3>2, ReasonsStay
            DEF ReasonInv, UnknownHasAReason, STATE_OK, STATE_WARNING, STATE_UNKNOWN
  <2>3. CASE ~(snap = 1 /\ delay = 0)
    <3>1. pc' \in {"sleep", "pair"}
      BY <1>6, <2>3 DEF Done
    <3> QED BY <1>0, <2>1, <3>1 DEF ReasonInv, UnknownHasAReason
  <2> QED BY <2>2, <2>3
<1>7. CASE Wake
  BY <1>7 DEF Wake, ReasonInv, UnknownHasAReason
<1>8. CASE NoSocket
  <2>1. pc' = "exited" /\ exit' = STATE_UNKNOWN /\ netlink' = "no_socket" /\ status' = status
    BY <1>8 DEF NoSocket
  <2> QED BY <2>1 DEF ReasonInv, UnknownHasAReason, Reasons, STATE_OK, STATE_WARNING,
                      STATE_UNKNOWN
<1> QED BY <1>1, <1>2, <1>3, <1>4, <1>5, <1>6, <1>7, <1>8

\* A pair of two names is the end.
LEMMA PairReason ==
    ASSUME IInv, ReasonInv, Pair
    PROVE  ReasonInv'
<1> DEFINE ifl == list[1][pos]
           r == [tx |-> DIV(ifl.stats.tx, list[2][pos].stats.tx),
                 rx |-> DIV(ifl.stats.rx, list[2][pos].stats.rx)]
<1>1. /\ pc = "pair" /\ pos <= Len(list[1]) /\ pos <= Len(list[2]) /\ ninterfaces = pos - 1
      /\ pos \in Nat \ {0} /\ Len(list[1]) \in Nat
      /\ list \in [{1, 2} -> Seq(Entry)] /\ list[1] \in Seq(Entry)
      /\ DOMAIN list[1] = 1 .. Len(list[1])
  BY DEF Pair, Paired, IInv, Pairing, TypeOK
<1>2. CASE ~SameName(pos) /\ Fail(STATE_UNKNOWN)
  <2>1. pos \in 1 .. Len(list[1])
    BY <1>1
  <2>2. Reasons
    BY <1>1, <1>2, <2>1 DEF Reasons, SameName
  <2> QED BY <1>2, <2>2, FailHasReason
<1>3. CASE Fail(STATE_CRITICAL)
  BY <1>3, FailHasReason
<1>4. CASE /\ SameName(pos) /\ list' = [list EXCEPT ![1][pos].stats = r]
           /\ pos' = pos + 1 /\ ninterfaces' = ninterfaces + 1
           /\ UNCHANGED <<pc, netlink, status>>
  <2>1. \A k \in DOMAIN list[1] : list'[1][k].ix = list[1][k].ix
    <3>1. PICK e : e = [ifl EXCEPT !.stats = r]
      OBVIOUS
    <3>2. e.ix = ifl.ix
      <4>1. ifl \in Entry
        BY <1>1
      <4> QED BY <3>1, <4>1 DEF Entry
    <3>3. list' = [list EXCEPT ![1] = [list[1] EXCEPT ![pos] = e]]
      BY <1>4, <3>1
    <3> QED BY <1>1, <3>2, <3>3
  <2>2. list'[2] = list[2]
    BY <1>1, <1>4
  <2>3. \A p \in 1 .. ninterfaces + 1 : SameName(p)'
    <3> SUFFICES ASSUME NEW p \in 1 .. ninterfaces + 1 PROVE SameName(p)'
      OBVIOUS
    <3>1. p \in DOMAIN list[1] /\ (p \in 1 .. ninterfaces \/ p = pos)
      BY <1>1
    <3>2. SameName(p)
      BY <1>1, <1>4, <3>1 DEF ReasonInv
    <3> QED BY <2>1, <2>2, <3>1, <3>2 DEF SameName
  <2> QED BY <1>1, <1>4, <2>3 DEF ReasonInv, UnknownHasAReason
<1> QED BY <1>2, <1>3, <1>4, Zenon DEF Pair, verdict, SameName

\* The status of a link is no worse than CRITICAL.
LEMMA NeverUnknown ==
    ASSUME NEW e
    PROVE  iface_status(e) \in {STATE_OK, STATE_WARNING, STATE_CRITICAL}
BY DEF iface_status, get_statusPercent, get_status

\* The thresholds are parsed, and each link is judged.
LEMMA JudgeReason ==
    ASSUME IInv, ReasonInv, PairsDone \/ Judge
    PROVE  ReasonInv'
<1>1. CASE PairsDone
  <2>1. CASE ~opt.ranges_ok
    BY <1>1, <2>1, FailHasReason DEF PairsDone, Reasons
  <2>2. CASE opt.ranges_ok
    <3>1. /\ pc = "pair" /\ pc' = "judge" /\ pos' = 1
          /\ UNCHANGED <<opt, netlink, list, ninterfaces, status>>
      BY <1>1, <2>2 DEF PairsDone, dump, verdict
    <3> QED BY <2>2, <3>1, ReasonsStay DEF ReasonInv, UnknownHasAReason
  <2> QED BY <2>1, <2>2
<1>2. CASE Judge
  <2>1. pc = "judge" /\ pos \in 1 .. Len(list[1]) /\ pos \in Nat \ {0}
    BY <1>2 DEF Judge, IInv, TypeOK
  <2>2. CASE NoSpeed(pos)
    <3>1. Fail(STATE_UNKNOWN)
      BY Zenon, <1>2, <2>2 DEF Judge, NoSpeed
    <3>2. Reasons
      BY <2>1, <2>2 DEF Reasons, NoSpeed
    <3> QED BY <3>1, <3>2, FailHasReason
  <2>3. CASE ~NoSpeed(pos)
    <3>1. /\ status' = Worse(status, iface_status(list[1][pos])) /\ pos' = pos + 1
          /\ UNCHANGED <<pc, opt, list, netlink, ninterfaces>>
      BY Zenon, <1>2, <2>3 DEF Judge, NoSpeed, dump
    <3>2. status' \in {STATE_OK, STATE_WARNING, STATE_CRITICAL}
      BY <3>1, NeverUnknown DEF ReasonInv, Worse
    <3>3. \A p \in 1 .. pos' - 1 : ~NoSpeed(p)
      BY <2>1, <2>3, <3>1 DEF ReasonInv
    <3> QED BY <2>1, <3>1, <3>2, <3>3, ReasonsStay DEF ReasonInv, UnknownHasAReason
  <2> QED BY <2>2, <2>3
<1> QED BY <1>1, <1>2

\* After the last link none of the reasons is left, unless there is no pair.
LEMMA ReturnReason ==
    ASSUME IInv, VerdictInv, ReasonInv, Return
    PROVE  ReasonInv'
<1>1. /\ pc = "judge" /\ pos > Len(list[1]) /\ pc' = "exited"
      /\ exit' = IF ninterfaces < 1 THEN STATE_UNKNOWN ELSE status
      /\ UNCHANGED <<opt, netlink, list, status>>
  BY DEF Return, dump
<1>2. /\ list[1] \in Seq(Entry) /\ list[2] \in Seq(Entry) /\ pos \in Nat /\ ninterfaces \in Nat
      /\ Len(list[1]) \in Nat /\ Len(list[2]) \in Nat
  BY DEF IInv, TypeOK
<1>3. /\ ninterfaces <= Len(list[1]) /\ ninterfaces <= Len(list[2])
      /\ ninterfaces = Len(list[1]) \/ ninterfaces = Len(list[2])
  BY <1>1 DEF IInv, Pairing, VerdictInv, Judging
<1>4. CASE ninterfaces < 1
  <2>1. list[1] = <<>> \/ list[2] = <<>>
    BY <1>2, <1>3, <1>4
  <2>2. Reasons
    BY <2>1 DEF Reasons
  <2> QED BY <1>1, <1>4, <2>2, ReasonsStay
          DEF ReasonInv, UnknownHasAReason, STATE_OK, STATE_WARNING, STATE_UNKNOWN
<1>5. CASE ninterfaces >= 1
  <2>1. list[1] # <<>> /\ list[2] # <<>>
    BY <1>2, <1>3, <1>5
  <2>2. ASSUME NEW p \in 1 .. Len(list[1])
        PROVE  (p <= Len(list[2]) => SameName(p)) /\ ~NoSpeed(p)
    <3>1. p \in 1 .. pos - 1 /\ (p <= Len(list[2]) => p \in 1 .. ninterfaces)
      BY <1>1, <1>2, <1>3
    <3> QED BY <1>1, <3>1 DEF ReasonInv
  <2>3. ~BadOptions /\ ~opt.ifname_debug /\ netlink \notin {"fails", "no_socket"}
        /\ opt.ranges_ok
    BY <1>1, DebugMeansNoDelay DEF IInv, Delayed, ReasonInv
  <2>4. ~Reasons
    BY <2>1, <2>2, <2>3 DEF Reasons, SameName, NoSpeed
  <2>5. exit' = status /\ status # STATE_UNKNOWN
    BY <1>1, <1>2, <1>5 DEF ReasonInv, STATE_OK, STATE_WARNING, STATE_CRITICAL, STATE_UNKNOWN
  <2> QED BY <1>1, <2>4, <2>5, ReasonsStay DEF ReasonInv, UnknownHasAReason
<1> QED BY <1>2, <1>4, <1>5

\* check_network says UNKNOWN only for one of its reasons, and never better than CRITICAL
\* over one, whatever links come, go and count.
THEOREM GivesUpForAReason == Spec => []UnknownHasAReason
<1>1. Init => ReasonInv
  BY DEF Init, ReasonInv, UnknownHasAReason
<1>2. IInv /\ VerdictInv /\ ReasonInv /\ [Next]_vars => ReasonInv'
  BY EarlySteps, PairReason, JudgeReason, ReturnReason DEF Next, Plugin
<1>3. ReasonInv => UnknownHasAReason
  BY DEF ReasonInv
<1> QED BY <1>1, <1>2, <1>3, Inductive, VerdictInductive, PTL DEF Spec
=============================================================================
