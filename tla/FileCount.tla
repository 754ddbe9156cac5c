------------------------------ MODULE FileCount ------------------------------
(***************************************************************************)
(* check_filecount (plugins/check_filecount.c over lib/files.c): the       *)
(* plugin walks the directories it is given and counts the entries that    *)
(* pass its filters, while other processes create and remove files.        *)
(*                                                                         *)
(* An entry of the tree is identified with its path.  A call of            *)
(* files_filecount() is a frame of the stack.  What readdir() does with an *)
(* entry that comes or goes after opendir() is left open by its manual: it *)
(* may be returned or not.  The default case of the switch is that of      *)
(* directories, there being no seventh kind of file on Linux.  The         *)
(* directories of the command line are distinct and none is in another.    *)
(***************************************************************************)
EXTENDS Suffixes, Sequences, FiniteSets, FiniteSetsExt

CONSTANTS
    Node,           \* the entries there may be
    Dirs,           \* the directories on the command line, in order
    Entry,          \* what each entry is
    AtStart,        \* the entries there before the plugin starts
    Accesses,       \* the choices for access, below
    MaxEvents,      \* bound: creations and removals
    OptionSets      \* the command lines

DirsGiven == {Dirs[k] : k \in DOMAIN Dirs}
Kinds == {"directory", "regular", "symlink", "special"}
Flags == {"IGNORE_SYMLINKS", "IGNORE_UNKNOWN", "INCLUDE_HIDDEN", "RECURSIVE",
          "REGULAR_ONLY"}

\* matches: whether fnmatch() accepts the name; mtime: against the time the
\* walk starts, so negative in the past.
Entries == [parent : Node \cup DirsGiven, kind : Kinds, hidden : BOOLEAN,
            matches : BOOLEAN, mtime : Int, size : Nat]

\* age and size: NULL if they are not given; ranges_ok: whether the thresholds parse.
CommandLine ==
    [flags : SUBSET Flags, age : Argument \cup {NULL}, size : Argument \cup {NULL},
     ranges_ok : BOOLEAN, my_threshold : [warning : RangeStruct \cup {NULL},
                                          critical : RangeStruct \cup {NULL}]]

\* The entries are a tree below the directories given: among any there is a topmost one.
ASSUME FileAssumption ==
    /\ Dirs \in Seq(DirsGiven) /\ \A j, k \in DOMAIN Dirs : Dirs[j] = Dirs[k] => j = k
    /\ Node \cap DirsGiven = {} /\ IsFiniteSet(Node)
    /\ Entry \in [Node -> Entries]
    /\ \A n \in Node : Entry[n].parent \in Node =>
                          Entry[Entry[n].parent].kind = "directory"
    /\ \A S \in SUBSET Node : S # {} => \E n \in S : Entry[n].parent \notin S
    /\ AtStart \subseteq Node /\ \A n \in AtStart : Entry[n].parent \in AtStart \cup DirsGiven
    /\ Accesses \subseteq [Node \cup DirsGiven -> {"yes", "no", "broken"}]
    /\ MaxEvents \in Nat /\ OptionSets \subseteq CommandLine

VARIABLES
    pc, opt,        \* main(), its options
    arg, stack,     \* the argument walked, the calls of files_filecount()
    filecount,      \* struct files_types
    total, exit,    \* the sum, the exit status
    present,        \* the file system: the entries there are,
    appeared,       \* how often each came, being there at the start included,
    events,         \* the creations and removals,
    access          \* a directory is read, "no" (opendir fails), or "broken"

walk == <<arg, stack, filecount, total>>
fs   == <<present, appeared, events, access>>
vars == <<pc, opt, walk, exit, fs>>

NoCount == [directory |-> 0, hidden |-> 0, special_file |-> 0, symlink |-> 0,
            regular_file |-> 0, total |-> 0, unknown |-> 0]

Init ==
    /\ pc = "options" /\ opt \in OptionSets
    /\ arg = 1 /\ stack = <<>> /\ filecount = NoCount
    /\ total = 0 /\ exit = RUNNING
    /\ present = AtStart /\ events = 0 /\ access \in Accesses
    /\ appeared = [n \in Node |-> IF n \in AtStart THEN 1 ELSE 0]

-----------------------------------------------------------------------------
(* The other processes *)

ChildrenOf(d) == {n \in Node : Entry[n].parent = d}

\* Only the walk reads the file system: what comes before counts as the start.
Create ==
    /\ pc = "walk" /\ events < MaxEvents /\ events' = events + 1
    /\ \E n \in Node \ present :
         /\ Entry[n].parent \in present \cup DirsGiven
         /\ present' = present \cup {n} /\ appeared' = [appeared EXCEPT ![n] = @ + 1]
         /\ stack' = [k \in DOMAIN stack |->
                        IF stack[k].open /\ stack[k].dir = Entry[n].parent
                        THEN [stack[k] EXCEPT !.maybe = @ \cup {n}] ELSE stack[k]]
    /\ UNCHANGED <<pc, opt, arg, filecount, total, exit, access>>

Remove ==
    /\ pc = "walk" /\ events < MaxEvents /\ events' = events + 1
    /\ \E n \in present :
         /\ ChildrenOf(n) \cap present = {} /\ present' = present \ {n}
         /\ stack' = [k \in DOMAIN stack |->
                        IF n \in stack[k].todo
                        THEN [stack[k] EXCEPT !.todo = @ \ {n}, !.maybe = @ \cup {n}]
                        ELSE stack[k]]
    /\ UNCHANGED <<pc, opt, arg, filecount, total, exit, appeared, access>>

-----------------------------------------------------------------------------
(* main *)

\* plugin_error and usage (stderr).
Fail ==
    /\ pc' = "exited" /\ exit' = STATE_UNKNOWN
    /\ UNCHANGED <<opt, walk, fs>>

fileage == agetollint(opt.age)
filesize == sizetollint(opt.size)
ArgumentsParse == fileage # NULL /\ filesize # NULL

ParseOptions ==
    /\ pc = "options"
    /\ IF ~ArgumentsParse \/ Dirs = <<>> THEN Fail
       ELSE pc' = "next" /\ UNCHANGED <<opt, walk, exit, fs>>

\* A frame of the stack, with the entries readdir() has still to return and those
\* it may return as well.
Frame(d) == [dir |-> d, open |-> FALSE, todo |-> {}, maybe |-> {}]

\* The loop over the arguments: the next one is walked.
NextDir ==
    /\ pc = "next" /\ arg <= Len(Dirs)
    /\ pc' = "walk" /\ stack' = <<Frame(Dirs[arg])>> /\ filecount' = NoCount
    /\ UNCHANGED <<opt, arg, total, exit, fs>>

\* "total += filecount->total".
WalkDone ==
    /\ pc = "walk" /\ stack = <<>>
    /\ pc' = "next" /\ arg' = arg + 1 /\ total' = total + filecount.total
    /\ UNCHANGED <<opt, stack, filecount, exit, fs>>

\* The thresholds are parsed, the total judged.
Return ==
    /\ pc = "next" /\ arg > Len(Dirs)
    /\ IF ~opt.ranges_ok THEN Fail
       ELSE /\ pc' = "exited" /\ exit' = get_status(total, opt.my_threshold)
            /\ UNCHANGED <<opt, walk, fs>>

-----------------------------------------------------------------------------
(* files_filecount *)

Top == stack[Len(stack)]
Pop == SubSeq(stack, 1, Len(stack) - 1)
Walking == pc = "walk" /\ stack # <<>>

\* A mutant: a directory that cannot be opened is always an error.
OpenDirStrict ==
    /\ Walking /\ ~Top.open
    /\ IF Top.dir \in present \cup DirsGiven /\ access[Top.dir] # "no"
       THEN /\ stack' = [stack EXCEPT ![Len(stack)] =
                   [Top EXCEPT !.open = TRUE, !.todo = ChildrenOf(Top.dir) \cap present]]
            /\ UNCHANGED <<pc, opt, arg, filecount, total, exit, fs>>
       ELSE Fail

\* opendir(): a failure counts only for a directory of the command line; nobody
\* looks at what a recursive call returns.
OpenDir ==
    /\ Walking /\ ~Top.open
    /\ IF Top.dir \in present \cup DirsGiven /\ access[Top.dir] # "no"
       THEN /\ stack' = [stack EXCEPT ![Len(stack)] =
                   [Top EXCEPT !.open = TRUE, !.todo = ChildrenOf(Top.dir) \cap present]]
            /\ UNCHANGED <<pc, opt, arg, filecount, total, exit, fs>>
       ELSE IF Top.dir \in DirsGiven THEN Fail
       ELSE stack' = Pop /\ UNCHANGED <<pc, opt, arg, filecount, total, exit, fs>>

ReaddirFails == Walking /\ Top.open /\ access[Top.dir] = "broken" /\ Fail

EndOfDir ==
    /\ Walking /\ Top.open /\ access[Top.dir] # "broken" /\ Top.todo = {}
    /\ stack' = Pop
    /\ UNCHANGED <<pc, opt, arg, filecount, total, exit, fs>>

Has(flag) == flag \in opt.flags

\* files_check_age, files_check_size: "now" is time 0.
files_check_age(age, mtime) ==
    \/ age = 0
    \/ age < 0 /\ mtime > age
    \/ age > 0 /\ mtime < -age

\* A mutant: the size is not an absolute value.
files_check_sizeSigned(wanted, size) ==
    \/ wanted = 0
    \/ wanted < 0 /\ size < wanted
    \/ wanted > 0 /\ size > wanted

files_check_size(wanted, size) ==
    \/ wanted = 0
    \/ wanted < 0 /\ size < -wanted
    \/ wanted > 0 /\ size > wanted

Descends(e) == e.kind = "directory" /\ Has("RECURSIVE")

\* The entry is passed over without a trace: hidden, not matching, a directory
\* that is not asked for, a link or special file not wanted, another age or size.
Unwanted(e) ==
    \/ e.hidden /\ ~Has("INCLUDE_HIDDEN")
    \/ ~e.matches
    \/ e.kind \in {"directory", "symlink"} /\ Has("REGULAR_ONLY")
    \/ e.kind = "symlink" /\ Has("IGNORE_SYMLINKS")
    \/ e.kind = "regular" /\ ~(files_check_age(fileage, e.mtime)
                               /\ files_check_size(filesize, e.size))

Add(c, fields) == [f \in DOMAIN c |-> IF f \in fields THEN c[f] + 1 ELSE c[f]]

\* The counters an entry is counted in.
FieldsOf(e) ==
    LET hidden == IF e.hidden THEN {"hidden"} ELSE {}
    IN CASE Descends(e) -> {"directory", "total"} \cup hidden
         [] e.kind = "directory" /\ ~Descends(e) ->
              {"unknown"} \cup IF Has("IGNORE_UNKNOWN") THEN {} ELSE {"total"}
         [] e.kind = "special" ->
              {"special_file"} \cup IF Has("REGULAR_ONLY") THEN {} ELSE {"total"}
         [] e.kind = "symlink" -> {"symlink", "total"}
         [] e.kind = "regular" -> {"regular_file", "total"} \cup hidden

\* A mutant: a symlink is counted before the flags are looked at.
CountedLinkFirst(c, e) ==
    IF ~Unwanted(e) THEN Add(c, FieldsOf(e))
    ELSE IF e.kind = "symlink" THEN Add(c, {"symlink"}) ELSE c

Counted(c, e) == IF Unwanted(e) THEN c ELSE Add(c, FieldsOf(e))

\* readdir() returns an entry: lstat() fails if it is gone, unless it is hidden
\* and not even looked at; a directory may have to be walked before the next.
ReadEntry(n) ==
    /\ Walking /\ Top.open /\ access[Top.dir] # "broken" /\ n \in Top.todo \cup Top.maybe
    /\ LET e == Entry[n]
           ignored == e.hidden /\ ~Has("INCLUDE_HIDDEN")
           read == [Top EXCEPT !.todo = @ \ {n}, !.maybe = @ \ {n}]
           next == [stack EXCEPT ![Len(stack)] = read]
       IN IF ~ignored /\ n \notin present THEN Fail
          ELSE /\ filecount' = Counted(filecount, e)
               /\ stack' = IF Descends(e) /\ ~ignored
                           THEN Append(next, Frame(n)) ELSE next
               /\ UNCHANGED <<pc, opt, arg, total, exit, fs>>

Others == Create \/ Remove
Plugin == \/ ParseOptions \/ NextDir \/ WalkDone \/ Return
          \/ OpenDir \/ ReaddirFails \/ EndOfDir
          \/ \E n \in Node : ReadEntry(n)

Next == Others \/ Plugin

Spec == Init /\ [][Next]_vars

-----------------------------------------------------------------------------
TypeOK ==
    /\ pc \in {"options", "next", "walk", "exited"}
    /\ arg \in 1 .. Len(Dirs) + 1
    /\ stack \in Seq([dir : Node \cup DirsGiven, open : BOOLEAN,
                      todo : SUBSET Node, maybe : SUBSET Node])
    /\ filecount \in [DOMAIN NoCount -> Nat] /\ total \in Nat
    /\ exit \in Statuses \cup {RUNNING}
    /\ present \subseteq Node /\ appeared \in [Node -> Nat] /\ events \in 0 .. MaxEvents
    /\ access \in Accesses

\* The directories between an entry and the one on the command line.
Above[n \in Node] == IF Entry[n].parent \in DirsGiven THEN {}
                     ELSE {Entry[n].parent} \cup Above[Entry[n].parent]

\* The documented multipliers, and what the strings mean with them: tenths of a second
\* and of a byte.
AgeUnit(letter) == [none |-> 1, s |-> 1, m |-> 60, h |-> 3600, d |-> 86400, w |-> 604800,
                    y |-> 31557600][letter]
SizeUnit(letter) == CASE letter \in {"none", "b"} -> 1
                      [] letter = "k" -> 1000
                      [] letter = "m" -> 1000 * 1000
                      [] letter = "g" -> 1000 * 1000 * 1000
                      [] letter = "t" -> 1000 * 1000 * 1000 * 1000
                      [] letter = "p" -> 1000 * 1000 * 1000 * 1000 * 1000
MeantAge == IF opt.age = NULL THEN 0 ELSE opt.age.tenths * AgeUnit(opt.age.suffix)
MeantSize == IF opt.size = NULL THEN 0 ELSE opt.size.tenths * SizeUnit(opt.size.suffix)

\* What is left of a second or a byte is dropped, which makes no difference to what is
\* older or bigger than a whole one and a bit.
IsWhole(tenths) == tenths % 10 = 0 \/ tenths > 10

\* The entries the user asks for by the usage, whatever the order of the walk: with a
\* name that matches, below visible directories, below subdirectories only when asked to
\* descend, of a kind that is not left out; files at least as old or as big as a positive
\* AGE or SIZE, files touched in the last AGE seconds or smaller than SIZE without its sign.
Wanted(n) ==
    LET e == Entry[n]
        age == -e.mtime
    IN /\ e.matches
       /\ Has("INCLUDE_HIDDEN") \/ \A m \in Above[n] \cup {n} : ~Entry[m].hidden
       /\ Has("RECURSIVE") \/ Above[n] = {}
       /\ Has("REGULAR_ONLY") => e.kind = "regular"
       /\ Has("IGNORE_SYMLINKS") => e.kind # "symlink"
       /\ e.kind = "regular" =>
            /\ MeantAge > 0 => 10 * age >= MeantAge
            /\ MeantAge < 0 => 10 * age <= -MeantAge
            /\ MeantSize > 0 => 10 * e.size >= MeantSize
            /\ MeantSize < 0 => 10 * e.size < -MeantSize

\* Where the code leaves out what the usage promises: a file of exactly the size, which is
\* "at least this big", and under -u a directory that is not descended into, although its
\* type is known.  Of a file of exactly the age, which is counted for neither sign, the
\* usage leaves open for which it should be.
ExactAge(e) == \/ MeantAge > 0 /\ 10 * (-e.mtime) = MeantAge
               \/ MeantAge < 0 /\ 10 * (-e.mtime) = -MeantAge
ExactSize(e) == MeantSize > 0 /\ 10 * e.size = MeantSize
TakenForUnknown(e) == /\ e.kind = "directory"
                      /\ Has("IGNORE_UNKNOWN") /\ ~Has("RECURSIVE")
Disputed(n) ==
    LET e == Entry[n]
    IN \/ e.kind = "regular" /\ (ExactAge(e) \/ ExactSize(e))
       \/ TakenForUnknown(e)

\* An entry that was there from start to end, where it can be found.
Steady(n) == /\ n \in AtStart \cap present /\ appeared[n] = 1
             /\ \A d \in Above[n] : access[d] # "no"

\* How often an entry can be met: once each time it came, in its directory each
\* time that came.
Chances[n \in Node] ==
    appeared[n] * IF Entry[n].parent \in DirsGiven THEN 1 ELSE Chances[Entry[n].parent]

\* With files coming and going, the total lies between the number of the wanted
\* entries that were there all the time, the disputed ones apart, and that of the chances
\* to meet a wanted one: nothing steady is missed or counted twice, and the verdict is
\* that of the total.
CountBracketed ==
    pc = "exited" /\ exit # STATE_UNKNOWN /\ IsWhole(MeantAge) /\ IsWhole(MeantSize) =>
        /\ Cardinality({n \in Node : Wanted(n) /\ Steady(n) /\ ~Disputed(n)}) <= total
        /\ total <= MapThenSumSet(LAMBDA n : Chances[n], {n \in Node : Wanted(n)})
        /\ exit = get_status(total, opt.my_threshold)

\* The usage's "only files that are at least this big": of the files there all the time
\* none is missed that is as big as the size given.
AtLeastThisBig ==
    pc = "exited" /\ exit # STATE_UNKNOWN /\ IsWhole(MeantAge) /\ IsWhole(MeantSize) =>
        Cardinality({n \in Node : /\ Wanted(n) /\ Steady(n)
                                  /\ Entry[n].kind = "regular" /\ ~ExactAge(Entry[n])})
            <= total

\* The categories printed account for the total: each entry in it is in exactly
\* one of them.
CategoriesAddUp ==
    LET c == filecount
    IN /\ c.total = c.directory + c.regular_file + c.symlink
                    + (IF Has("REGULAR_ONLY") THEN 0 ELSE c.special_file)
                    + (IF Has("IGNORE_UNKNOWN") THEN 0 ELSE c.unknown)
       /\ c.hidden <= c.directory + c.regular_file

\* The walk may get to the entries of directory d: it is given, or of those descended to.
\* And it may get to entry n, and looks at it.
Walkable(d) == \/ d \in DirsGiven
               \/ /\ d \in Node /\ Descends(Entry[d])
                  /\ Has("INCLUDE_HIDDEN") \/ ~Entry[d].hidden
LookedAt(n) == /\ Walkable(Entry[n].parent)
               /\ Has("INCLUDE_HIDDEN") \/ ~Entry[n].hidden

\* UNKNOWN means that a string did not parse, a directory of the command line cannot be
\* opened, one that the walk gets to fails to be read, or an entry it looks at went away
\* and is not back.  None of the reasons is a subdirectory that cannot be opened, or what
\* happens to an entry that is ignored.
UnknownHasAReason ==
    pc = "exited" /\ exit = STATE_UNKNOWN =>
        \/ ~ArgumentsParse \/ ~opt.ranges_ok \/ Dirs = <<>>
        \/ \E d \in DirsGiven : access[d] = "no"
        \/ \E d \in DirsGiven \cup Node : access[d] = "broken" /\ Walkable(d)
        \/ \E n \in Node \ present : appeared[n] > 0 /\ LookedAt(n)

\* The documentation's claim that a multiplier "may be added" to a size, and that a
\* number of seconds "can also be followed by" one: what is refused is not a number,
\* or is followed by something that is not a multiplier.
MultiplierIsOptional ==
    pc = "exited" /\ ~ArgumentsParse =>
        \E str \in {opt.age, opt.size} \ {NULL} :
            str.tenths = NULL \/ str.suffix # "none"
=============================================================================
