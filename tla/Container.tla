------------------------------ MODULE Container ------------------------------
(***************************************************************************)
(* check_container (plugins/check_container.c over lib/container.c,        *)
(* lib/json_helpers.c and lib/collection.c): the plugin asks the container *)
(* engine for the running containers, and for memory each of them in turn, *)
(* while containers start, stop, and grow.                                 *)
(*                                                                         *)
(* A string is the sequence of its parts between slashes.  The list is the *)
(* sequence of its labels and their values; the tokens between them, which *)
(* equal no key, are left out.  The engine answers every request in the    *)
(* end: the code sets no timeout.                                          *)
(***************************************************************************)
EXTENDS Thresholds, Collection, FiniteSetsExt

CONSTANTS
    Containers,     \* the containers there may be, in the order they are listed
    ImageOf,        \* the image of each
    LabelsOf,       \* what its owner labelled it with: labels and values
    Usages,         \* the memory a container may use, in bytes
    AtStart,        \* the containers running before the plugin starts
    MaxEvents,      \* bound: containers that start, stop, or grow
    Kilo,           \* 1024
    OptionSets      \* the command lines

Pairs == [label : {"Id", "Image", "other"}, value : Key]
Ids == {Containers[k] : k \in DOMAIN Containers}
image_shortname(image) == <<image[Len(image)]>>

\* ranges_ok, delay_ok: whether the thresholds and the delay are accepted; socket:
\* given as an option or in the environment; unit: 1 for kB, Kilo for MB.
CommandLine ==
    [check_memory : BOOLEAN, image : Key \cup {NULL}, socket : BOOLEAN,
     delay_ok : BOOLEAN, ranges_ok : BOOLEAN, unit : Nat \ {0},
     my_threshold : [warning : RangeStruct \cup {NULL},
                     critical : RangeStruct \cup {NULL}]]

\* What the engine may answer.
Answers == {"list", "message", "unparsable", "broken"}

ASSUME ContainerAssumption ==
    /\ NULL \notin Answers /\ NULL \notin Usages
    /\ Containers \in Seq(Key) /\ Cardinality(Ids) = Len(Containers)
    /\ Key \subseteq Seq(STRING) \ {<<>>} /\ \A key \in Key : image_shortname(key) \in Key
    /\ ImageOf \in [Ids -> Key] /\ LabelsOf \in [Ids -> Seq(Pairs)]
    /\ Usages \subseteq Nat /\ AtStart \in [Ids -> Usages \cup {NULL}]
    /\ MaxEvents \in Nat /\ Kilo \in Nat \ {0} /\ OptionSets \subseteq CommandLine

VARIABLES
    pc, opt,            \* main(), its options
    answer, chunk, i,   \* how the engine answered, the list, its token looked at
    hashtable,          \* struct hashtable_t
    j, memory,          \* the container asked for, the sum in kilobytes
    judged, exit,       \* the value judged, the exit status
    usage, events,      \* the engine: what each container uses, NULL when it does not run
    listed, low, high   \* ghosts: the containers listed; for each the least and the
                        \* most it used since

walk   == <<chunk, i, hashtable, j, memory>>
engine == <<usage, events, low, high>>
vars   == <<pc, opt, answer, walk, judged, exit, engine, listed>>

Running == {id \in Ids : usage[id] # NULL}

Init ==
    /\ pc = "options" /\ opt \in OptionSets
    /\ answer = NULL /\ chunk = <<>> /\ i = 1 /\ hashtable = counter_create
    /\ j = 1 /\ memory = 0 /\ judged = NULL /\ exit = RUNNING
    /\ usage = AtStart /\ events = 0
    /\ listed = {} /\ low = AtStart /\ high = AtStart

-----------------------------------------------------------------------------
(* The engine *)

Lower(a, b)  == IF a = NULL \/ b < a THEN b ELSE a
Higher(a, b) == IF a = NULL \/ b > a THEN b ELSE a

\* A container starts, or uses more or less memory.
Run(id) ==
    \E u \in Usages \ {usage[id]} :
        /\ usage' = [usage EXCEPT ![id] = u]
        /\ low' = [low EXCEPT ![id] = Lower(@, u)]
        /\ high' = [high EXCEPT ![id] = Higher(@, u)]

\* A container stops.
Stop(id) == id \in Running /\ usage' = [usage EXCEPT ![id] = NULL] /\ UNCHANGED <<low, high>>

\* What happens before the plugin asks counts as the start.
Engine ==
    /\ pc \in {"list", "search", "stats"} /\ events < MaxEvents /\ events' = events + 1
    /\ \E id \in Ids : Run(id) \/ Stop(id)
    /\ UNCHANGED <<pc, opt, answer, walk, judged, exit, listed>>

-----------------------------------------------------------------------------
(* main *)

\* plugin_error and usage (stderr).
Fail ==
    /\ pc' = "exited" /\ exit' = STATE_UNKNOWN
    /\ UNCHANGED <<opt, walk, judged, engine, listed>>

BadOptions == ~opt.delay_ok \/ (opt.check_memory /\ opt.image # NULL) \/ ~opt.ranges_ok

\* The options and thresholds are parsed; docker_init() looks for the socket.
ParseOptions ==
    /\ pc = "options"
    /\ IF BadOptions \/ ~opt.socket THEN Fail /\ UNCHANGED answer
       ELSE pc' = "list" /\ UNCHANGED <<opt, answer, walk, judged, exit, engine, listed>>

\* A mutant: no containers are an error.
JudgeNone(value) ==
    IF value = 0 THEN Fail /\ UNCHANGED answer
    ELSE /\ pc' = "exited" /\ judged' = value /\ exit' = get_status(value, opt.my_threshold)
         /\ UNCHANGED <<opt, answer, walk, engine, listed>>

\* get_status() of the number or the memory, in the unit asked for.
Judge(value) ==
    /\ pc' = "exited" /\ judged' = value /\ exit' = get_status(value, opt.my_threshold)
    /\ UNCHANGED <<opt, answer, walk, engine, listed>>

-----------------------------------------------------------------------------
(* docker_api_call, docker_json_parser_search *)

search_key == IF opt.check_memory THEN "Id" ELSE "Image"
convert(value) == IF opt.check_memory THEN value ELSE image_shortname(value)

\* What the list has for one container.
Described(id) == <<[label |-> "Id", value |-> id],
                   [label |-> "Image", value |-> ImageOf[id]]>> \o LabelsOf[id]

\* What it has for the k-th container, when it lists some of them.
Part(ids, k) == IF Containers[k] \in ids THEN Described(Containers[k]) ELSE <<>>

\* The list of some containers in the engine's order.
List(ids) ==
    LET f[k \in 0 .. Len(Containers)] == IF k = 0 THEN <<>> ELSE f[k - 1] \o Part(ids, k)
    IN f[Len(Containers)]

\* The engine sends the list of the running containers.
ListContainers ==
    /\ pc = "list"
    /\ pc' = "search" /\ answer' = "list" /\ chunk' = List(Running) /\ listed' = Running
    /\ low' = usage /\ high' = usage
    /\ UNCHANGED <<opt, i, hashtable, j, memory, judged, exit, usage, events>>

\* It sends a message instead ("client version is too old"), an error to HTTP but
\* not to the code.
ListRefused ==
    /\ pc = "list" /\ pc' = "search" /\ answer' = "message"
    /\ UNCHANGED <<opt, walk, judged, exit, engine, listed>>

\* curl_easy_perform() fails.
ListFails == pc = "list" /\ Fail /\ answer' = "broken"

\* The status the shell shows for a crash.
KILLED_SIGSEGV == 139

\* What it sends cannot be parsed: json_tokenise() returns no tokens and leaves
\* their number unset, and the search runs up to what was there before; it ends at
\* once, or in a crash.
ListUnparsable ==
    /\ pc = "list" /\ answer' = "unparsable"
    /\ \/ pc' = "search" /\ UNCHANGED exit
       \/ pc' = "exited" /\ exit' = KILLED_SIGSEGV
    /\ UNCHANGED <<opt, walk, judged, engine, listed>>

\* One token of the list.
Search ==
    /\ pc = "search" /\ i <= Len(chunk)
    /\ hashtable' = IF chunk[i].label = search_key
                    THEN counter_put(hashtable, convert(chunk[i].value), 1) ELSE hashtable
    /\ i' = i + 1
    /\ UNCHANGED <<pc, opt, answer, chunk, j, memory, judged, exit, engine, listed>>

\* A mutant: the containers of the image are those listed.
CountDoneAnyImage ==
    /\ pc = "search" /\ i > Len(chunk) /\ ~opt.check_memory
    /\ Judge(counter_get_elements(hashtable))

\* docker_running_containers(): those of the image asked for, or all.
CountDone ==
    /\ pc = "search" /\ i > Len(chunk) /\ ~opt.check_memory
    /\ Judge(IF opt.image # NULL THEN CountOf(hashtable, opt.image)
             ELSE counter_get_elements(hashtable))

-----------------------------------------------------------------------------
(* docker_running_containers_memory, docker_container_memory *)

MemoryStart ==
    /\ pc = "search" /\ i > Len(chunk) /\ opt.check_memory
    /\ pc' = "stats"
    /\ UNCHANGED <<opt, answer, walk, judged, exit, engine, listed>>

\* ".memory_stats.usage" in the statistics of a container: they have none when it
\* has stopped, nor has the message that there is no such container.
json_search(id) == IF id \in Running THEN usage[id] ELSE NULL

\* A mutant: the memory of a container is stored, not added.
StatsOverwrite ==
    /\ pc = "stats" /\ j <= hashtable.uniq
    /\ LET value == json_search(hashtable.keys[j])
       IN IF value = NULL THEN Fail /\ UNCHANGED answer
          ELSE /\ memory' = value \div Kilo /\ j' = j + 1
               /\ UNCHANGED <<pc, opt, answer, chunk, i, hashtable, judged, exit, engine, listed>>

\* One container: sizetollint() fails without a value.
Stats ==
    /\ pc = "stats" /\ j <= hashtable.uniq
    /\ LET value == json_search(hashtable.keys[j])
       IN IF value = NULL THEN Fail /\ UNCHANGED answer
          ELSE /\ memory' = memory + value \div Kilo /\ j' = j + 1
               /\ UNCHANGED <<pc, opt, answer, chunk, i, hashtable, judged, exit, engine, listed>>

\* The connection breaks, or what comes cannot be parsed.
StatsFails == pc = "stats" /\ j <= hashtable.uniq /\ Fail /\ answer' = "broken"

\* UNIT_CONVERT and get_status().
MemoryDone == pc = "stats" /\ j > hashtable.uniq /\ Judge(memory \div opt.unit)

Plugin == \/ ParseOptions \/ ListContainers \/ ListRefused \/ ListFails
          \/ ListUnparsable \/ Search \/ CountDone \/ MemoryStart
          \/ Stats \/ StatsFails \/ MemoryDone

Next == Engine \/ Plugin

Spec == Init /\ [][Next]_vars

FairSpec == Spec /\ WF_vars(Plugin)

-----------------------------------------------------------------------------
TypeOK ==
    /\ pc \in {"options", "list", "search", "stats", "exited"} /\ opt \in OptionSets
    /\ answer \in Answers \cup {NULL} /\ chunk \in Seq(Pairs)
    /\ i \in 1 .. Len(chunk) + 1
    /\ hashtable \in [elements : Nat, uniq : Nat, keys : Seq(Key),
                      table : [0 .. HASHSIZE - 1 -> Chain]]
    /\ j \in Nat \ {0} /\ memory \in Nat /\ judged \in Nat \cup {NULL}
    /\ exit \in Statuses \cup {RUNNING, KILLED_SIGSEGV}
    /\ usage \in [Ids -> Usages \cup {NULL}] /\ events \in 0 .. MaxEvents
    /\ listed \subseteq Ids
    /\ low \in [Ids -> Usages \cup {NULL}] /\ high \in [Ids -> Usages \cup {NULL}]

\* The values found so far, by their places in the list.
Hits(s) == {k \in DOMAIN s : s[k].label = search_key}
Seen == [k \in Hits(chunk) \cap 1 .. i - 1 |-> convert(chunk[k].value)]

\* Whatever the hash function, and however the chains collide, the table holds each
\* image or container as often as the list has it, and each key once.
TableIsBag == IsBagOf(hashtable, Seen)

\* No owner labelled a container of the list with the key searched for.
NoLabelClash ==
    \A id \in listed : \A k \in DOMAIN LabelsOf[id] : LabelsOf[id][k].label # search_key

OfImage(id) == opt.image = NULL \/ image_shortname(ImageOf[id]) = image_shortname(opt.image)

Judged == pc = "exited" /\ judged # NULL

\* The number judged is that of the containers, of the image asked for by its short
\* name, that ran when the engine made the list, whatever they did since.
CountIsOfTheList ==
    Judged /\ ~opt.check_memory /\ answer = "list" /\ NoLabelClash
           /\ (opt.image # NULL => opt.image = image_shortname(opt.image)) =>
        judged = Cardinality({id \in listed : OfImage(id)})

Kilobytes(used) == [id \in listed |-> used[id] \div Kilo]

\* The memory judged lies between the sums of the least and of the most that the
\* containers listed used while they were asked, and all of them were asked.
MemoryBracketed ==
    Judged /\ opt.check_memory /\ answer = "list" /\ NoLabelClash =>
        /\ SumFunctionOnSet(Kilobytes(low), listed) \div opt.unit <= judged
        /\ judged <= SumFunctionOnSet(Kilobytes(high), listed) \div opt.unit

\* UNKNOWN means bad options, no socket, a connection that broke, a container that
\* stopped before it was asked, or one with a label that is taken for an id.
UnknownHasAReason ==
    pc = "exited" /\ exit = STATE_UNKNOWN =>
        \/ BadOptions \/ ~opt.socket \/ answer = "broken"
        \/ opt.check_memory /\ (~(listed \subseteq Running) \/ ~NoLabelClash)

\* The types hold, and the plugin ends, whatever the engine answers and however the
\* containers start and stop, with UNKNOWN for one of these reasons.
EndsForAReason == []TypeOK /\ <>(pc = "exited" /\ UnknownHasAReason)
=============================================================================
