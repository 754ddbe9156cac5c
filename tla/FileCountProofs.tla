-------------------------- MODULE FileCountProofs --------------------------
(***************************************************************************)
(* Proofs about the walk of check_filecount, for every tree, every command *)
(* line, and every sequence of creations and removals.                     *)
(***************************************************************************)
EXTENDS FileCount, CommonLemmas

\* A frame of the stack.
Frames == [dir : Node \cup DirsGiven, open : BOOLEAN,
           todo : SUBSET Node, maybe : SUBSET Node]

\* A call of files_filecount() is about a directory to be walked; what it has still to look
\* at is there, and what it may meet besides is of the same directory and was there once.
Holds(f) == /\ Walkable(f.dir) /\ f.todo \subseteq present
            /\ \A n \in f.todo \cup f.maybe : Entry[n].parent = f.dir /\ appeared[n] > 0
Held(s) == \A k \in DOMAIN s : Holds(s[k])

\* What is there has come.
Came == \A n \in present : appeared[n] > 0

\* The inductive invariant.
IInv ==
    /\ TypeOK /\ opt \in CommandLine /\ (pc = "walk" => arg <= Len(Dirs))
    /\ Held(stack) /\ Came /\ CategoriesAddUp /\ UnknownHasAReason

-----------------------------------------------------------------------------
(* The stack *)

\* A sequence changed at every place is a sequence of the same length.
LEMMA SeqOfFunction ==
    ASSUME NEW S, NEW T, NEW s \in Seq(S), NEW t,
           t = [k \in DOMAIN s |-> t[k]], \A k \in DOMAIN s : t[k] \in T
    PROVE  t \in Seq(T) /\ DOMAIN t = DOMAIN s
<1>1. DOMAIN s = 1 .. Len(s) /\ Len(s) \in Nat
  OBVIOUS
<1>2. t \in [1 .. Len(s) -> T]
  BY <1>1
<1> QED BY <1>1, <1>2

\* The frame on top of the stack.
LEMMA TopType ==
    ASSUME NEW S, NEW s \in Seq(S), s # <<>>
    PROVE  /\ Len(s) \in DOMAIN s /\ s[Len(s)] \in S
           /\ SubSeq(s, 1, Len(s) - 1) \in Seq(S)
           /\ DOMAIN SubSeq(s, 1, Len(s) - 1) = 1 .. Len(s) - 1
           /\ \A k \in 1 .. Len(s) - 1 : k \in DOMAIN s /\ SubSeq(s, 1, Len(s) - 1)[k] = s[k]
OBVIOUS

-----------------------------------------------------------------------------
(* The counters *)

\* The fields of struct files_types.
LEMMA Fields ==
    DOMAIN NoCount = {"directory", "hidden", "special_file", "symlink",
                      "regular_file", "total", "unknown"}
BY DEF NoCount

\* An entry that is counted is in the total exactly if it is in one of the
\* categories printed, and hidden only as a directory or a regular file.
LEMMA CountedAddsUp ==
    ASSUME NEW e \in Entries, filecount \in [DOMAIN NoCount -> Nat],
           CategoriesAddUp, filecount' = Counted(filecount, e), opt' = opt
    PROVE  CategoriesAddUp' /\ filecount' \in [DOMAIN NoCount -> Nat]
<1> USE Fields
<1>1. CASE Unwanted(e)
  BY <1>1 DEF Counted, CategoriesAddUp, Has
<1>2. CASE ~Unwanted(e)
  <2>1. filecount' = Add(filecount, FieldsOf(e))
    BY <1>2 DEF Counted
  <2>2. /\ filecount' \in [DOMAIN NoCount -> Nat]
        /\ \A f \in DOMAIN NoCount :
              filecount'[f] = IF f \in FieldsOf(e) THEN filecount[f] + 1 ELSE filecount[f]
    BY <2>1 DEF Add
  <2>3. e.kind \in {"directory", "regular", "symlink", "special"}
    BY DEF Entries, Kinds
  <2>4. CASE e.kind = "directory" /\ Has("RECURSIVE")
    <3>1. FieldsOf(e) = {"directory", "total"} \cup (IF e.hidden THEN {"hidden"} ELSE {})
      BY <2>4 DEF FieldsOf, Descends
    <3> QED BY <2>2, <3>1 DEF CategoriesAddUp, Has
  <2>5. CASE e.kind = "directory" /\ ~Has("RECURSIVE")
    <3>1. FieldsOf(e) = {"unknown"} \cup (IF Has("IGNORE_UNKNOWN") THEN {} ELSE {"total"})
      BY <2>5 DEF FieldsOf, Descends
    <3> QED BY <2>2, <3>1 DEF CategoriesAddUp, Has
  <2>6. CASE e.kind = "special"
    <3>1. FieldsOf(e) = {"special_file"} \cup (IF Has("REGULAR_ONLY") THEN {} ELSE {"total"})
      BY <2>6 DEF FieldsOf, Descends
    <3> QED BY <2>2, <3>1 DEF CategoriesAddUp, Has
  <2>7. CASE e.kind = "symlink"
    <3>1. FieldsOf(e) = {"symlink", "total"}
      BY <2>7 DEF FieldsOf, Descends
    <3> QED BY <2>2, <3>1 DEF CategoriesAddUp, Has
  <2>8. CASE e.kind = "regular"
    <3>1. FieldsOf(e) = {"regular_file", "total"} \cup (IF e.hidden THEN {"hidden"} ELSE {})
      BY <2>8 DEF FieldsOf, Descends
    <3> QED BY <2>2, <3>1 DEF CategoriesAddUp, Has
  <2> QED BY <2>3, <2>4, <2>5, <2>6, <2>7, <2>8
<1> QED BY <1>1, <1>2

-----------------------------------------------------------------------------
\* The inductive invariant holds initially.
LEMMA InitIInv == Init => IInv
<1> SUFFICES ASSUME Init
             PROVE  IInv
  OBVIOUS
<1> USE FileAssumption DEF Init
<1>1. TypeOK
  BY DEF TypeOK, NoCount, Statuses
<1>2. opt \in CommandLine /\ Held(stack) /\ (pc = "walk" => arg <= Len(Dirs))
  BY DEF Held
<1>3. CategoriesAddUp
  BY DEF CategoriesAddUp, NoCount
<1>4. Came /\ UnknownHasAReason
  BY DEF Came, UnknownHasAReason
<1> QED BY <1>1, <1>2, <1>3, <1>4 DEF IInv

\* What the strings of the command line are does not change, nor where the walk may get.
LEMMA ParseStays ==
    ASSUME opt' = opt
    PROVE  /\ ArgumentsParse' = ArgumentsParse
           /\ \A d : Walkable(d)' = Walkable(d)
           /\ \A n : LookedAt(n)' = LookedAt(n)
<1>1. ArgumentsParse' = ArgumentsParse
  BY DEF ArgumentsParse, fileage, filesize
<1>2. \A d : Walkable(d)' = Walkable(d)
  BY DEF Walkable, Descends, Has
<1>3. \A n : LookedAt(n)' = LookedAt(n)
  BY DEF LookedAt, Walkable, Descends, Has
<1> QED BY <1>1, <1>2, <1>3

\* A frame stays what it was while its directory's entries stay.
LEMMA HoldsStays ==
    ASSUME UNCHANGED <<opt, present, appeared>>
    PROVE  /\ \A f : Holds(f)' = Holds(f)
           /\ \A s : Held(s)' = Held(s)
           /\ Came' = Came
<1>1. \A f : Holds(f)' = Holds(f)
  BY ParseStays DEF Holds
<1> QED BY <1>1 DEF Held, Came

\* The conjuncts over the options, the counters and the verdict do not depend on
\* the walk: a step that only walks keeps them.
LEMMA WalkKeeps ==
    ASSUME IInv, pc = "walk", UNCHANGED <<pc, opt, arg, filecount, total, exit, access>>,
           stack' \in Seq(Frames), Held(stack)', Came', present' \subseteq Node,
           appeared' \in [Node -> Nat], events' \in 0 .. MaxEvents
    PROVE  IInv'
<1>1. TypeOK' /\ (opt \in CommandLine)' /\ (pc = "walk" => arg <= Len(Dirs))'
  BY DEF IInv, TypeOK, Frames
<1>2. CategoriesAddUp'
  BY DEF IInv, CategoriesAddUp, Has
<1>3. UnknownHasAReason'
  BY DEF UnknownHasAReason
<1> QED BY <1>1, <1>2, <1>3 DEF IInv

\* Giving up is a step that has to have a reason.
LEMMA FailKeeps ==
    ASSUME IInv, Fail, pc # "exited",
           \/ ~ArgumentsParse \/ ~opt.ranges_ok \/ Dirs = <<>>
           \/ \E d \in DirsGiven : access[d] = "no"
           \/ \E d \in DirsGiven \cup Node : access[d] = "broken" /\ Walkable(d)
           \/ \E n \in Node \ present : appeared[n] > 0 /\ LookedAt(n)
    PROVE  IInv'
<1> USE DEF Fail, walk, fs
<1>1. TypeOK' /\ (opt \in CommandLine)' /\ (pc = "walk" => arg <= Len(Dirs))'
  BY DEF IInv, TypeOK, Statuses
<1>2. Held(stack)' /\ Came' /\ CategoriesAddUp'
  <2>1. Held(stack)' /\ Came'
    BY HoldsStays DEF IInv, Held
  <2> QED BY <2>1 DEF IInv, CategoriesAddUp, Has
<1>3. UnknownHasAReason'
  BY ParseStays DEF UnknownHasAReason
<1> QED BY <1>1, <1>2, <1>3 DEF IInv

\* What the top of the stack is, and what is below it.
LEMMA Stack ==
    ASSUME IInv, stack # <<>>
    PROVE  /\ stack \in Seq(Frames) /\ Top \in Frames /\ Len(stack) \in DOMAIN stack
           /\ Holds(Top) /\ Pop \in Seq(Frames) /\ Held(Pop)
<1>1. stack \in Seq(Frames) /\ Held(stack)
  BY DEF IInv, TypeOK, Frames
<1>2. /\ Len(stack) \in DOMAIN stack /\ Top \in Frames
      /\ Pop \in Seq(Frames) /\ DOMAIN Pop = 1 .. Len(stack) - 1
      /\ \A k \in 1 .. Len(stack) - 1 : k \in DOMAIN stack /\ Pop[k] = stack[k]
  BY <1>1, TopType DEF Top, Pop
<1>3. Held(Pop)
  BY <1>1, <1>2 DEF Held
<1> QED BY <1>1, <1>2, <1>3 DEF Held, Top

\* Another frame in place of the top one.
LEMMA NewTop ==
    ASSUME NEW s \in Seq(Frames), Held(s), NEW i \in DOMAIN s, NEW f \in Frames, Holds(f)
    PROVE  /\ [s EXCEPT ![i] = f] \in Seq(Frames) /\ Held([s EXCEPT ![i] = f])
<1> DEFINE t == [s EXCEPT ![i] = f]
<1>1. t = [k \in DOMAIN s |-> t[k]] /\ \A k \in DOMAIN s : t[k] = IF k = i THEN f ELSE s[k]
  OBVIOUS
<1>2. \A k \in DOMAIN s : s[k] \in Frames
  OBVIOUS
<1> HIDE DEF t
<1>3. \A k \in DOMAIN s : t[k] \in Frames
  BY <1>1, <1>2
<1>4. t \in Seq(Frames) /\ DOMAIN t = DOMAIN s
  BY <1>1, <1>3, SeqOfFunction
<1>5. Held(t)
  BY <1>1, <1>4 DEF Held
<1> QED BY <1>4, <1>5 DEF t

\* One more call.
LEMMA Push ==
    ASSUME NEW s \in Seq(Frames), Held(s), NEW n \in Node \cup DirsGiven, Walkable(n)
    PROVE  Append(s, Frame(n)) \in Seq(Frames) /\ Held(Append(s, Frame(n)))
<1>1. Frame(n) \in Frames /\ Holds(Frame(n))
  BY DEF Frame, Frames, Holds
<1> DEFINE f == Frame(n)
<1> HIDE DEF f
<1>2. /\ Append(s, f) \in Seq(Frames)
      /\ \A k \in DOMAIN Append(s, f) : \/ k \in DOMAIN s /\ Append(s, f)[k] = s[k]
                                        \/ Append(s, f)[k] = f
  BY <1>1 DEF f
<1> QED BY <1>1, <1>2 DEF Held, f

\* A step of the plugin that only changes the stack.
LEMMA StackKeeps ==
    ASSUME IInv, pc = "walk", UNCHANGED <<pc, opt, arg, filecount, total, exit, fs>>,
           NEW s \in Seq(Frames), Held(s), stack' = s
    PROVE  IInv'
<1>1. /\ events' = events /\ present' = present /\ appeared' = appeared
      /\ UNCHANGED <<pc, opt, arg, filecount, total, exit, access>>
  BY DEF fs
<1>2. Held(stack)' /\ Came'
  BY <1>1, HoldsStays DEF IInv, Held
<1>3. /\ present' \subseteq Node /\ appeared' \in [Node -> Nat]
      /\ events' \in 0 .. MaxEvents
  BY <1>1, FileAssumption DEF IInv, TypeOK
<1> QED BY <1>1, <1>2, <1>3, WalkKeeps

-----------------------------------------------------------------------------
(* The steps *)

\* An entry comes: the open frames of its directory may meet it.
LEMMA CreateKeeps == IInv /\ Create => IInv'
<1> SUFFICES ASSUME IInv, Create
             PROVE  IInv'
  OBVIOUS
<1>1. /\ stack \in Seq(Frames) /\ Held(stack) /\ present \subseteq Node
      /\ appeared \in [Node -> Nat] /\ events \in 0 .. MaxEvents /\ MaxEvents \in Nat
  BY FileAssumption DEF IInv, TypeOK, Frames
<1>2. PICK n \in Node \ present :
         /\ present' = present \cup {n} /\ appeared' = [appeared EXCEPT ![n] = @ + 1]
         /\ stack' = [k \in DOMAIN stack |->
                        IF stack[k].open /\ stack[k].dir = Entry[n].parent
                        THEN [stack[k] EXCEPT !.maybe = @ \cup {n}] ELSE stack[k]]
  BY DEF Create
<1>3. /\ events' = events + 1 /\ events < MaxEvents
      /\ UNCHANGED <<pc, opt, arg, filecount, total, exit, access>>
  BY DEF Create
<1>4. \A k \in DOMAIN stack : stack[k] \in Frames
  BY <1>1
<1>5. \A k \in DOMAIN stack : stack'[k] \in Frames /\ stack'[k].todo = stack[k].todo
  BY <1>2, <1>4 DEF Frames
<1>6. stack' \in Seq(Frames) /\ DOMAIN stack' = DOMAIN stack
  <2> DEFINE t == stack'
  <2>1. t = [k \in DOMAIN stack |-> t[k]] /\ \A k \in DOMAIN stack : t[k] \in Frames
    BY <1>2, <1>5
  <2> HIDE DEF t
  <2>2. t \in Seq(Frames) /\ DOMAIN t = DOMAIN stack
    BY <1>1, <2>1, SeqOfFunction
  <2> QED BY <2>2 DEF t
<1>7. Held(stack)' /\ Came'
  <2>1. \A m \in Node : appeared[m] > 0 \/ m = n => appeared'[m] > 0
    BY <1>1, <1>2
  <2>2. present' = present \cup {n} /\ \A d : Walkable(d)' = Walkable(d)
    BY <1>2, <1>3, ParseStays
  <2>3. ASSUME NEW k \in DOMAIN stack
        PROVE  /\ stack'[k].dir = stack[k].dir /\ stack'[k].todo = stack[k].todo
               /\ \/ stack'[k].maybe = stack[k].maybe
                  \/ stack[k].dir = Entry[n].parent /\ stack'[k].maybe = stack[k].maybe \cup {n}
    BY <1>2, <1>4 DEF Frames
  <2>4. ASSUME NEW k \in DOMAIN stack PROVE Holds(stack[k])'
    <3>1. Holds(stack[k]) /\ stack[k].todo \subseteq Node /\ stack[k].maybe \subseteq Node
      BY <1>1, <1>4 DEF Held, Frames
    <3> QED BY <2>1, <2>2, <2>3, <3>1 DEF Holds
  <2>5. Came'
    BY <1>1, <2>1, <2>2 DEF IInv, Came
  <2> QED BY <1>6, <2>4, <2>5 DEF Held
<1>8. /\ present' \subseteq Node /\ appeared' \in [Node -> Nat]
      /\ events' \in 0 .. MaxEvents
  BY SMTT(30), <1>1, <1>2, <1>3
<1> QED BY <1>3, <1>6, <1>7, <1>8, WalkKeeps DEF Create

\* An entry goes away: the frame that has it to look at may do so or not.
LEMMA RemoveKeeps == IInv /\ Remove => IInv'
<1> SUFFICES ASSUME IInv, Remove
             PROVE  IInv'
  OBVIOUS
<1>1. /\ stack \in Seq(Frames) /\ Held(stack) /\ present \subseteq Node
      /\ appeared \in [Node -> Nat] /\ events \in 0 .. MaxEvents /\ MaxEvents \in Nat
  BY FileAssumption DEF IInv, TypeOK, Frames
<1>2. PICK n \in present :
         /\ present' = present \ {n}
         /\ stack' = [k \in DOMAIN stack |->
                        IF n \in stack[k].todo
                        THEN [stack[k] EXCEPT !.todo = @ \ {n}, !.maybe = @ \cup {n}]
                        ELSE stack[k]]
  BY DEF Remove
<1>3. /\ events' = events + 1 /\ events < MaxEvents
      /\ UNCHANGED <<pc, opt, arg, filecount, total, exit, access>> /\ appeared' = appeared
  BY DEF Remove
<1>4. \A k \in DOMAIN stack : stack[k] \in Frames
  BY <1>1
<1>5. \A k \in DOMAIN stack : stack'[k] \in Frames /\ stack'[k].todo = stack[k].todo \ {n}
  BY <1>1, <1>2, <1>4 DEF Frames
<1>6. stack' \in Seq(Frames) /\ DOMAIN stack' = DOMAIN stack
  <2> DEFINE t == stack'
  <2>1. t = [k \in DOMAIN stack |-> t[k]] /\ \A k \in DOMAIN stack : t[k] \in Frames
    BY <1>2, <1>5
  <2> HIDE DEF t
  <2>2. t \in Seq(Frames) /\ DOMAIN t = DOMAIN stack
    BY <1>1, <2>1, SeqOfFunction
  <2> QED BY <2>2 DEF t
<1>7. Held(stack)' /\ Came'
  <2>1. present' = present \ {n}
    BY <1>2, Zenon
  <2>2. appeared' = appeared /\ \A d : Walkable(d)' = Walkable(d)
    BY <1>3, ParseStays
  <2>3. ASSUME NEW k \in DOMAIN stack
        PROVE  /\ stack'[k].dir = stack[k].dir /\ stack'[k].todo = stack[k].todo \ {n}
               /\ stack'[k].todo \cup stack'[k].maybe = stack[k].todo \cup stack[k].maybe
    BY <1>2, <1>4 DEF Frames
  <2>4. ASSUME NEW k \in DOMAIN stack PROVE Holds(stack[k])'
    BY <1>1, <2>1, <2>2, <2>3 DEF Held, Holds
  <2>5. Came'
    BY <2>1, <2>2 DEF IInv, Came
  <2> QED BY <1>6, <2>4, <2>5 DEF Held
<1>8. /\ present' \subseteq Node /\ appeared' \in [Node -> Nat]
      /\ events' \in 0 .. MaxEvents
  <2>1. present' \subseteq Node
    BY <1>1, <1>2
  <2> QED BY <1>1, <1>3, <2>1
<1> QED BY <1>3, <1>6, <1>7, <1>8, WalkKeeps DEF Remove

\* A step of main() that does not give up.
LEMMA MainKeeps ==
    ASSUME IInv, UNCHANGED <<opt, fs>>,
           pc' \in {"options", "next", "walk", "exited"}, arg' \in 1 .. Len(Dirs) + 1,
           stack' \in Seq(Frames), Held(stack'),
           filecount' = filecount \/ filecount' = NoCount,
           total' \in Nat, exit' \in Statuses \cup {RUNNING},
           pc' = "exited" => exit' # STATE_UNKNOWN, pc' = "walk" => arg' <= Len(Dirs)
    PROVE  IInv'
<1> USE DEF fs
<1>1. TypeOK' /\ (opt \in CommandLine)' /\ (pc = "walk" => arg <= Len(Dirs))'
  <2>1. filecount' \in [DOMAIN NoCount -> Nat]
    BY SMTT(30) DEF IInv, TypeOK, NoCount
  <2> QED BY <2>1 DEF IInv, TypeOK, Frames
<1>2. Held(stack)' /\ Came'
  BY HoldsStays DEF IInv, Held
<1>3. CategoriesAddUp'
  <2>1. CASE filecount' = filecount
    BY <2>1 DEF IInv, CategoriesAddUp, Has
  <2>2. CASE filecount' = NoCount
    BY <2>2 DEF CategoriesAddUp, NoCount
  <2> QED BY <2>1, <2>2
<1>4. UnknownHasAReason'
  BY DEF UnknownHasAReason
<1> QED BY <1>1, <1>2, <1>3, <1>4 DEF IInv

\* The loop over the arguments.
LEMMA MainSteps == IInv /\ (ParseOptions \/ NextDir \/ WalkDone \/ Return) => IInv'
<1> SUFFICES ASSUME IInv, ParseOptions \/ NextDir \/ WalkDone \/ Return
             PROVE  IInv'
  OBVIOUS
<1> USE DEF walk
<1>1. /\ arg \in 1 .. Len(Dirs) + 1 /\ Len(Dirs) \in Nat /\ total \in Nat
      /\ stack \in Seq(Frames) /\ Held(stack) /\ exit \in Statuses \cup {RUNNING}
      /\ filecount.total \in Nat
  BY FileAssumption, Fields DEF IInv, TypeOK, Frames
<1>2. CASE ParseOptions /\ (~ArgumentsParse \/ Dirs = <<>>)
  BY <1>2, FailKeeps DEF ParseOptions
<1>3. CASE ParseOptions /\ ~(~ArgumentsParse \/ Dirs = <<>>)
  BY <1>1, <1>3, MainKeeps DEF ParseOptions
<1>4. CASE NextDir
  <2>1. Dirs[arg] \in DirsGiven
    BY <1>1, <1>4, FileAssumption DEF NextDir, DirsGiven
  <2>2. Frame(Dirs[arg]) \in Frames /\ Holds(Frame(Dirs[arg]))
    BY <2>1 DEF Frame, Frames, Holds, Walkable
  <2> DEFINE f == Frame(Dirs[arg])
  <2> HIDE DEF f
  <2>3. <<f>> \in Seq(Frames) /\ Held(<<f>>)
    BY <2>2 DEF Held, f
  <2>4. stack' = <<f>>
    BY <1>4 DEF NextDir, f
  <2> QED BY <1>1, <1>4, <2>3, <2>4, MainKeeps DEF NextDir
<1>5. CASE WalkDone
  <2>1. pc = "walk" /\ arg <= Len(Dirs)
    BY <1>5 DEF WalkDone, IInv
  <2> QED BY <1>1, <1>5, <2>1, MainKeeps DEF WalkDone
<1>6. CASE Return /\ ~opt.ranges_ok
  BY <1>6, FailKeeps DEF Return
<1>7. CASE Return /\ opt.ranges_ok
  <2>1. /\ exit' \in Statuses /\ exit' # STATE_UNKNOWN
    BY <1>7 DEF Return, get_status, Statuses, STATE_OK, STATE_WARNING, STATE_CRITICAL,
                STATE_UNKNOWN
  <2> QED BY <1>1, <1>7, <2>1, MainKeeps DEF Return
<1> QED BY <1>2, <1>3, <1>4, <1>5, <1>6, <1>7

\* The walk: opendir(), the end of a directory, readdir() that fails.
LEMMA DirSteps == IInv /\ (OpenDir \/ ReaddirFails \/ EndOfDir) => IInv'
<1> SUFFICES ASSUME IInv, OpenDir \/ ReaddirFails \/ EndOfDir
             PROVE  IInv'
  OBVIOUS
<1>1. /\ stack \in Seq(Frames) /\ Top \in Frames /\ Len(stack) \in DOMAIN stack
      /\ Holds(Top) /\ pc = "walk" /\ Pop \in Seq(Frames) /\ Held(Pop) /\ Held(stack)
      /\ present \subseteq Node /\ Came
  BY Stack DEF IInv, TypeOK, Frames, OpenDir, ReaddirFails, EndOfDir, Walking
<1>2. CASE EndOfDir
  BY <1>1, <1>2, StackKeeps DEF EndOfDir
<1>3. CASE ReaddirFails
  <2>1. Top.dir \in DirsGiven \cup Node /\ Walkable(Top.dir)
    BY <1>1 DEF Frames, Holds
  <2> QED BY <1>3, <2>1, FailKeeps DEF ReaddirFails, Walking
<1>4. CASE OpenDir /\ Top.dir \in present \cup DirsGiven /\ access[Top.dir] # "no"
  <2> DEFINE f == [Top EXCEPT !.open = TRUE, !.todo = ChildrenOf(Top.dir) \cap present]
             t == [stack EXCEPT ![Len(stack)] = f]
  <2>1. f \in Frames /\ f.dir = Top.dir /\ f.maybe = Top.maybe
        /\ f.todo = ChildrenOf(Top.dir) \cap present
    BY <1>1 DEF Frames
  <2>4. Holds(f)
    BY <1>1, <2>1 DEF Holds, ChildrenOf, Came
  <2>2. stack' = t
    BY <1>1, <1>4 DEF OpenDir, Top
  <2> HIDE DEF f
  <2>3. t \in Seq(Frames) /\ Held(t)
    BY <1>1, <2>4, <2>1, NewTop
  <2> QED BY <1>1, <1>4, <2>2, <2>3, StackKeeps DEF OpenDir
<1>5. CASE OpenDir /\ ~(Top.dir \in present \cup DirsGiven /\ access[Top.dir] # "no")
           /\ Top.dir \in DirsGiven
  BY <1>5, FailKeeps DEF OpenDir, Walking
<1>6. CASE OpenDir /\ ~(Top.dir \in present \cup DirsGiven /\ access[Top.dir] # "no")
           /\ Top.dir \notin DirsGiven
  BY <1>1, <1>6, StackKeeps DEF OpenDir
<1> QED BY <1>2, <1>3, <1>4, <1>5, <1>6

\* An entry is read: it is counted at most once, and its directory may be next.
LEMMA ReadStep == ASSUME IInv, NEW n \in Node, ReadEntry(n)
                  PROVE  IInv'
<1> DEFINE e == Entry[n]
           ignored == e.hidden /\ ~Has("INCLUDE_HIDDEN")
           f == [Top EXCEPT !.todo = @ \ {n}, !.maybe = @ \ {n}]
           next == [stack EXCEPT ![Len(stack)] = f]
<1>1. /\ stack \in Seq(Frames) /\ Top \in Frames /\ Len(stack) \in DOMAIN stack
      /\ Holds(Top) /\ Held(stack) /\ pc = "walk" /\ n \in Top.todo \cup Top.maybe
  BY Stack DEF IInv, TypeOK, ReadEntry, Walking, Frames
<1>2. e \in Entries
  BY FileAssumption
<1>3. f \in Frames /\ Holds(f)
  <2>1. /\ f \in Frames /\ f.dir = Top.dir
        /\ f.todo \subseteq Top.todo /\ f.maybe \subseteq Top.maybe
    BY <1>1 DEF Frames
  <2> HIDE DEF f
  <2> QED BY <1>1, <2>1 DEF Holds
<1>4. next \in Seq(Frames) /\ Held(next)
  <2> HIDE DEF f
  <2> QED BY <1>1, <1>3, NewTop
<1>5. \/ ~ignored /\ n \notin present /\ Fail
      \/ /\ filecount' = Counted(filecount, e)
         /\ stack' = IF Descends(e) /\ ~ignored THEN Append(next, Frame(n)) ELSE next
         /\ UNCHANGED <<pc, opt, arg, total, exit, fs>>
  BY Zenon DEF ReadEntry
<1>8. /\ appeared[n] > 0 /\ (~ignored => LookedAt(n))
      /\ Descends(e) /\ ~ignored => Walkable(n)
  BY <1>1 DEF Holds, LookedAt, Walkable
<1> HIDE DEF ignored, next, e
<1>6. CASE ~ignored /\ n \notin present /\ Fail
  BY <1>1, <1>6, <1>8, FailKeeps
<1>7. CASE /\ filecount' = Counted(filecount, e)
           /\ stack' = IF Descends(e) /\ ~ignored THEN Append(next, Frame(n)) ELSE next
           /\ UNCHANGED <<pc, opt, arg, total, exit, fs>>
  <2>1. stack' \in Seq(Frames) /\ Held(stack')
    BY <1>4, <1>7, <1>8, Push
  <2>2. CategoriesAddUp' /\ filecount' \in [DOMAIN NoCount -> Nat]
    BY <1>2, <1>7, CountedAddsUp DEF IInv, TypeOK
  <2>3. TypeOK' /\ (opt \in CommandLine)' /\ (pc = "walk" => arg <= Len(Dirs))'
    BY <1>7, <2>1, <2>2 DEF IInv, TypeOK, Frames, fs
  <2>4. Held(stack)' /\ Came'
    BY <1>7, <2>1, HoldsStays DEF IInv, Held, fs
  <2>5. UnknownHasAReason'
    BY <1>1, <1>7 DEF UnknownHasAReason
  <2> QED BY <2>2, <2>3, <2>4, <2>5 DEF IInv
<1> QED BY <1>5, <1>6, <1>7

-----------------------------------------------------------------------------
\* The inductive invariant holds throughout: files_filecount() keeps it entry by
\* entry, main() directory by directory, and so does every creation and removal.
THEOREM Inductive == Spec => []IInv
<1>1. IInv /\ [Next]_vars => IInv'
  <2> SUFFICES ASSUME IInv, [Next]_vars
               PROVE  IInv'
    OBVIOUS
  <2>1. CASE UNCHANGED vars
    <3>1. UNCHANGED <<pc, opt, arg, stack, filecount, total, exit, present, appeared,
                      events, access>>
      BY <2>1 DEF vars, walk, fs
    <3>2. TypeOK' /\ (opt \in CommandLine)' /\ (pc = "walk" => arg <= Len(Dirs))'
      BY <3>1 DEF IInv, TypeOK
    <3>3. Held(stack)' /\ Came'
      BY <3>1, HoldsStays DEF IInv, Held
    <3>4. CategoriesAddUp'
      BY <3>1 DEF IInv, CategoriesAddUp, Has
    <3>5. UnknownHasAReason'
      BY <3>1, ParseStays DEF IInv, UnknownHasAReason
    <3> QED BY <3>2, <3>3, <3>4, <3>5 DEF IInv
  <2>2. CASE Next
    BY <2>2, CreateKeeps, RemoveKeeps, MainSteps, DirSteps, ReadStep DEF Next, Others, Plugin
  <2> QED BY <2>1, <2>2
<1> QED BY <1>1, InitIInv, PTL DEF Spec

\* Type correctness: the calls of files_filecount() and its counters.
THEOREM TypeCorrect == Spec => []TypeOK
<1>1. IInv => TypeOK
  BY DEF IInv
<1> QED BY <1>1, Inductive, PTL

\* The categories of check_filecount account for the total at every point of the
\* walk, whatever the tree, the flags and the other processes.
THEOREM CategoriesAccount == Spec => []CategoriesAddUp
<1>1. IInv => CategoriesAddUp
  BY DEF IInv
<1> QED BY <1>1, Inductive, PTL

\* check_filecount says UNKNOWN only for a reason: only a
\* directory that the walk gets to, and only an entry it looks at and that went, make it
\* give up.
THEOREM GivesUpForAReason == Spec => []UnknownHasAReason
<1>1. IInv => UnknownHasAReason
  BY DEF IInv
<1> QED BY <1>1, Inductive, PTL

-----------------------------------------------------------------------------
(* The tree *)

\* Where an entry is.
LEMMA ParentType ==
    ASSUME NEW n \in Node
    PROVE  Entry[n] \in Entries /\ Entry[n].parent \in Node \cup DirsGiven
BY FileAssumption DEF Entries

\* What holds of an entry whenever it holds of its directory, if that is one of the
\* entries, holds of all.
LEMMA TreeInduction ==
    ASSUME NEW T, \A n \in Node : Entry[n].parent \in DirsGiven \cup T => n \in T
    PROVE  Node \subseteq T
<1> SUFFICES ASSUME Node \ T # {} PROVE FALSE
  OBVIOUS
<1>1. PICK n \in Node \ T : Entry[n].parent \notin Node \ T
  <2>1. Node \ T \in SUBSET Node
    OBVIOUS
  <2> QED BY <2>1, FileAssumption
<1> QED BY <1>1, ParentType

\* f is what G makes of an entry and of what f is for its directory, r for a given one.
IsRecursion(f, G, r) ==
    \A n \in Node : f[n] = G[n][IF Entry[n].parent \in Node THEN f[Entry[n].parent] ELSE r]

\* A function may be defined from the directories given downwards.
LEMMA TreeRecursion ==
    ASSUME NEW V, NEW r \in V, NEW G \in [Node -> [V -> V]]
    PROVE  \E f \in [Node -> V] : IsRecursion(f, G, r)
<1> DEFINE Value(f, n) == G[n][IF Entry[n].parent \in Node THEN f[Entry[n].parent] ELSE r]
           Solved(S, f) == \A n \in S : /\ Entry[n].parent \in DirsGiven \cup S
                                        /\ f[n] = Value(f, n)
           T == {k \in Nat : k <= Cardinality(Node) =>
                    \E S \in SUBSET Node, f \in [Node -> V] :
                       Cardinality(S) = k /\ Solved(S, f)}
<1>1. IsFiniteSet(Node) /\ Cardinality(Node) \in Nat
  BY FileAssumption, FS_CardinalityType
<1>2. \A f \in [Node -> V], n \in Node : Value(f, n) \in V
  <2> SUFFICES ASSUME NEW f \in [Node -> V], NEW n \in Node PROVE Value(f, n) \in V
    OBVIOUS
  <2>1. G[n] \in [V -> V]
    OBVIOUS
  <2>2. (IF Entry[n].parent \in Node THEN f[Entry[n].parent] ELSE r) \in V
    OBVIOUS
  <2> QED BY <2>1, <2>2
<1>3. 0 \in T
  <2>1. {} \in SUBSET Node /\ Cardinality({}) = 0
    BY FS_EmptySet
  <2>2. [n \in Node |-> r] \in [Node -> V] /\ Solved({}, [n \in Node |-> r])
    OBVIOUS
  <2> QED BY <2>1, <2>2
<1>4. ASSUME NEW k \in Nat, k \in T PROVE k + 1 \in T
  <2> SUFFICES ASSUME k + 1 <= Cardinality(Node)
               PROVE  \E S \in SUBSET Node, f \in [Node -> V] :
                         Cardinality(S) = k + 1 /\ Solved(S, f)
    OBVIOUS
  <2>1. PICK S \in SUBSET Node, f \in [Node -> V] : Cardinality(S) = k /\ Solved(S, f)
    BY <1>1, <1>4
  <2>2. Node \ S # {}
    <3>1. Cardinality(S) = k
      BY <2>1
    <3>2. S # Node
      BY <1>1, <3>1
    <3> QED BY <3>2
  <2>3. PICK n \in Node \ S : Entry[n].parent \notin Node \ S
    <3>1. Node \ S \in SUBSET Node
      OBVIOUS
    <3> QED BY <2>2, <3>1, FileAssumption
  <2>4. Entry[n].parent \in DirsGiven \cup S /\ Entry[n].parent # n
    BY <2>3, ParentType
  <2> DEFINE g == [f EXCEPT ![n] = Value(f, n)]
  <2>5. g \in [Node -> V] /\ g[n] = Value(f, n) /\ \A m \in Node \ {n} : g[m] = f[m]
    BY <1>2
  <2>6. \A m \in S : Entry[m].parent # n /\ m # n
    BY <2>1, <2>3, FileAssumption
  <2> HIDE DEF g
  <2>7. Value(g, n) = Value(f, n) /\ \A m \in S : Value(g, m) = Value(f, m)
    BY <2>4, <2>5, <2>6
  <2> HIDE DEF Value
  <2>8. Solved(S \cup {n}, g)
    BY <2>1, <2>4, <2>5, <2>6, <2>7
  <2>9. Cardinality(S \cup {n}) = k + 1
    BY <1>1, <2>1, <2>3, FS_Subset, FS_AddElement
  <2> HIDE DEF Solved
  <2> QED BY <2>3, <2>5, <2>8, <2>9
<1> HIDE DEF T
<1>5. Cardinality(Node) \in T
  BY <1>1, <1>3, <1>4, Induction
<1>6. PICK S \in SUBSET Node, f \in [Node -> V] : Cardinality(S) = Cardinality(Node) /\ Solved(S, f)
  BY <1>1, <1>5 DEF T
<1>7. S = Node
  BY <1>1, <1>6, FS_Subset
<1> QED BY <1>6, <1>7 DEF IsRecursion

\* What is above an entry, by its definition.
IsAbove(f) == f = [n \in Node |-> IF Entry[n].parent \in DirsGiven THEN {}
                                  ELSE {Entry[n].parent} \cup f[Entry[n].parent]]

\* The definition has a solution.
LEMMA AboveUnfolds ==
    ASSUME NEW n \in Node
    PROVE  Above[n] = IF Entry[n].parent \in DirsGiven THEN {}
                      ELSE {Entry[n].parent} \cup Above[Entry[n].parent]
<1> DEFINE V == SUBSET Node
           G == [m \in Node |-> [v \in V |-> IF Entry[m].parent \in DirsGiven THEN {}
                                             ELSE {Entry[m].parent} \cup v]]
<1>1. \A m \in Node : Entry[m].parent \in Node <=> Entry[m].parent \notin DirsGiven
  BY ParentType, FileAssumption
<1>2. G \in [Node -> [V -> V]] /\ {} \in V
  BY <1>1
<1>3. PICK f \in [Node -> V] : \A m \in Node :
         f[m] = G[m][IF Entry[m].parent \in Node THEN f[Entry[m].parent] ELSE {}]
  <2>1. PICK W, H : W = V /\ H = G
    OBVIOUS
  <2>2. H \in [Node -> [W -> W]] /\ {} \in W
    BY <1>2, <2>1
  <2>3. \E f \in [Node -> W] : IsRecursion(f, H, {})
    BY <2>2, TreeRecursion
  <2> HIDE DEF G, V
  <2> QED BY <2>1, <2>3 DEF IsRecursion
<1>4. ASSUME NEW m \in Node
      PROVE  f[m] = IF Entry[m].parent \in DirsGiven THEN {}
                    ELSE {Entry[m].parent} \cup f[Entry[m].parent]
  BY <1>1, <1>3
<1>5. f = [m \in Node |-> f[m]]
  OBVIOUS
<1>6. IsAbove(f)
  BY <1>4, <1>5 DEF IsAbove
<1>7. Above = CHOOSE g : IsAbove(g)
  BY Zenon DEF Above, IsAbove
<1>8. IsAbove(Above)
  BY <1>6, <1>7
<1> QED BY <1>8 DEF IsAbove

\* The chances to meet an entry, by their definition.
IsChances(f) == f = [n \in Node |-> appeared[n] * IF Entry[n].parent \in DirsGiven THEN 1
                                                  ELSE f[Entry[n].parent]]

\* They are numbers, and the definition has a solution.
LEMMA ChancesUnfold ==
    ASSUME NEW n \in Node, appeared \in [Node -> Nat]
    PROVE  /\ Chances[n] \in Nat
           /\ Chances[n] = appeared[n] * IF Entry[n].parent \in DirsGiven THEN 1
                                         ELSE Chances[Entry[n].parent]
<1> DEFINE G == [m \in Node |-> [v \in Nat |-> appeared[m] * IF Entry[m].parent \in DirsGiven THEN 1
                                                             ELSE v]]
<1>1. \A m \in Node : Entry[m].parent \in Node <=> Entry[m].parent \notin DirsGiven
  BY ParentType, FileAssumption
<1>2. G \in [Node -> [Nat -> Nat]] /\ 1 \in Nat
  <2>1. \A m \in Node, v \in Nat :
           appeared[m] * (IF Entry[m].parent \in DirsGiven THEN 1 ELSE v) \in Nat
    <3> SUFFICES ASSUME NEW m \in Node, NEW v \in Nat
                 PROVE  appeared[m] * (IF Entry[m].parent \in DirsGiven THEN 1 ELSE v) \in Nat
      OBVIOUS
    <3>1. PICK a \in Nat : a = appeared[m]
      OBVIOUS
    <3>2. a * 1 \in Nat /\ a * v \in Nat
      BY <3>1
    <3> QED BY <3>1, <3>2
  <2> QED BY <2>1
<1>3. PICK f \in [Node -> Nat] : \A m \in Node :
         f[m] = G[m][IF Entry[m].parent \in Node THEN f[Entry[m].parent] ELSE 1]
  <2>1. PICK H : H = G
    OBVIOUS
  <2>2. H \in [Node -> [Nat -> Nat]] /\ 1 \in Nat
    BY <1>2, <2>1
  <2>3. \E f \in [Node -> Nat] : IsRecursion(f, H, 1)
    BY <2>2, TreeRecursion
  <2> HIDE DEF G
  <2> QED BY <2>1, <2>3 DEF IsRecursion
<1>4. ASSUME NEW m \in Node
      PROVE  f[m] = appeared[m] * IF Entry[m].parent \in DirsGiven THEN 1
                                  ELSE f[Entry[m].parent]
  BY <1>1, <1>3
<1>5. f = [m \in Node |-> f[m]]
  OBVIOUS
<1>6. IsChances(f)
  BY <1>4, <1>5 DEF IsChances
<1>7. Chances = CHOOSE g : IsChances(g)
  BY Zenon DEF Chances, IsChances
<1>8. IsChances(Chances)
  BY <1>6, <1>7
<1>9. \A g : IsChances(g) =>
        \A m \in Node : g[m] = appeared[m] * IF Entry[m].parent \in DirsGiven THEN 1
                                                                ELSE g[Entry[m].parent]
  BY DEF IsChances
<1>10. Node \subseteq {m \in Node : Chances[m] = f[m]}
  <2> DEFINE T == {m \in Node : Chances[m] = f[m]}
  <2>1. ASSUME NEW m \in Node, Entry[m].parent \in DirsGiven \cup T PROVE m \in T
    BY <1>1, <1>4, <1>8, <1>9, <2>1
  <2> HIDE DEF T
  <2>2. Node \subseteq T
    BY <2>1, TreeInduction
  <2> QED BY <2>2 DEF T
<1> QED BY <1>8, <1>9, <1>10

-----------------------------------------------------------------------------
(* What was met *)

\* Not even looked at.
Ignored(e) == e.hidden /\ ~Has("INCLUDE_HIDDEN")

\* The entries that add to the total whenever they are met.
InTotal(n) == ~Unwanted(Entry[n]) /\ "total" \in FieldsOf(Entry[n])
TotalNodes == {n \in Node : InTotal(n)}

\* There from the start on.
Kept(n) == n \in AtStart \cap present /\ appeared[n] = 1

\* What is there has its directory, and has had it as long as it was there.
TreeThere ==
    /\ \A n \in AtStart : appeared[n] >= 1
    /\ \A n \in present :
          /\ appeared[n] >= 1 /\ Entry[n].parent \in present \cup DirsGiven
          /\ Kept(n) => Entry[n].parent \in DirsGiven \/ Kept(Entry[n].parent)

\* The stack is a path from the argument walked, and each frame is about its directory.
IsPath(s) ==
    \A k \in DOMAIN s :
       /\ k = 1 => s[k].dir = Dirs[arg]
       /\ k > 1 => /\ s[k].dir \in Node /\ Entry[s[k].dir].parent = s[k - 1].dir
                   /\ Descends(Entry[s[k].dir]) /\ ~Ignored(Entry[s[k].dir])
       /\ s[k].todo \cup s[k].maybe \subseteq ChildrenOf(s[k].dir)
       /\ ~s[k].open => s[k].todo \cup s[k].maybe = {}
Chain == IsPath(stack)

\* What is at each place.
Phases ==
    /\ pc = "options" => arg = 1
    /\ pc # "walk" => stack = <<>>
    /\ pc # "options" => ArgumentsParse
    /\ pc = "exited" => arg = Len(Dirs) + 1 /\ exit = get_status(total, opt.my_threshold)

Walk == TreeThere /\ Chain /\ Phases

\* What the frames of a stack s say: that a directory is being walked, or is about to
\* be; that an entry will be met; that it may be.
OnStack(s, d) == \E k \in DOMAIN s : s[k].dir = d
Unread(s, d) == \E k \in DOMAIN s : s[k].dir = d /\ ~s[k].open
Certain(s, n) == \E k \in DOMAIN s : n \in s[k].todo
Possible(s, n) == \E k \in DOMAIN s : n \in s[k].todo \cup s[k].maybe

\* How often a directory was walked, the walks under way included: once for each time
\* it was met, a given one once.
Given(d) == \E j \in DOMAIN Dirs : Dirs[j] = d /\ (j < arg \/ (j = arg /\ pc = "walk"))
Walks(met, d) == IF d \in Node THEN met[d] ELSE IF Given(d) THEN 1 ELSE 0

\* A directory that was, or is, walked.
Passed(met, d) ==
    IF d \in Node
    THEN /\ met[d] >= 1 /\ Descends(Entry[d]) /\ ~Ignored(Entry[d]) /\ access[d] # "no"
    ELSE Given(d)

\* An entry is met at most once for each time it came, in each walk of its directory;
\* that holds of what it may be met still, too.
AtMostOf(met, n) ==
    LET d == Entry[n].parent
        most == Walks(met, d) * appeared[n]
    IN /\ met[n] <= most
       /\ met[n] > 0 /\ d \in Node => Descends(Entry[d]) /\ ~Ignored(Entry[d])
       /\ OnStack(stack, d) => Walks(met, d) >= 1
       /\ Unread(stack, d) => met[n] + appeared[n] <= most
       /\ Possible(stack, n) => met[n] + 1 <= most

\* An entry that was kept is met if its directory is walked.
AtLeastOf(met, n) ==
    LET d == Entry[n].parent
    IN Kept(n) /\ Passed(met, d) => met[n] >= 1 \/ Unread(stack, d) \/ Certain(stack, n)

\* The total so far is the sum of what was met.
Sums(met) ==
    IF pc = "options" THEN total = 0 /\ \A n \in Node : met[n] = 0
    ELSE (IF pc = "walk" THEN total + filecount.total ELSE total)
            = SumFunctionOnSet(met, TotalNodes)

\* met: how often each entry was met.
IsHistory(met) == /\ \A n \in Node : AtMostOf(met, n) /\ AtLeastOf(met, n)
                  /\ Sums(met)

\* There is a history that explains the total, unless the plugin gave up.
CountInv == \/ pc = "exited" /\ exit = STATE_UNKNOWN
            \/ Walk /\ \E met \in [Node -> Nat] : IsHistory(met)

-----------------------------------------------------------------------------
(* The stack is a path *)

\* No directory on it is in one that comes later.
LEMMA NoWayBack ==
    ASSUME IInv, Chain, NEW j \in DOMAIN stack, NEW k \in DOMAIN stack, 1 < j, j <= k
    PROVE  Entry[stack[j].dir].parent # stack[k].dir
<1> DEFINE S == {stack[i].dir : i \in j .. k}
<1> SUFFICES ASSUME Entry[stack[j].dir].parent = stack[k].dir PROVE FALSE
  OBVIOUS
<1>1. stack \in Seq(Frames) /\ DOMAIN stack = 1 .. Len(stack) /\ Len(stack) \in Nat
  BY DEF IInv, TypeOK, Frames
<1>2. \A i \in j .. k : i \in DOMAIN stack /\ i > 1 /\ (i # j => i - 1 \in j .. k)
  BY <1>1
<1>3. \A i \in j .. k : /\ stack[i].dir \in Node
                        /\ Entry[stack[i].dir].parent = IF i = j THEN stack[k].dir ELSE stack[i - 1].dir
  BY <1>2 DEF Chain, IsPath
<1>4. k \in j .. k
  BY <1>1
<1>5. S \in SUBSET Node /\ S # {}
  BY <1>3, <1>4
<1>6. \A n \in S : Entry[n].parent \in S
  BY <1>2, <1>3, <1>4
<1> QED BY <1>5, <1>6, FileAssumption

\* The directory on top is there once, and none of its entries is.
LEMMA TopAlone ==
    ASSUME IInv, Walk, stack # <<>>
    PROVE  /\ DOMAIN stack = 1 .. Len(stack) /\ Len(stack) \in DOMAIN stack /\ Len(stack) \in Nat
           /\ Top.dir \in Node \cup DirsGiven /\ Top.todo \subseteq Node /\ Top.maybe \subseteq Node
           /\ \A k \in DOMAIN stack : k # Len(stack) => stack[k].dir # Top.dir
           /\ \A n \in Node : Entry[n].parent = Top.dir => \A k \in DOMAIN stack : stack[k].dir # n
           /\ \A n \in Top.todo \cup Top.maybe : Entry[n].parent = Top.dir
           /\ Top.dir \in Node => Descends(Entry[Top.dir]) /\ ~Ignored(Entry[Top.dir])
           /\ ~Top.open => Top.todo \cup Top.maybe = {}
           /\ pc = "walk"
<1>1. stack \in Seq(Frames) /\ DOMAIN stack = 1 .. Len(stack) /\ Len(stack) \in Nat /\ pc = "walk"
  BY DEF IInv, TypeOK, Frames, Walk, Phases
<1>2. Len(stack) \in DOMAIN stack /\ 1 \in DOMAIN stack /\ \A k \in DOMAIN stack : k \in Nat
  BY <1>1
<1>3. Top \in Frames
  BY <1>1, TopType DEF Top
<1>4. stack[1].dir \in DirsGiven /\ stack[1].dir \notin Node
  <2>1. stack[1].dir = Dirs[arg]
    BY <1>2 DEF Walk, Chain, IsPath
  <2>2. arg \in DOMAIN Dirs
    BY <1>1, FileAssumption DEF IInv, TypeOK
  <2> QED BY <2>1, <2>2, FileAssumption DEF DirsGiven
<1>5. ASSUME NEW k \in DOMAIN stack, k # Len(stack) PROVE stack[k].dir # Top.dir
  <2>1. k + 1 \in DOMAIN stack /\ k + 1 > 1 /\ k + 1 <= Len(stack) /\ (k + 1) - 1 = k
    BY <1>1, <1>5
  <2>2. Entry[stack[k + 1].dir].parent = stack[k].dir
    BY <2>1 DEF Walk, Chain, IsPath
  <2>3. Entry[stack[k + 1].dir].parent # stack[Len(stack)].dir
    BY <1>2, <2>1, NoWayBack DEF Walk
  <2> QED BY <2>2, <2>3 DEF Top
<1>6. ASSUME NEW n \in Node, Entry[n].parent = Top.dir, NEW k \in DOMAIN stack PROVE stack[k].dir # n
  <2> SUFFICES ASSUME stack[k].dir = n PROVE FALSE
    OBVIOUS
  <2>1. 1 < k /\ k <= Len(stack)
    BY <1>1, <1>2, <1>4
  <2>2. Entry[stack[k].dir].parent # stack[Len(stack)].dir
    BY <1>2, <2>1, NoWayBack DEF Walk
  <2> QED BY <1>6, <2>2 DEF Top
<1>7. /\ \A n \in Top.todo \cup Top.maybe : Entry[n].parent = Top.dir
      /\ ~Top.open => Top.todo \cup Top.maybe = {}
  BY <1>2 DEF Walk, Chain, IsPath, Top, ChildrenOf
<1>8. Top.dir \in Node => Descends(Entry[Top.dir]) /\ ~Ignored(Entry[Top.dir])
  <2>1. Top.dir \in Node => Len(stack) > 1
    BY <1>1, <1>2, <1>4 DEF Top
  <2> QED BY <1>2, <2>1 DEF Walk, Chain, IsPath, Top
<1> QED BY <1>1, <1>2, <1>3, <1>5, <1>6, <1>7, <1>8 DEF Frames

-----------------------------------------------------------------------------
(* What a step does to the stack *)

\* A call returns.
LEMMA PopEffect ==
    ASSUME NEW s \in Seq(Frames), s # <<>>, NEW t, t = SubSeq(s, 1, Len(s) - 1)
    PROVE  /\ \A d \in Node \cup DirsGiven :
                 /\ OnStack(t, d) => OnStack(s, d)
                 /\ Unread(t, d) => Unread(s, d)
                 /\ Unread(s, d) => Unread(t, d) \/ (~s[Len(s)].open /\ d = s[Len(s)].dir)
           /\ \A n \in Node :
                 /\ Possible(t, n) => Possible(s, n)
                 /\ Certain(s, n) => Certain(t, n) \/ n \in s[Len(s)].todo
<1>1. /\ DOMAIN t = 1 .. Len(s) - 1 /\ DOMAIN s = 1 .. Len(s) /\ Len(s) \in Nat
      /\ \A k \in 1 .. Len(s) - 1 : k \in DOMAIN s /\ t[k] = s[k]
  BY TopType
<1>2. \A k \in DOMAIN s : k = Len(s) \/ k \in DOMAIN t
  BY <1>1
<1> QED BY <1>1, <1>2 DEF OnStack, Unread, Possible, Certain

\* f in place of the frame on top.
WithTop(s, f) == [s EXCEPT ![Len(s)] = f]

\* The frame on top is replaced by an open one for the same directory.
LEMMA TopEffect ==
    ASSUME NEW s \in Seq(Frames), s # <<>>, NEW f, f.dir = s[Len(s)].dir, f.open,
           NEW t, t = WithTop(s, f)
    PROVE  /\ \A d \in Node \cup DirsGiven :
                 /\ OnStack(t, d) => OnStack(s, d)
                 /\ Unread(t, d) => \E k \in DOMAIN s : k # Len(s) /\ s[k].dir = d /\ ~s[k].open
                 /\ Unread(s, d) => Unread(t, d) \/ (~s[Len(s)].open /\ d = s[Len(s)].dir)
           /\ \A n \in Node :
                 /\ Possible(t, n) =>
                      \/ n \in f.todo \cup f.maybe
                      \/ \E k \in DOMAIN s : k # Len(s) /\ n \in s[k].todo \cup s[k].maybe
                 /\ Certain(s, n) => Certain(t, n) \/ n \in s[Len(s)].todo \ f.todo
                 /\ n \in f.todo => Certain(t, n)
<1>1. Len(s) \in DOMAIN s
  BY TopType
<1>2. DOMAIN t = DOMAIN s /\ \A k \in DOMAIN s : t[k] = IF k = Len(s) THEN f ELSE s[k]
  BY DEF WithTop
<1> HIDE DEF Frames
<1> QED BY <1>1, <1>2 DEF OnStack, Unread, Possible, Certain

\* A directory is to be walked next.
LEMMA PushEffect ==
    ASSUME NEW s \in Seq(Frames), NEW m \in Node, NEW t, t = Append(s, Frame(m))
    PROVE  /\ \A d \in Node \cup DirsGiven :
                 /\ OnStack(t, d) <=> OnStack(s, d) \/ d = m
                 /\ Unread(t, d) <=> Unread(s, d) \/ d = m
           /\ \A n \in Node : /\ Possible(t, n) => Possible(s, n)
                              /\ Certain(s, n) => Certain(t, n)
<1>1. PICK f : f = Frame(m)
  OBVIOUS
<1>2. f.dir = m /\ ~f.open /\ f.todo = {} /\ f.maybe = {}
  BY <1>1 DEF Frame
<1>3. /\ DOMAIN t = DOMAIN s \cup {Len(s) + 1} /\ Len(s) + 1 \notin DOMAIN s
      /\ t[Len(s) + 1] = f /\ \A k \in DOMAIN s : t[k] = s[k]
  BY <1>1
<1> QED BY <1>2, <1>3 DEF OnStack, Unread, Possible, Certain

-----------------------------------------------------------------------------
(* The history of a step that meets nothing *)

\* Types for the arithmetic.
LEMMA WalksType ==
    ASSUME NEW met \in [Node -> Nat], NEW n \in Node, appeared \in [Node -> Nat]
    PROVE  /\ Entry[n].parent \in Node \cup DirsGiven
           /\ Walks(met, Entry[n].parent) \in Nat /\ appeared[n] \in Nat /\ met[n] \in Nat
           /\ Walks(met, Entry[n].parent) * appeared[n] \in Nat
<1>1. Entry[n].parent \in Node \cup DirsGiven
  BY ParentType
<1>2. Walks(met, Entry[n].parent) \in Nat
  BY <1>1 DEF Walks
<1>3. PICK a \in Nat, w \in Nat : a = appeared[n] /\ w = Walks(met, Entry[n].parent)
  BY <1>2
<1> QED BY <1>1, <1>3

\* The flags decide which directories are walked.
LEMMA FlagsStay ==
    ASSUME opt' = opt, NEW e
    PROVE  (Descends(e)' <=> Descends(e)) /\ (Ignored(e)' <=> Ignored(e))
BY DEF Descends, Ignored, Has

\* An entry that is not touched: what may be met could be met before, or is there as its
\* directory is opened, and what is certain to be met stays so.
LEMMA EntryStays ==
    ASSUME NEW met \in [Node -> Nat], NEW new \in [Node -> Nat], NEW n \in Node,
           appeared \in [Node -> Nat], opt' = opt,
           AtMostOf(met, n), AtLeastOf(met, n), NEW d, d = Entry[n].parent,
           new[n] = met[n], appeared'[n] = appeared[n],
           Walks(new, d)' = Walks(met, d), Passed(new, d)' => Passed(met, d),
           Kept(n)' => Kept(n),
           OnStack(stack', d) => OnStack(stack, d),
           Unread(stack', d) => Unread(stack, d),
           Possible(stack', n) =>
              Possible(stack, n) \/ (Unread(stack, d) /\ appeared[n] >= 1),
           Kept(n)' /\ Passed(met, d) /\ (Unread(stack, d) \/ Certain(stack, n)) =>
              Unread(stack', d) \/ Certain(stack', n)
    PROVE  AtMostOf(new, n)' /\ AtLeastOf(new, n)'
<1>1. PICK w \in Nat, a \in Nat, m \in Nat :
         w = Walks(met, d) /\ a = appeared[n] /\ m = Walks(met, d) * appeared[n]
  BY WalksType
<1>2. /\ met[n] <= m /\ met[n] \in Nat
      /\ met[n] > 0 /\ d \in Node => Descends(Entry[d]) /\ ~Ignored(Entry[d])
      /\ OnStack(stack, d) => w >= 1
      /\ Unread(stack, d) => met[n] + a <= m
      /\ Possible(stack, n) => met[n] + 1 <= m
  BY <1>1 DEF AtMostOf
<1>3. Walks(new, d)' = w /\ Walks(new, d)' * appeared'[n] = m
  BY <1>1
<1>4. Possible(stack', n) => met[n] + 1 <= m
  BY <1>1, <1>2
<1>5. AtMostOf(new, n)'
  BY <1>1, <1>2, <1>3, <1>4, FlagsStay DEF AtMostOf
<1>6. AtLeastOf(new, n)'
  BY DEF AtLeastOf
<1> QED BY <1>5, <1>6

\* An entry whose directory is to be walked once more.
LEMMA DirWalkedAgain ==
    ASSUME NEW met \in [Node -> Nat], NEW new \in [Node -> Nat], NEW n \in Node,
           appeared \in [Node -> Nat], opt' = opt,
           AtMostOf(met, n), AtLeastOf(met, n), NEW d, d = Entry[n].parent,
           new[n] = met[n], appeared'[n] = appeared[n],
           Walks(new, d)' = Walks(met, d) + 1,
           Passed(new, d)' => Passed(met, d) \/ Unread(stack', d),
           Kept(n)' => Kept(n), ~OnStack(stack, d), ~Unread(stack, d), ~Certain(stack, n),
           ~Possible(stack', n)
    PROVE  AtMostOf(new, n)' /\ AtLeastOf(new, n)'
<1>1. PICK w \in Nat, a \in Nat, m \in Nat :
         w = Walks(met, d) /\ a = appeared[n] /\ m = w * a
  BY WalksType
<1>2. /\ met[n] <= m /\ met[n] \in Nat
      /\ met[n] > 0 /\ d \in Node => Descends(Entry[d]) /\ ~Ignored(Entry[d])
  BY <1>1 DEF AtMostOf
<1>3. (w + 1) * a = m + a
  BY <1>1
<1>4. Walks(new, d)' = w + 1 /\ Walks(new, d)' * appeared'[n] = m + a
  BY <1>1, <1>3
<1>5. new[n] <= m + a /\ w + 1 >= 1 /\ new[n] + a <= m + a
  BY <1>1, <1>2
<1>6. AtMostOf(new, n)'
  BY <1>1, <1>2, <1>4, <1>5, FlagsStay DEF AtMostOf
<1>7. AtLeastOf(new, n)'
  BY DEF AtLeastOf
<1> QED BY <1>6, <1>7

\* An entry that comes: each walk under way of its directory may meet it.
LEMMA EntryComes ==
    ASSUME NEW met \in [Node -> Nat], NEW n \in Node,
           appeared \in [Node -> Nat], opt' = opt,
           AtMostOf(met, n), NEW d, d = Entry[n].parent,
           appeared'[n] = appeared[n] + 1, Walks(met, d)' = Walks(met, d),
           OnStack(stack', d) => OnStack(stack, d),
           Unread(stack', d) => Unread(stack, d), Unread(stack, d) => OnStack(stack, d),
           Possible(stack', n) => Possible(stack, n) \/ OnStack(stack, d),
           ~Kept(n)'
    PROVE  AtMostOf(met, n)' /\ AtLeastOf(met, n)'
<1>1. PICK w \in Nat, a \in Nat, m \in Nat :
         w = Walks(met, d) /\ a = appeared[n] /\ m = w * a
  BY WalksType
<1>2. /\ met[n] <= m /\ met[n] \in Nat
      /\ met[n] > 0 /\ d \in Node => Descends(Entry[d]) /\ ~Ignored(Entry[d])
      /\ OnStack(stack, d) => w >= 1
      /\ Unread(stack, d) => met[n] + a <= m
      /\ Possible(stack, n) => met[n] + 1 <= m
  BY <1>1 DEF AtMostOf
<1>3. w * (a + 1) = m + w
  BY <1>1
<1>4. Walks(met, d)' = w /\ Walks(met, d)' * appeared'[n] = m + w /\ appeared'[n] = a + 1
  BY <1>1, <1>3
<1>5. /\ met[n] <= m + w
      /\ Unread(stack, d) => met[n] + (a + 1) <= m + w
      /\ Possible(stack, n) \/ OnStack(stack, d) => met[n] + 1 <= m + w
  BY <1>1, <1>2
<1>6. AtMostOf(met, n)'
  BY <1>1, <1>2, <1>4, <1>5, FlagsStay DEF AtMostOf
<1>7. AtLeastOf(met, n)'
  BY DEF AtLeastOf
<1> QED BY <1>6, <1>7

\* An entry that is met.
LEMMA EntryMet ==
    ASSUME NEW met \in [Node -> Nat], NEW new \in [Node -> Nat], NEW n \in Node,
           appeared \in [Node -> Nat], opt' = opt,
           AtMostOf(met, n), NEW d, d = Entry[n].parent,
           new[n] = met[n] + 1, appeared'[n] = appeared[n],
           Walks(new, d)' = Walks(met, d),
           Possible(stack, n), ~Possible(stack', n),
           OnStack(stack', d) => OnStack(stack, d), ~Unread(stack', d),
           d \in Node => Descends(Entry[d]) /\ ~Ignored(Entry[d])
    PROVE  AtMostOf(new, n)' /\ AtLeastOf(new, n)'
<1>1. PICK w \in Nat, a \in Nat, m \in Nat :
         w = Walks(met, d) /\ a = appeared[n] /\ m = Walks(met, d) * appeared[n]
  BY WalksType
<1>2. /\ met[n] + 1 <= m /\ met[n] \in Nat
      /\ OnStack(stack, d) => w >= 1
  BY <1>1 DEF AtMostOf
<1>3. Walks(new, d)' = w /\ Walks(new, d)' * appeared'[n] = m
  BY <1>1
<1>4. AtMostOf(new, n)'
  BY <1>1, <1>2, <1>3, FlagsStay DEF AtMostOf
<1>5. AtLeastOf(new, n)'
  BY <1>2 DEF AtLeastOf
<1> QED BY <1>4, <1>5

-----------------------------------------------------------------------------
(* The steps keep a history *)

\* What counts is a matter of the options.
LEMMA TotalNodesStay == ASSUME opt' = opt PROVE TotalNodes' = TotalNodes
<1>1. \A n \in Node : Unwanted(Entry[n])' = Unwanted(Entry[n])
  BY DEF Unwanted, Has, fileage, filesize
<1>2. \A n \in Node : FieldsOf(Entry[n])' = FieldsOf(Entry[n])
  BY DEF FieldsOf, Descends, Has
<1> QED BY <1>1, <1>2 DEF TotalNodes, InTotal

\* A step that counts nothing.
LEMMA SumsStay ==
    ASSUME NEW met, Sums(met), UNCHANGED <<pc, opt, total, filecount>>
    PROVE  Sums(met)'
BY TotalNodesStay DEF Sums

\* What a frame has to look at is in its directory, which is on the stack.
LEMMA StackHolds ==
    ASSUME IInv, Walk, NEW n \in Node
    PROVE  /\ Possible(stack, n) => OnStack(stack, Entry[n].parent)
           /\ Certain(stack, n) => Possible(stack, n)
           /\ Unread(stack, Entry[n].parent) => OnStack(stack, Entry[n].parent)
<1>1. \A k \in DOMAIN stack : n \in stack[k].todo \cup stack[k].maybe =>
                                 stack[k].dir = Entry[n].parent
  BY DEF Walk, Chain, IsPath, ChildrenOf
<1> QED BY <1>1 DEF Possible, Certain, Unread, OnStack

\* The arguments walked so far depend on main() only.
LEMMA GivenStays == ASSUME pc' = pc, arg' = arg PROVE \A d : Given(d)' <=> Given(d)
BY DEF Given

\* An entry comes.
LEMMA CreateCounts ==
    ASSUME IInv, Walk, NEW met \in [Node -> Nat], IsHistory(met), Create
    PROVE  Walk' /\ IsHistory(met)'
<1>1. /\ stack \in Seq(Frames) /\ present \subseteq Node /\ appeared \in [Node -> Nat]
  BY DEF IInv, TypeOK, Frames
<1>2. PICK n \in Node \ present :
         /\ Entry[n].parent \in present \cup DirsGiven
         /\ present' = present \cup {n} /\ appeared' = [appeared EXCEPT ![n] = @ + 1]
         /\ stack' = [k \in DOMAIN stack |->
                        IF stack[k].open /\ stack[k].dir = Entry[n].parent
                        THEN [stack[k] EXCEPT !.maybe = @ \cup {n}] ELSE stack[k]]
  BY DEF Create
<1>3. UNCHANGED <<pc, opt, arg, filecount, total, exit, access>> /\ pc = "walk"
  BY DEF Create
<1>4. appeared'[n] = appeared[n] + 1 /\ \A m \in Node \ {n} : appeared'[m] = appeared[m]
  BY <1>1, <1>2
<1>5. /\ DOMAIN stack' = DOMAIN stack
      /\ \A k \in DOMAIN stack :
           /\ stack'[k].dir = stack[k].dir /\ stack'[k].open = stack[k].open
           /\ stack'[k].todo = stack[k].todo
           /\ stack'[k].maybe = IF stack[k].open /\ stack[k].dir = Entry[n].parent
                                THEN stack[k].maybe \cup {n} ELSE stack[k].maybe
  <2>1. \A k \in DOMAIN stack : stack[k] \in Frames
    BY <1>1
  <2> QED BY <1>2, <2>1 DEF Frames
<1>6. \A m \in Node : Kept(m)' => m # n /\ Kept(m)
  <2> SUFFICES ASSUME NEW m \in Node, Kept(m)' PROVE m # n /\ Kept(m)
    OBVIOUS
  <2>1. m \in AtStart /\ m \in present' /\ appeared'[m] = 1
    BY DEF Kept
  <2>2. appeared[m] >= 1 /\ appeared[m] \in Nat
    BY <1>1, <2>1 DEF Walk, TreeThere
  <2> QED BY <1>2, <1>4, <2>1, <2>2 DEF Kept
<1>7. TreeThere'
  <2>1. \A m \in AtStart : appeared'[m] >= 1
    <3> SUFFICES ASSUME NEW m \in AtStart PROVE appeared'[m] >= 1
      OBVIOUS
    <3>1. m \in Node /\ appeared[m] >= 1 /\ appeared[m] \in Nat
      BY <1>1, FileAssumption DEF Walk, TreeThere
    <3> QED BY <1>4, <3>1
  <2>2. ASSUME NEW m \in present'
        PROVE  /\ appeared'[m] >= 1 /\ Entry[m].parent \in present' \cup DirsGiven
               /\ Kept(m)' => Entry[m].parent \in DirsGiven \/ Kept(Entry[m].parent)'
    <3>1. CASE m = n
      <4>1. appeared[n] \in Nat
        BY <1>1
      <4> QED BY <1>2, <1>4, <1>6, <3>1, <4>1
    <3>2. CASE m # n
      <4>1. m \in present /\ m \in Node
        BY <1>1, <1>2, <3>2
      <4>2. /\ appeared[m] >= 1 /\ Entry[m].parent \in present \cup DirsGiven
            /\ Kept(m) => Entry[m].parent \in DirsGiven \/ Kept(Entry[m].parent)
        BY <4>1 DEF Walk, TreeThere
      <4>3. \A p \in present : Kept(p) => Kept(p)'
        BY <1>1, <1>2, <1>4 DEF Kept
      <4>4. Entry[m].parent \in present \/ Entry[m].parent \in DirsGiven
        BY <4>2
      <4>5. Kept(m)' => Entry[m].parent \in DirsGiven \/ Kept(Entry[m].parent)'
        BY <1>6, <4>1, <4>2, <4>3, <4>4
      <4> QED BY <1>2, <1>4, <3>2, <4>1, <4>2, <4>5
    <3> QED BY <3>1, <3>2
  <2> QED BY <2>1, <2>2 DEF TreeThere
<1>8. Chain'
  <2>1. \A e : (Descends(e)' <=> Descends(e)) /\ (Ignored(e)' <=> Ignored(e))
    BY <1>3, FlagsStay
  <2>2. \A k \in DOMAIN stack : k \in Nat /\ (k > 1 => k - 1 \in DOMAIN stack)
    BY <1>1
  <2> QED BY <1>2, <1>3, <1>5, <2>1, <2>2 DEF Walk, Chain, IsPath, ChildrenOf
<1>9. Phases'
  BY <1>3, ParseStays DEF Walk, Phases
<1>10. \A m \in Node : AtMostOf(met, m)' /\ AtLeastOf(met, m)'
  <2> SUFFICES ASSUME NEW m \in Node PROVE AtMostOf(met, m)' /\ AtLeastOf(met, m)'
    OBVIOUS
  <2> DEFINE d == Entry[m].parent
  <2>1. AtMostOf(met, m) /\ AtLeastOf(met, m)
    BY DEF IsHistory
  <2>2. Walks(met, d)' = Walks(met, d) /\ (Passed(met, d)' <=> Passed(met, d))
    BY <1>3, GivenStays, FlagsStay DEF Walks, Passed
  <2>3. /\ OnStack(stack', d) => OnStack(stack, d)
        /\ Unread(stack', d) <=> Unread(stack, d)
        /\ Certain(stack, m) => Certain(stack', m)
        /\ Possible(stack', m) => Possible(stack, m) \/ (m = n /\ OnStack(stack, d))
    <3>1. ASSUME Possible(stack', m) PROVE Possible(stack, m) \/ (m = n /\ OnStack(stack, d))
      <4>1. PICK k \in DOMAIN stack : m \in stack'[k].todo \cup stack'[k].maybe
        BY <1>5, <3>1 DEF Possible
      <4>2. \/ m \in stack[k].todo \cup stack[k].maybe
            \/ m = n /\ stack[k].dir = Entry[n].parent
        BY <1>5, <4>1
      <4> QED BY <4>2 DEF Possible, OnStack
    <3> QED BY <1>5, <3>1 DEF OnStack, Unread, Certain
  <2>4. Unread(stack, d) => OnStack(stack, d)
    BY StackHolds
  <2> HIDE DEF d
  <2>5. d = Entry[m].parent
    BY DEF d
  <2>6. CASE m = n
    <3>1. ~Kept(m)'
      BY <1>6, <2>6
    <3>2. appeared'[m] = appeared[m] + 1 /\ opt' = opt
      BY <1>3, <1>4, <2>6
    <3> QED BY <1>1, <2>1, <2>2, <2>3, <2>4, <2>5, <3>1, <3>2, EntryComes
  <2>7. CASE m # n
    <3>1. appeared'[m] = appeared[m] /\ opt' = opt /\ (Kept(m)' => Kept(m))
      BY <1>3, <1>4, <1>6, <2>7
    <3>2. Possible(stack', m) => Possible(stack, m)
      BY <2>3, <2>7
    <3> QED BY <1>1, <2>1, <2>2, <2>3, <2>5, <3>1, <3>2, EntryStays
  <2> QED BY <2>6, <2>7
<1>11. Sums(met)'
  BY <1>3, SumsStay DEF IsHistory
<1> QED BY <1>7, <1>8, <1>9, <1>10, <1>11 DEF Walk, IsHistory

\* An entry goes away.
LEMMA RemoveCounts ==
    ASSUME IInv, Walk, NEW met \in [Node -> Nat], IsHistory(met), Remove
    PROVE  Walk' /\ IsHistory(met)'
<1>1. /\ stack \in Seq(Frames) /\ present \subseteq Node /\ appeared \in [Node -> Nat]
  BY DEF IInv, TypeOK, Frames
<1>2. PICK n \in present :
         /\ ChildrenOf(n) \cap present = {} /\ present' = present \ {n}
         /\ stack' = [k \in DOMAIN stack |->
                        IF n \in stack[k].todo
                        THEN [stack[k] EXCEPT !.todo = @ \ {n}, !.maybe = @ \cup {n}]
                        ELSE stack[k]]
  BY DEF Remove
<1>3. UNCHANGED <<pc, opt, arg, filecount, total, exit, access>> /\ pc = "walk" /\ appeared' = appeared
  BY DEF Remove
<1>4. /\ DOMAIN stack' = DOMAIN stack
      /\ \A k \in DOMAIN stack :
           /\ stack'[k].dir = stack[k].dir /\ stack'[k].open = stack[k].open
           /\ stack'[k].todo = stack[k].todo \ {n}
           /\ stack'[k].todo \cup stack'[k].maybe = stack[k].todo \cup stack[k].maybe
  <2>1. \A k \in DOMAIN stack : stack[k] \in Frames
    BY <1>1
  <2> QED BY <1>2, <2>1 DEF Frames
<1>5. \A m \in Node : Kept(m)' <=> m # n /\ Kept(m)
  BY <1>2, <1>3 DEF Kept
<1>6. TreeThere'
  <2>1. ASSUME NEW m \in present'
        PROVE  /\ appeared[m] >= 1 /\ Entry[m].parent \in present' \cup DirsGiven
               /\ Kept(m)' => Entry[m].parent \in DirsGiven \/ Kept(Entry[m].parent)'
    <3>1. m \in present /\ m # n /\ m \in Node
      BY <1>1, <1>2
    <3>2. Entry[m].parent # n
      BY <1>2, <3>1 DEF ChildrenOf
    <3>3. /\ appeared[m] >= 1 /\ Entry[m].parent \in present \cup DirsGiven
          /\ Kept(m) => Entry[m].parent \in DirsGiven \/ Kept(Entry[m].parent)
      BY <3>1 DEF Walk, TreeThere
    <3> QED BY <1>1, <1>2, <1>5, <3>1, <3>2, <3>3
  <2> QED BY <1>3, <2>1 DEF Walk, TreeThere
<1>7. Chain'
  <2>1. \A e : (Descends(e)' <=> Descends(e)) /\ (Ignored(e)' <=> Ignored(e))
    BY <1>3, FlagsStay
  <2>2. \A k \in DOMAIN stack : k \in Nat /\ (k > 1 => k - 1 \in DOMAIN stack)
    BY <1>1
  <2> QED BY <1>3, <1>4, <2>1, <2>2 DEF Walk, Chain, IsPath, ChildrenOf
<1>8. Phases'
  BY <1>3, ParseStays DEF Walk, Phases
<1>9. \A m \in Node : AtMostOf(met, m)' /\ AtLeastOf(met, m)'
  <2> SUFFICES ASSUME NEW m \in Node PROVE AtMostOf(met, m)' /\ AtLeastOf(met, m)'
    OBVIOUS
  <2> DEFINE d == Entry[m].parent
  <2>1. AtMostOf(met, m) /\ AtLeastOf(met, m)
    BY DEF IsHistory
  <2>2. Walks(met, d)' = Walks(met, d) /\ (Passed(met, d)' <=> Passed(met, d))
    BY <1>3, GivenStays, FlagsStay DEF Walks, Passed
  <2>3. /\ OnStack(stack', d) => OnStack(stack, d)
        /\ Unread(stack', d) <=> Unread(stack, d)
        /\ Certain(stack, m) /\ m # n => Certain(stack', m)
        /\ Possible(stack', m) => Possible(stack, m)
    BY <1>4 DEF OnStack, Unread, Certain, Possible
  <2>4. Kept(m)' => Kept(m) /\ m # n
    BY <1>5
  <2>5. Kept(m)' /\ Passed(met, d) /\ (Unread(stack, d) \/ Certain(stack, m)) =>
           Unread(stack', d) \/ Certain(stack', m)
    BY <2>3, <2>4
  <2> HIDE DEF d
  <2>6. d = Entry[m].parent
    BY DEF d
  <2>7. appeared'[m] = appeared[m] /\ opt' = opt
    BY <1>3
  <2> QED BY <1>1, <2>1, <2>2, <2>3, <2>4, <2>5, <2>6, <2>7, EntryStays
<1>10. Sums(met)'
  BY <1>3, SumsStay DEF IsHistory
<1> QED BY SMTT(30), <1>6, <1>7, <1>8, <1>9, <1>10 DEF Walk, IsHistory

\* The tree is a matter of the other processes.
LEMMA TreeStays ==
    ASSUME UNCHANGED <<present, appeared>>
    PROVE  TreeThere' = TreeThere /\ \A n \in Node : Kept(n)' <=> Kept(n)
BY DEF TreeThere, Kept

\* Nothing is under way on an empty stack.
LEMMA NothingDue ==
    ASSUME stack = <<>>, NEW n
    PROVE  ~OnStack(stack, n) /\ ~Unread(stack, n) /\ ~Certain(stack, n) /\ ~Possible(stack, n)
BY DEF OnStack, Unread, Certain, Possible

\* A step of main() between two walks.
LEMMA BetweenCounts ==
    ASSUME IInv, Walk, NEW met \in [Node -> Nat], IsHistory(met),
           stack = <<>>, UNCHANGED <<opt, stack, fs>>, \A d \in DirsGiven : Given(d)' <=> Given(d)
    PROVE  TreeThere' /\ Chain' /\ \A n \in Node : AtMostOf(met, n)' /\ AtLeastOf(met, n)'
<1>1. UNCHANGED <<present, appeared, access>> /\ appeared \in [Node -> Nat]
  BY DEF fs, IInv, TypeOK
<1>2. TreeThere' /\ \A n \in Node : Kept(n)' <=> Kept(n)
  BY <1>1, TreeStays DEF Walk
<1>3. Chain'
  BY DEF Chain, IsPath
<1>4. ASSUME NEW n \in Node PROVE AtMostOf(met, n)' /\ AtLeastOf(met, n)'
  <2> DEFINE d == Entry[n].parent
  <2>1. AtMostOf(met, n) /\ AtLeastOf(met, n) /\ d \in Node \cup DirsGiven
    BY ParentType DEF IsHistory
  <2>2. Walks(met, d)' = Walks(met, d) /\ (Passed(met, d)' <=> Passed(met, d))
    BY <1>1, <2>1, FlagsStay DEF Walks, Passed
  <2>3. ~Unread(stack, d) /\ ~Certain(stack, n) /\ ~Possible(stack, n)
    BY NothingDue
  <2>4. appeared'[n] = appeared[n] /\ opt' = opt /\ stack' = stack /\ (Kept(n)' => Kept(n))
    BY <1>1, <1>2
  <2> HIDE DEF d
  <2>5. d = Entry[n].parent
    BY DEF d
  <2> QED BY <1>1, <2>1, <2>2, <2>3, <2>4, <2>5, EntryStays
<1> QED BY <1>2, <1>3, <1>4

\* The entries are finitely many.
LEMMA TotalNodesType == IsFiniteSet(TotalNodes) /\ TotalNodes \subseteq Node
<1>1. TotalNodes \subseteq Node
  BY DEF TotalNodes
<1> QED BY <1>1, FileAssumption, FS_Subset

\* The loop over the arguments, but for the next one.
LEMMA MainCounts ==
    ASSUME IInv, Walk, NEW met \in [Node -> Nat], IsHistory(met),
           ParseOptions \/ WalkDone \/ Return, ~(pc' = "exited" /\ exit' = STATE_UNKNOWN)
    PROVE  Walk' /\ IsHistory(met)'
<1>1. /\ arg \in 1 .. Len(Dirs) + 1 /\ Len(Dirs) \in Nat /\ \A j \in DOMAIN Dirs : j \in Nat
      /\ opt' = opt /\ total \in Nat /\ filecount.total \in Nat
  <2>1. Len(Dirs) \in Nat /\ \A j \in DOMAIN Dirs : j \in Nat
    BY FileAssumption
  <2>2. arg \in 1 .. Len(Dirs) + 1 /\ total \in Nat /\ filecount.total \in Nat
    BY Fields DEF IInv, TypeOK
  <2> QED BY <2>1, <2>2 DEF ParseOptions, WalkDone, Return, Fail
<1>2. CASE ParseOptions
  <2>1. /\ pc = "options" /\ pc' = "next" /\ ArgumentsParse /\ UNCHANGED <<walk, exit, fs>>
    BY <1>2 DEF ParseOptions, Fail
  <2>2. UNCHANGED <<arg, stack, total>> /\ stack = <<>> /\ arg = 1
    BY <2>1 DEF walk, Walk, Phases
  <2>3. \A d \in DirsGiven : Given(d)' <=> Given(d)
    BY <1>1, <2>1, <2>2 DEF Given
  <2>4. TreeThere' /\ Chain' /\ \A n \in Node : AtMostOf(met, n)' /\ AtLeastOf(met, n)'
    BY <1>1, <2>1, <2>2, <2>3, BetweenCounts
  <2>5. Phases'
    BY <1>1, <2>1, <2>2, ParseStays DEF Phases
  <2>6. Sums(met)'
    <3>1. total = 0 /\ \A n \in Node : met[n] = 0
      BY <2>1 DEF IsHistory, Sums
    <3>2. SumFunctionOnSet(met, TotalNodes) = 0
      BY <3>1, TotalNodesType, SumZero
    <3> QED BY <1>1, <2>1, <2>2, <3>1, <3>2, TotalNodesStay DEF Sums
  <2> QED BY <2>4, <2>5, <2>6 DEF Walk, IsHistory
<1>3. CASE WalkDone
  <2>1. /\ pc = "walk" /\ pc' = "next" /\ arg' = arg + 1 /\ stack = <<>>
        /\ total' = total + filecount.total /\ UNCHANGED <<stack, exit, fs>>
    BY <1>3 DEF WalkDone
  <2>2. \A d \in DirsGiven : Given(d)' <=> Given(d)
    BY <1>1, <2>1 DEF Given
  <2>3. TreeThere' /\ Chain' /\ \A n \in Node : AtMostOf(met, n)' /\ AtLeastOf(met, n)'
    BY <1>1, <2>1, <2>2, BetweenCounts
  <2>4. Phases'
    BY <1>1, <2>1, ParseStays DEF Phases, Walk
  <2>5. Sums(met)'
    BY <1>1, <2>1, TotalNodesStay DEF Sums, IsHistory
  <2> QED BY <2>3, <2>4, <2>5 DEF Walk, IsHistory
<1>4. CASE Return
  <2>1. /\ pc = "next" /\ pc' = "exited" /\ arg > Len(Dirs)
        /\ exit' = get_status(total, opt.my_threshold) /\ UNCHANGED <<walk, fs>>
    BY <1>4 DEF Return, Fail
  <2>2. UNCHANGED <<arg, stack, total>> /\ stack = <<>>
    BY <2>1 DEF walk, Walk, Phases
  <2>3. \A d \in DirsGiven : Given(d)' <=> Given(d)
    BY <1>1, <2>1, <2>2 DEF Given
  <2>4. TreeThere' /\ Chain' /\ \A n \in Node : AtMostOf(met, n)' /\ AtLeastOf(met, n)'
    BY <1>1, <2>1, <2>2, <2>3, BetweenCounts
  <2>5. Phases'
    <3>1. arg = Len(Dirs) + 1
      BY <1>1, <2>1
    <3>2. get_status(total, opt.my_threshold)' = get_status(total, opt.my_threshold)
      BY <1>1, <2>2
    <3> QED BY <1>1, <2>1, <2>2, <3>1, <3>2, ParseStays DEF Phases, Walk
  <2>6. Sums(met)'
    BY <1>1, <2>1, <2>2, TotalNodesStay DEF Sums, IsHistory
  <2> QED BY <2>4, <2>5, <2>6 DEF Walk, IsHistory
<1> QED BY <1>2, <1>3, <1>4

\* The walk of the next argument begins: each of its entries has its chance.
LEMMA NextCounts ==
    ASSUME IInv, Walk, NEW met \in [Node -> Nat], IsHistory(met), NextDir
    PROVE  Walk' /\ IsHistory(met)'
<1> DEFINE D == Dirs[arg]
<1>1. /\ pc = "next" /\ pc' = "walk" /\ stack' = <<Frame(D)>> /\ filecount' = NoCount
      /\ arg <= Len(Dirs) /\ UNCHANGED <<opt, arg, total, exit, fs>> /\ stack = <<>>
  BY DEF NextDir, Walk, Phases
<1>2. UNCHANGED <<present, appeared, access>> /\ appeared \in [Node -> Nat] /\ total \in Nat
  BY <1>1 DEF fs, IInv, TypeOK
<1>3. arg \in DOMAIN Dirs /\ D \in DirsGiven /\ D \notin Node
  BY <1>1, FileAssumption DEF IInv, TypeOK, DirsGiven
<1>4. \A d \in DirsGiven : Given(d)' <=> Given(d) \/ d = D
  <2>1. \A j \in DOMAIN Dirs : j \in Nat
    BY FileAssumption
  <2> QED BY <1>1, <1>3, <2>1 DEF Given
<1>5. ~Given(D)
  <2>1. \A j \in DOMAIN Dirs : j \in Nat /\ (Dirs[j] = D => j = arg)
    BY <1>3, FileAssumption
  <2>2. arg \in Nat
    BY <1>3, <2>1
  <2> QED BY <1>1, <2>1, <2>2 DEF Given
<1>6. TreeThere' /\ \A n \in Node : Kept(n)' <=> Kept(n)
  BY <1>2, TreeStays DEF Walk
<1> HIDE DEF D
<1>7. /\ DOMAIN stack' = {1} /\ stack'[1].dir = D /\ ~stack'[1].open
      /\ stack'[1].todo = {} /\ stack'[1].maybe = {}
  BY <1>1 DEF Frame
<1>8. Chain'
  <2>1. D = Dirs[arg]'
    BY <1>1 DEF D
  <2> QED BY <1>7, <2>1 DEF Chain, IsPath
<1>9. Phases'
  BY <1>1, ParseStays DEF Phases, Walk
<1>10. ASSUME NEW n \in Node PROVE AtMostOf(met, n)' /\ AtLeastOf(met, n)'
  <2> DEFINE d == Entry[n].parent
  <2>1. AtMostOf(met, n) /\ AtLeastOf(met, n) /\ d \in Node \cup DirsGiven
    BY ParentType DEF IsHistory
  <2>2. /\ ~OnStack(stack, d) /\ ~Unread(stack, d) /\ ~Certain(stack, n) /\ ~Possible(stack, n)
    BY <1>1, NothingDue
  <2>3. /\ ~Possible(stack', n) /\ (Unread(stack', d) <=> d = D) /\ (OnStack(stack', d) <=> d = D)
    BY <1>7 DEF Possible, Unread, OnStack
  <2>4. appeared'[n] = appeared[n] /\ opt' = opt /\ (Kept(n)' => Kept(n))
    BY <1>1, <1>2, <1>6
  <2> HIDE DEF d
  <2>5. d = Entry[n].parent
    BY DEF d
  <2>6. CASE d = D
    <3>1. Walks(met, d)' = Walks(met, d) + 1
      BY <1>3, <1>4, <1>5, <2>6 DEF Walks
    <3> QED BY <1>2, <2>1, <2>2, <2>3, <2>4, <2>5, <2>6, <3>1, DirWalkedAgain
  <2>7. CASE d # D
    <3>1. Walks(met, d)' = Walks(met, d) /\ (Passed(met, d)' <=> Passed(met, d))
      BY <1>1, <1>2, <1>4, <2>1, <2>7, FlagsStay DEF Walks, Passed
    <3> QED BY <1>2, <2>1, <2>2, <2>3, <2>4, <2>5, <2>7, <3>1, EntryStays
  <2> QED BY <2>6, <2>7
<1>11. Sums(met)'
  <2>1. filecount'.total = 0
    BY <1>1 DEF NoCount
  <2>2. total = SumFunctionOnSet(met, TotalNodes)
    BY <1>1 DEF IsHistory, Sums
  <2> QED BY <1>1, <1>2, <2>1, <2>2, TotalNodesStay DEF Sums
<1> QED BY <1>6, <1>8, <1>9, <1>10, <1>11 DEF Walk, IsHistory

\* A step of the walk that meets nothing.
LEMMA StackCounts ==
    ASSUME IInv, Walk, NEW met \in [Node -> Nat], IsHistory(met), pc = "walk",
           UNCHANGED <<pc, opt, arg, filecount, total, exit, fs>>,
           NEW s, stack' = s, IsPath(s),
           \A d \in Node \cup DirsGiven : /\ OnStack(s, d) => OnStack(stack, d)
                                          /\ Unread(s, d) => Unread(stack, d),
           \A n \in Node : Possible(s, n) =>
              Possible(stack, n) \/ (Unread(stack, Entry[n].parent) /\ appeared[n] >= 1),
           \A n \in Node : Kept(n) /\ Passed(met, Entry[n].parent)
                           /\ (Unread(stack, Entry[n].parent) \/ Certain(stack, n)) =>
              Unread(s, Entry[n].parent) \/ Certain(s, n)
    PROVE  Walk' /\ IsHistory(met)'
<1>1. UNCHANGED <<present, appeared, access>> /\ appeared \in [Node -> Nat]
  BY DEF fs, IInv, TypeOK
<1>2. TreeThere' /\ \A n \in Node : Kept(n)' <=> Kept(n)
  BY <1>1, TreeStays DEF Walk
<1>3. Chain'
  BY FlagsStay DEF Chain, IsPath
<1>4. Phases'
  BY ParseStays DEF Walk, Phases
<1>5. ASSUME NEW n \in Node PROVE AtMostOf(met, n)' /\ AtLeastOf(met, n)'
  <2> DEFINE d == Entry[n].parent
  <2>1. AtMostOf(met, n) /\ AtLeastOf(met, n) /\ d \in Node \cup DirsGiven
    BY ParentType DEF IsHistory
  <2>2. Walks(met, d)' = Walks(met, d) /\ (Passed(met, d)' <=> Passed(met, d))
    BY <1>1, <2>1, GivenStays, FlagsStay DEF Walks, Passed
  <2>3. appeared'[n] = appeared[n] /\ opt' = opt /\ (Kept(n)' => Kept(n))
    BY <1>1, <1>2
  <2>4. /\ OnStack(stack', d) => OnStack(stack, d)
        /\ Unread(stack', d) => Unread(stack, d)
        /\ Possible(stack', n) => Possible(stack, n) \/ (Unread(stack, d) /\ appeared[n] >= 1)
        /\ Kept(n)' /\ Passed(met, d) /\ (Unread(stack, d) \/ Certain(stack, n)) =>
              Unread(stack', d) \/ Certain(stack', n)
    BY <1>2, <2>1
  <2> HIDE DEF d
  <2>5. d = Entry[n].parent
    BY DEF d
  <2> QED BY <1>1, <2>1, <2>2, <2>3, <2>4, <2>5, EntryStays
<1>6. Sums(met)'
  BY SumsStay DEF IsHistory
<1> QED BY <1>2, <1>3, <1>4, <1>5, <1>6 DEF Walk, IsHistory

\* A path without its end is one.
LEMMA PopPath ==
    ASSUME IInv, Walk, stack # <<>>
    PROVE  IsPath(Pop)
<1>1. /\ stack \in Seq(Frames) /\ Len(stack) \in Nat
      /\ DOMAIN Pop = 1 .. Len(stack) - 1
      /\ \A k \in 1 .. Len(stack) - 1 : k \in DOMAIN stack /\ Pop[k] = stack[k]
  BY TopType, TopAlone DEF IInv, TypeOK, Frames, Pop
<1>2. \A k \in DOMAIN Pop : k > 1 => k - 1 \in DOMAIN Pop
  BY <1>1
<1> QED BY <1>1, <1>2 DEF Walk, Chain, IsPath

\* A path with another frame for its last directory is one.
LEMMA TopPath ==
    ASSUME IInv, Walk, stack # <<>>, NEW f, f.dir = Top.dir, f.open,
           f.todo \cup f.maybe \subseteq ChildrenOf(Top.dir)
    PROVE  IsPath([stack EXCEPT ![Len(stack)] = f])
<1> DEFINE s == [stack EXCEPT ![Len(stack)] = f]
<1>1. stack \in Seq(Frames) /\ Len(stack) \in DOMAIN stack /\ DOMAIN stack = 1 .. Len(stack)
      /\ Len(stack) \in Nat
  BY TopAlone DEF IInv, TypeOK, Frames
<1>2. DOMAIN s = DOMAIN stack /\ \A k \in DOMAIN stack : s[k] = IF k = Len(stack) THEN f ELSE stack[k]
  BY <1>1
<1>3. \A k \in DOMAIN stack : s[k].dir = stack[k].dir /\ (k > 1 => k - 1 \in DOMAIN stack)
  BY <1>1, <1>2 DEF Top
<1> HIDE DEF s
<1>4. IsPath(s)
  BY <1>1, <1>2, <1>3 DEF Walk, Chain, IsPath, Top
<1> QED BY <1>4 DEF s

\* A directory is at its end.
LEMMA EndCounts ==
    ASSUME IInv, Walk, NEW met \in [Node -> Nat], IsHistory(met), EndOfDir
    PROVE  Walk' /\ IsHistory(met)'
<1>1. /\ pc = "walk" /\ stack # <<>> /\ Top.open /\ Top.todo = {} /\ stack' = Pop
      /\ UNCHANGED <<pc, opt, arg, filecount, total, exit, fs>>
  BY DEF EndOfDir, Walking
<1>2. stack \in Seq(Frames)
  BY DEF IInv, TypeOK, Frames
<1>3. /\ \A d \in Node \cup DirsGiven :
            /\ OnStack(Pop, d) => OnStack(stack, d)
            /\ Unread(Pop, d) => Unread(stack, d)
            /\ Unread(stack, d) => Unread(Pop, d) \/ (~Top.open /\ d = Top.dir)
      /\ \A n \in Node :
            /\ Possible(Pop, n) => Possible(stack, n)
            /\ Certain(stack, n) => Certain(Pop, n) \/ n \in Top.todo
  BY <1>1, <1>2, PopEffect DEF Pop, Top
<1>4. IsPath(Pop)
  BY <1>1, PopPath
<1>5. \A n \in Node : Unread(stack, Entry[n].parent) \/ Certain(stack, n) =>
                         Unread(Pop, Entry[n].parent) \/ Certain(Pop, n)
  BY <1>1, <1>3, ParentType
<1> QED BY <1>1, <1>3, <1>4, <1>5, StackCounts

\* opendir(): what is there will be met; and if it fails, nothing is lost that was kept.
LEMMA OpenCounts ==
    ASSUME IInv, Walk, NEW met \in [Node -> Nat], IsHistory(met), OpenDir,
           ~(pc' = "exited" /\ exit' = STATE_UNKNOWN)
    PROVE  Walk' /\ IsHistory(met)'
<1>1. pc = "walk" /\ stack # <<>> /\ ~Top.open
  BY DEF OpenDir, Walking
<1>2. stack \in Seq(Frames) /\ appeared \in [Node -> Nat] /\ present \subseteq Node
  BY DEF IInv, TypeOK, Frames
<1>3. /\ Len(stack) \in DOMAIN stack /\ Top.dir \in Node \cup DirsGiven
      /\ \A k \in DOMAIN stack : k # Len(stack) => stack[k].dir # Top.dir
      /\ Top.todo = {} /\ Top.maybe = {}
  BY <1>1, TopAlone
<1>4. CASE Top.dir \in present \cup DirsGiven /\ access[Top.dir] # "no"
  <2> DEFINE f == [Top EXCEPT !.open = TRUE, !.todo = ChildrenOf(Top.dir) \cap present]
             s == [stack EXCEPT ![Len(stack)] = f]
  <2>1. stack' = s /\ UNCHANGED <<pc, opt, arg, filecount, total, exit, fs>>
    BY <1>3, <1>4 DEF OpenDir, Top
  <2>2. /\ f.dir = Top.dir /\ f.open /\ f.maybe = {}
        /\ f.todo = ChildrenOf(Top.dir) \cap present
    <3>1. Top \in Frames
      BY <1>2, <1>3, TopType DEF Top
    <3> QED BY <1>3, <3>1 DEF Frames
  <2> HIDE DEF f
  <2>3. IsPath(s)
    BY <1>1, <2>2, TopPath
  <2>4. /\ \A d \in Node \cup DirsGiven :
              /\ OnStack(s, d) => OnStack(stack, d)
              /\ Unread(s, d) => \E k \in DOMAIN stack :
                                    k # Len(stack) /\ stack[k].dir = d /\ ~stack[k].open
              /\ Unread(stack, d) => Unread(s, d) \/ d = Top.dir
        /\ \A n \in Node :
              /\ Possible(s, n) =>
                   \/ n \in f.todo \cup f.maybe
                   \/ \E k \in DOMAIN stack : k # Len(stack) /\ n \in stack[k].todo \cup stack[k].maybe
              /\ Certain(stack, n) => Certain(s, n) \/ n \in Top.todo \ f.todo
              /\ n \in f.todo => Certain(s, n)
    <3>1. s = WithTop(stack, f) /\ f.dir = stack[Len(stack)].dir
      BY <2>2 DEF WithTop, Top
    <3> HIDE DEF s
    <3> QED BY <1>1, <1>2, <2>2, <3>1, TopEffect DEF Top
  <2> HIDE DEF s
  <2>5. \A d \in Node \cup DirsGiven : Unread(s, d) => Unread(stack, d)
    BY <2>4 DEF Unread
  <2>6. Unread(stack, Top.dir)
    BY <1>1, <1>3 DEF Unread, Top
  <2>7. \A n \in present : appeared[n] >= 1
    BY DEF Walk, TreeThere
  <2>8. \A n \in Node : Possible(s, n) =>
           Possible(stack, n) \/ (Unread(stack, Entry[n].parent) /\ appeared[n] >= 1)
    BY <2>2, <2>4, <2>6, <2>7 DEF Possible, ChildrenOf
  <2>9. \A n \in Node : Kept(n) /\ (Unread(stack, Entry[n].parent) \/ Certain(stack, n)) =>
           Unread(s, Entry[n].parent) \/ Certain(s, n)
    BY <1>3, <2>2, <2>4, ParentType DEF Kept, ChildrenOf
  <2> QED BY <1>1, <2>1, <2>3, <2>4, <2>5, <2>8, <2>9, StackCounts
<1>5. CASE ~(Top.dir \in present \cup DirsGiven /\ access[Top.dir] # "no")
  <2>1. Top.dir \notin DirsGiven
    BY <1>5 DEF OpenDir, Fail
  <2>2. stack' = Pop /\ UNCHANGED <<pc, opt, arg, filecount, total, exit, fs>>
    BY <1>5, <2>1 DEF OpenDir
  <2>3. /\ \A d \in Node \cup DirsGiven :
              /\ OnStack(Pop, d) => OnStack(stack, d)
              /\ Unread(Pop, d) => Unread(stack, d)
              /\ Unread(stack, d) => Unread(Pop, d) \/ (~Top.open /\ d = Top.dir)
        /\ \A n \in Node :
              /\ Possible(Pop, n) => Possible(stack, n)
              /\ Certain(stack, n) => Certain(Pop, n) \/ n \in Top.todo
    BY <1>1, <1>2, PopEffect DEF Pop, Top
  <2>4. IsPath(Pop)
    BY <1>1, PopPath
  <2>5. ASSUME NEW n \in Node, Kept(n), Passed(met, Entry[n].parent)
        PROVE  Entry[n].parent # Top.dir
    <3> SUFFICES ASSUME Entry[n].parent = Top.dir PROVE FALSE
      OBVIOUS
    <3>1. Top.dir \in Node /\ access[Top.dir] # "no"
      BY <1>3, <2>1, <2>5 DEF Passed
    <3>2. Top.dir \in present
      BY <2>1, <2>5 DEF Kept, Walk, TreeThere
    <3> QED BY <1>5, <3>1, <3>2
  <2>6. \A n \in Node : Kept(n) /\ Passed(met, Entry[n].parent)
                        /\ (Unread(stack, Entry[n].parent) \/ Certain(stack, n)) =>
           Unread(Pop, Entry[n].parent) \/ Certain(Pop, n)
    BY <1>3, <2>3, <2>5, ParentType
  <2> QED BY <1>1, <2>2, <2>3, <2>4, <2>6, StackCounts
<1> QED BY <1>4, <1>5

\* A path may go on in a directory that is to be walked.
LEMMA PushPath ==
    ASSUME NEW s \in Seq(Frames), IsPath(s), s # <<>>, NEW n \in Node,
           Entry[n].parent = s[Len(s)].dir, Descends(Entry[n]), ~Ignored(Entry[n])
    PROVE  IsPath(Append(s, Frame(n)))
<1>1. PICK f : f = Frame(n)
  OBVIOUS
<1>2. f.dir = n /\ f.todo = {} /\ f.maybe = {}
  BY <1>1 DEF Frame
<1> DEFINE t == Append(s, f)
<1>3. /\ DOMAIN s = 1 .. Len(s) /\ Len(s) \in Nat /\ Len(s) >= 1
      /\ DOMAIN t = DOMAIN s \cup {Len(s) + 1} /\ t[Len(s) + 1] = f
      /\ \A k \in DOMAIN s : t[k] = s[k]
  OBVIOUS
<1> HIDE DEF t
<1>4. \A k \in DOMAIN s : k > 1 => k - 1 \in DOMAIN s
  BY <1>3
<1>5. t[Len(s)] = s[Len(s)] /\ (Len(s) + 1) - 1 = Len(s) /\ Len(s) + 1 # 1
  BY <1>3
<1>6. ASSUME NEW k \in DOMAIN s
      PROVE  /\ k = 1 => t[k].dir = Dirs[arg]
             /\ k > 1 => /\ t[k].dir \in Node /\ Entry[t[k].dir].parent = t[k - 1].dir
                         /\ Descends(Entry[t[k].dir]) /\ ~Ignored(Entry[t[k].dir])
             /\ t[k].todo \cup t[k].maybe \subseteq ChildrenOf(t[k].dir)
             /\ ~t[k].open => t[k].todo \cup t[k].maybe = {}
  BY <1>3, <1>4 DEF IsPath
<1>7. IsPath(t)
  BY <1>2, <1>3, <1>5, <1>6 DEF IsPath
<1> QED BY <1>1, <1>7 DEF t

\* What readdir() makes of the stack: the entry returned is not met again in this walk of
\* its directory, and is walked itself if it is a directory to descend to.
LEMMA ReadStack ==
    ASSUME IInv, Walk, NEW n \in Node, ReadEntry(n),
           ~(pc' = "exited" /\ exit' = STATE_UNKNOWN)
    PROVE  LET pushed == Descends(Entry[n]) /\ ~Ignored(Entry[n])
           IN /\ filecount' = Counted(filecount, Entry[n]) /\ pc = "walk"
              /\ UNCHANGED <<pc, opt, arg, total, exit, fs>>
              /\ Chain' /\ Possible(stack, n) /\ ~OnStack(stack, n)
              /\ Entry[n].parent # n /\ ~Unread(stack', Entry[n].parent)
              /\ Entry[n].parent \in Node =>
                    Descends(Entry[Entry[n].parent]) /\ ~Ignored(Entry[Entry[n].parent])
              /\ \A d \in Node \cup DirsGiven :
                    /\ OnStack(stack', d) => OnStack(stack, d) \/ (pushed /\ d = n)
                    /\ Unread(stack', d) => Unread(stack, d) \/ (pushed /\ d = n)
                    /\ Unread(stack, d) \/ (pushed /\ d = n) => Unread(stack', d)
              /\ \A m \in Node :
                    /\ Possible(stack', m) => Possible(stack, m) /\ m # n
                    /\ Certain(stack, m) /\ m # n => Certain(stack', m)
<1> DEFINE pushed == Descends(Entry[n]) /\ ~Ignored(Entry[n])
           f == [Top EXCEPT !.todo = @ \ {n}, !.maybe = @ \ {n}]
           s == WithTop(stack, f)
<1>1. /\ pc = "walk" /\ stack # <<>> /\ Top.open /\ n \in Top.todo \cup Top.maybe
      /\ filecount' = Counted(filecount, Entry[n])
      /\ stack' = IF pushed THEN Append(s, Frame(n)) ELSE s
      /\ UNCHANGED <<pc, opt, arg, total, exit, fs>>
  BY DEF ReadEntry, Walking, Fail, Ignored, WithTop
<1>2. stack \in Seq(Frames)
  BY DEF IInv, TypeOK, Frames
<1>3. /\ Len(stack) \in DOMAIN stack /\ Top.dir \in Node \cup DirsGiven
      /\ \A k \in DOMAIN stack : k # Len(stack) => stack[k].dir # Top.dir
      /\ \A k \in DOMAIN stack : stack[k].dir # n
      /\ \A m \in Top.todo \cup Top.maybe : Entry[m].parent = Top.dir
      /\ Top.dir \in Node => Descends(Entry[Top.dir]) /\ ~Ignored(Entry[Top.dir])
  BY <1>1, TopAlone
<1>4. Top \in Frames
  BY <1>1, <1>2, TopType DEF Top
<1>5. /\ f.dir = Top.dir /\ f.open /\ f.todo = Top.todo \ {n} /\ f.maybe = Top.maybe \ {n}
      /\ f \in Frames
  BY <1>1, <1>4 DEF Frames
<1>6. Entry[n].parent = Top.dir /\ Top.dir # n
  BY <1>1, <1>3 DEF Top
<1> HIDE DEF f, pushed
<1>7. /\ \A d \in Node \cup DirsGiven :
            /\ OnStack(s, d) => OnStack(stack, d)
            /\ Unread(s, d) => \E k \in DOMAIN stack :
                                  k # Len(stack) /\ stack[k].dir = d /\ ~stack[k].open
            /\ Unread(stack, d) => Unread(s, d)
      /\ \A m \in Node :
            /\ Possible(s, m) =>
                 \/ m \in f.todo \cup f.maybe
                 \/ \E k \in DOMAIN stack : k # Len(stack) /\ m \in stack[k].todo \cup stack[k].maybe
            /\ Certain(stack, m) => Certain(s, m) \/ m \in Top.todo \ f.todo
  BY <1>1, <1>2, <1>5, TopEffect DEF Top
<1>8. IsPath(s) /\ s \in Seq(Frames) /\ s # <<>> /\ s[Len(s)].dir = Top.dir
  <2>1. f.todo \cup f.maybe \subseteq ChildrenOf(Top.dir)
    BY <1>3, <1>4, <1>5 DEF ChildrenOf, Frames
  <2>2. IsPath(s)
    BY <1>1, <1>5, <2>1, TopPath DEF WithTop
  <2>3. PICK old : old = stack
    OBVIOUS
  <2>4. s \in Seq(Frames) /\ Len(s) = Len(old) /\ s[Len(old)] = f
    <3>1. old \in Seq(Frames) /\ Len(old) \in DOMAIN old /\ s = [old EXCEPT ![Len(old)] = f]
      BY <1>2, <1>3, <2>3 DEF WithTop
    <3> HIDE DEF s
    <3> QED BY <1>5, <3>1
  <2> HIDE DEF s
  <2>5. s # <<>>
    BY <1>3, <2>3, <2>4
  <2> QED BY <1>5, <2>2, <2>4, <2>5
<1> HIDE DEF s
<1>9. ~Unread(s, Top.dir)
  BY <1>3, <1>7
<1>10. \A m \in Node : /\ Possible(s, m) => Possible(stack, m) /\ m # n
                       /\ Certain(stack, m) /\ m # n => Certain(s, m)
  <2>1. ASSUME NEW m \in Node, Possible(s, m) PROVE Possible(stack, m) /\ m # n
    <3>1. CASE m \in f.todo \cup f.maybe
      BY <1>3, <1>5, <3>1 DEF Possible, Top
    <3>2. CASE \E k \in DOMAIN stack : k # Len(stack) /\ m \in stack[k].todo \cup stack[k].maybe
      <4>1. PICK k \in DOMAIN stack : k # Len(stack) /\ m \in stack[k].todo \cup stack[k].maybe
        BY <3>2
      <4>2. Entry[m].parent = stack[k].dir
        BY <4>1 DEF Walk, Chain, IsPath, ChildrenOf
      <4> QED BY <1>3, <1>6, <4>1, <4>2 DEF Possible
    <3> QED BY <1>7, <2>1, <3>1, <3>2
  <2> QED BY <1>5, <1>7, <2>1
<1>11. Possible(stack, n) /\ ~OnStack(stack, n)
  BY <1>1, <1>3 DEF Possible, OnStack, Top
<1>12. \A d \in Node \cup DirsGiven : Unread(s, d) => Unread(stack, d)
  BY <1>7 DEF Unread
<1>13. CASE ~pushed
  <2>1. stack' = s
    BY <1>1, <1>13
  <2>2. Chain'
    BY <1>1, <1>8, <2>1, FlagsStay DEF Chain, IsPath
  <2> QED BY <1>1, <1>3, <1>6, <1>7, <1>9, <1>10, <1>11, <1>12, <1>13, <2>1, <2>2 DEF pushed
<1>14. CASE pushed
  <2> DEFINE t == Append(s, Frame(n))
  <2>1. stack' = t
    BY <1>1, <1>14
  <2>2. IsPath(t)
    BY <1>6, <1>8, <1>14, PushPath DEF pushed
  <2>3. /\ \A d \in Node \cup DirsGiven : /\ OnStack(t, d) <=> OnStack(s, d) \/ d = n
                                          /\ Unread(t, d) <=> Unread(s, d) \/ d = n
        /\ \A m \in Node : /\ Possible(t, m) => Possible(s, m)
                           /\ Certain(s, m) => Certain(t, m)
    BY <1>8, PushEffect
  <2> HIDE DEF t
  <2>4. Chain'
    BY <1>1, <2>1, <2>2, FlagsStay DEF Chain, IsPath
  <2>5. ~Unread(t, Top.dir)
    BY <1>3, <1>6, <1>9, <2>3
  <2> QED BY ZenonT(60), <1>1, <1>3, <1>6, <1>7, <1>10, <1>11, <1>12, <1>14, <2>1, <2>3, <2>4, <2>5 DEF pushed
<1> QED BY <1>13, <1>14

\* What is counted: the total is one more for an entry that is in it.
LEMMA TotalGrows ==
    ASSUME NEW n \in Node, filecount \in [DOMAIN NoCount -> Nat],
           filecount' = Counted(filecount, Entry[n])
    PROVE  filecount'.total = IF InTotal(n) THEN filecount.total + 1 ELSE filecount.total
<1>1. "total" \in DOMAIN filecount
  BY Fields
<1>2. CASE Unwanted(Entry[n])
  BY <1>2 DEF Counted, InTotal
<1>3. CASE ~Unwanted(Entry[n])
  <2>1. filecount' = Add(filecount, FieldsOf(Entry[n]))
    BY <1>3 DEF Counted
  <2> QED BY <1>1, <1>3, <2>1 DEF Add, InTotal
<1> QED BY <1>2, <1>3

\* readdir() returns an entry: it has been met once more.
LEMMA ReadCounts ==
    ASSUME IInv, Walk, NEW met \in [Node -> Nat], IsHistory(met), NEW n \in Node, ReadEntry(n),
           ~(pc' = "exited" /\ exit' = STATE_UNKNOWN)
    PROVE  Walk' /\ \E new \in [Node -> Nat] : IsHistory(new)'
<1> DEFINE new == [met EXCEPT ![n] = @ + 1]
           pushed == Descends(Entry[n]) /\ ~Ignored(Entry[n])
<1>1. /\ filecount' = Counted(filecount, Entry[n]) /\ pc = "walk"
      /\ UNCHANGED <<pc, opt, arg, total, exit, fs>>
      /\ Chain' /\ Possible(stack, n) /\ ~OnStack(stack, n)
      /\ Entry[n].parent # n /\ ~Unread(stack', Entry[n].parent)
      /\ Entry[n].parent \in Node =>
            Descends(Entry[Entry[n].parent]) /\ ~Ignored(Entry[Entry[n].parent])
      /\ \A d \in Node \cup DirsGiven :
            /\ OnStack(stack', d) => OnStack(stack, d) \/ (pushed /\ d = n)
            /\ Unread(stack', d) => Unread(stack, d) \/ (pushed /\ d = n)
            /\ Unread(stack, d) \/ (pushed /\ d = n) => Unread(stack', d)
      /\ \A m \in Node :
            /\ Possible(stack', m) => Possible(stack, m) /\ m # n
            /\ Certain(stack, m) /\ m # n => Certain(stack', m)
  BY ReadStack
<1>2. UNCHANGED <<present, appeared, access>> /\ appeared \in [Node -> Nat]
      /\ filecount \in [DOMAIN NoCount -> Nat] /\ total \in Nat
  BY <1>1 DEF fs, IInv, TypeOK
<1>3. TreeThere' /\ \A m \in Node : Kept(m)' <=> Kept(m)
  BY <1>2, TreeStays DEF Walk
<1>4. Phases'
  BY <1>1, ParseStays DEF Walk, Phases
<1>5. new \in [Node -> Nat] /\ new[n] = met[n] + 1 /\ \A m \in Node \ {n} : new[m] = met[m]
  OBVIOUS
<1> HIDE DEF new
<1>6. ASSUME NEW m \in Node PROVE AtMostOf(new, m)' /\ AtLeastOf(new, m)'
  <2> DEFINE d == Entry[m].parent
  <2>1. AtMostOf(met, m) /\ AtLeastOf(met, m) /\ d \in Node \cup DirsGiven
    BY ParentType DEF IsHistory
  <2>2. appeared'[m] = appeared[m] /\ opt' = opt /\ (Kept(m)' => Kept(m))
    BY <1>1, <1>2, <1>3
  <2>3. d # n => Walks(new, d)' = Walks(met, d) /\ (Passed(new, d)' => Passed(met, d))
    BY <1>1, <1>2, <1>5, <2>1, GivenStays, FlagsStay DEF Walks, Passed
  <2>4. d = n => Walks(new, d)' = Walks(met, d) + 1 /\ (Passed(new, d)' => pushed)
    BY <1>1, <1>5, FlagsStay DEF Walks, Passed
  <2>5. /\ Possible(stack, m) => OnStack(stack, d)
        /\ Certain(stack, m) => Possible(stack, m)
        /\ Unread(stack, d) => OnStack(stack, d)
    BY StackHolds
  <2> HIDE DEF d, pushed
  <2>6. d = Entry[m].parent
    BY DEF d
  <2>7. CASE m = n
    <3>1. d # n
      BY <1>1, <2>6, <2>7
    <3>2. /\ OnStack(stack', d) => OnStack(stack, d)
          /\ ~Possible(stack', m) /\ Possible(stack, m) /\ ~Unread(stack', d)
          /\ d \in Node => Descends(Entry[d]) /\ ~Ignored(Entry[d])
      BY <1>1, <2>1, <2>6, <2>7, <3>1
    <3> QED BY <1>2, <1>5, <2>1, <2>2, <2>3, <2>6, <2>7, <3>1, <3>2, EntryMet
  <2>8. CASE d = n
    <3>1. m # n /\ new[m] = met[m]
      BY <1>1, <1>5, <2>6, <2>8
    <3>2. /\ ~OnStack(stack, d) /\ ~Unread(stack, d) /\ ~Certain(stack, m) /\ ~Possible(stack', m)
          /\ pushed => Unread(stack', d)
      BY <1>1, <2>1, <2>5, <2>8
    <3>3. /\ Walks(new, d)' = Walks(met, d) + 1
          /\ Passed(new, d)' => Passed(met, d) \/ Unread(stack', d)
      BY <2>4, <2>8, <3>2
    <3>4. new \in [Node -> Nat]
      BY <1>5
    <3> QED BY <1>2, <2>1, <2>2, <2>6, <3>1, <3>2, <3>3, <3>4, DirWalkedAgain
  <2>9. CASE m # n /\ d # n
    <3>1. new[m] = met[m]
      BY <1>5, <2>9
    <3>2. /\ OnStack(stack', d) => OnStack(stack, d)
          /\ Unread(stack', d) => Unread(stack, d)
          /\ Possible(stack', m) => Possible(stack, m)
          /\ Unread(stack, d) \/ Certain(stack, m) => Unread(stack', d) \/ Certain(stack', m)
      BY <1>1, <2>1, <2>9
    <3>3. Walks(new, d)' = Walks(met, d) /\ (Passed(new, d)' => Passed(met, d))
      BY <2>3, <2>9
    <3>4. new \in [Node -> Nat]
      BY <1>5
    <3> QED BY <1>2, <2>1, <2>2, <2>6, <3>1, <3>2, <3>3, <3>4, EntryStays
  <2> QED BY <2>7, <2>8, <2>9
<1>7. Sums(new)'
  <2>1. total + filecount.total = SumFunctionOnSet(met, TotalNodes)
    BY <1>1 DEF IsHistory, Sums
  <2>2. filecount'.total = IF InTotal(n) THEN filecount.total + 1 ELSE filecount.total
    BY <1>1, <1>2, TotalGrows
  <2>3. filecount.total \in Nat
    BY <1>2, Fields
  <2>4. CASE InTotal(n)
    <3>1. n \in TotalNodes
      BY <2>4 DEF TotalNodes
    <3>2. SumFunctionOnSet(new, TotalNodes) = SumFunctionOnSet(met, TotalNodes) + new[n] - met[n]
      <4>1. \A x \in TotalNodes : met[x] \in Nat /\ new[x] \in Nat
        BY <1>5, TotalNodesType
      <4>2. \A x \in TotalNodes \ {n} : met[x] = new[x]
        BY <1>5, TotalNodesType
      <4> QED BY <3>1, <4>1, <4>2, TotalNodesType, SumChange
    <3>3. SumFunctionOnSet(new, TotalNodes) = SumFunctionOnSet(met, TotalNodes) + 1
      <4>1. SumFunctionOnSet(met, TotalNodes) \in Nat /\ met[n] \in Nat
        BY <1>2, <2>1, <2>3
      <4> QED BY <1>5, <3>2, <4>1
    <3>4. total' + filecount'.total = SumFunctionOnSet(new, TotalNodes)
      BY <1>1, <1>2, <2>1, <2>2, <2>3, <2>4, <3>3
    <3> QED BY <1>1, <3>4, TotalNodesStay DEF Sums
  <2>5. CASE ~InTotal(n)
    <3>1. \A x \in TotalNodes : met[x] \in Nat /\ met[x] = new[x]
      BY <1>5, <2>5 DEF TotalNodes
    <3>2. SumFunctionOnSet(new, TotalNodes) = SumFunctionOnSet(met, TotalNodes)
      BY <3>1, TotalNodesType, SumSame
    <3>3. total' + filecount'.total = SumFunctionOnSet(new, TotalNodes)
      BY <1>1, <2>1, <2>2, <2>5, <3>2
    <3> QED BY <1>1, <3>3, TotalNodesStay DEF Sums
  <2> QED BY <2>4, <2>5
<1>8. IsHistory(new)'
  BY <1>6, <1>7 DEF IsHistory
<1> QED BY <1>1, <1>3, <1>4, <1>5, <1>8 DEF Walk

-----------------------------------------------------------------------------
(* The history of a run *)

\* At the start nothing has been met.
LEMMA InitCount == Init => CountInv
<1> SUFFICES ASSUME Init PROVE CountInv
  OBVIOUS
<1> DEFINE met == [n \in Node |-> 0]
<1>1. /\ pc = "options" /\ arg = 1 /\ stack = <<>> /\ total = 0 /\ present = AtStart
      /\ appeared = [n \in Node |-> IF n \in AtStart THEN 1 ELSE 0]
  BY DEF Init
<1>2. AtStart \subseteq Node /\ \A n \in AtStart : Entry[n].parent \in AtStart \cup DirsGiven
  BY FileAssumption
<1>3. TreeThere
  BY <1>1, <1>2 DEF TreeThere, Kept
<1>4. Chain /\ Phases
  BY <1>1 DEF Chain, IsPath, Phases
<1>5. met \in [Node -> Nat] /\ \A n \in Node : met[n] = 0
  OBVIOUS
<1> HIDE DEF met
<1>6. ASSUME NEW n \in Node PROVE AtMostOf(met, n) /\ AtLeastOf(met, n)
  <2>1. appeared \in [Node -> Nat]
    BY <1>1
  <2>2. PICK m \in Nat : m = Walks(met, Entry[n].parent) * appeared[n]
    BY <1>5, <2>1, WalksType
  <2>3. \A d : ~OnStack(stack, d) /\ ~Unread(stack, d) /\ ~Possible(stack, n)
    BY <1>1, NothingDue
  <2>4. AtMostOf(met, n)
    BY <1>5, <2>2, <2>3 DEF AtMostOf
  <2>5. ~Passed(met, Entry[n].parent)
    <3>1. \A d : ~Given(d)
      <4>1. \A j \in DOMAIN Dirs : j \in Nat /\ j >= 1
        BY FileAssumption
      <4> QED BY <1>1, <4>1 DEF Given
    <3> QED BY <1>5, <3>1 DEF Passed
  <2> QED BY <2>4, <2>5 DEF AtLeastOf
<1>7. Sums(met)
  BY <1>1, <1>5 DEF Sums
<1> QED BY <1>3, <1>4, <1>5, <1>6, <1>7 DEF CountInv, Walk, IsHistory

\* Every step keeps a history that explains the total.
LEMMA NextCount == IInv /\ CountInv /\ [Next]_vars => CountInv'
<1> SUFFICES ASSUME IInv, CountInv, [Next]_vars PROVE CountInv'
  OBVIOUS
<1>1. CASE UNCHANGED vars
  <2>1. UNCHANGED <<pc, opt, arg, stack, filecount, total, exit, present, appeared, access>>
    BY <1>1 DEF vars, walk, fs
  <2>2. CASE pc = "exited" /\ exit = STATE_UNKNOWN
    BY <2>1, <2>2 DEF CountInv
  <2>3. CASE Walk /\ \E met \in [Node -> Nat] : IsHistory(met)
    <3>1. PICK met \in [Node -> Nat] : IsHistory(met)
      BY <2>3
    <3>2. TreeThere' /\ Chain'
      BY <2>1, <2>3, TreeStays, FlagsStay DEF Walk, Chain, IsPath
    <3>3. Phases'
      <4>1. get_status(total, opt.my_threshold)' = get_status(total, opt.my_threshold)
        BY <2>1
      <4> QED BY <2>1, <2>3, <4>1, ParseStays DEF Walk, Phases
    <3>4. \A n \in Node : AtMostOf(met, n)' /\ AtLeastOf(met, n)'
      <4> SUFFICES ASSUME NEW n \in Node PROVE AtMostOf(met, n)' /\ AtLeastOf(met, n)'
        OBVIOUS
      <4>1. AtMostOf(met, n) /\ AtLeastOf(met, n)
        BY <3>1 DEF IsHistory
      <4>2. \A d : /\ Walks(met, d)' = Walks(met, d)
                   /\ Passed(met, d)' <=> Passed(met, d)
        BY <2>1, GivenStays, FlagsStay DEF Walks, Passed
      <4>3. \A e : (Descends(e)' <=> Descends(e)) /\ (Ignored(e)' <=> Ignored(e))
        BY <2>1, FlagsStay
      <4>4. (Kept(n)' <=> Kept(n)) /\ appeared' = appeared /\ stack' = stack
        BY <2>1, TreeStays
      <4>5. AtMostOf(met, n)'
        BY <4>1, <4>2, <4>3, <4>4 DEF AtMostOf
      <4> QED BY <4>1, <4>2, <4>4, <4>5 DEF AtLeastOf
    <3>5. Sums(met)'
      BY <2>1, <3>1, SumsStay DEF IsHistory
    <3> QED BY <3>1, <3>2, <3>3, <3>4, <3>5 DEF CountInv, Walk, IsHistory
  <2> QED BY <2>2, <2>3 DEF CountInv
<1>2. CASE Next
  <2>1. pc # "exited"
    BY <1>2 DEF Next, Others, Plugin, Create, Remove, ParseOptions, NextDir, WalkDone, Return,
                OpenDir, ReaddirFails, EndOfDir, ReadEntry, Walking
  <2>2. Walk /\ \E met \in [Node -> Nat] : IsHistory(met)
    BY <2>1 DEF CountInv
  <2>3. PICK met \in [Node -> Nat] : IsHistory(met)
    BY <2>2
  <2>4. CASE pc' = "exited" /\ exit' = STATE_UNKNOWN
    BY <2>4 DEF CountInv
  <2>5. CASE ~(pc' = "exited" /\ exit' = STATE_UNKNOWN)
    <3>1. CASE Create
      BY <2>2, <2>3, <3>1, CreateCounts DEF CountInv
    <3>2. CASE Remove
      BY <2>2, <2>3, <3>2, RemoveCounts DEF CountInv
    <3>3. CASE ParseOptions \/ WalkDone \/ Return
      BY <2>2, <2>3, <2>5, <3>3, MainCounts DEF CountInv
    <3>4. CASE NextDir
      BY <2>2, <2>3, <3>4, NextCounts DEF CountInv
    <3>5. CASE OpenDir
      BY <2>2, <2>3, <2>5, <3>5, OpenCounts DEF CountInv
    <3>6. CASE EndOfDir
      BY <2>2, <2>3, <3>6, EndCounts DEF CountInv
    <3>7. CASE ReaddirFails
      BY <2>5, <3>7 DEF ReaddirFails, Fail
    <3>8. ASSUME NEW n \in Node, ReadEntry(n) PROVE CountInv'
      BY <2>2, <2>3, <2>5, <3>8, ReadCounts DEF CountInv
    <3> QED BY <1>2, <3>1, <3>2, <3>3, <3>4, <3>5, <3>6, <3>7, <3>8 DEF Next, Others, Plugin
  <2> QED BY Zenon, <2>4, <2>5
<1> QED BY <1>1, <1>2

\* So there is one throughout.
LEMMA CountInductive == Spec => []CountInv
<1> QED BY InitCount, NextCount, Inductive, PTL DEF Spec

-----------------------------------------------------------------------------
(* What the user asks for *)

\* A number that is truncated is compared with as the number that was meant is.
LEMMA TruncatedCompares ==
    ASSUME NEW a \in Int, IsWhole(a), NEW x \in Int
    PROVE  /\ truncated(a) \in Int
           /\ (a > 0 <=> truncated(a) > 0) /\ (a < 0 <=> truncated(a) < 0)
           /\ a > 0 => (x > truncated(a) <=> 10 * x > a)
           /\ a < 0 => (x < -truncated(a) <=> 10 * x < -a)
<1>1. CASE a > 0
  <2>1. PICK q \in Int, r \in 0 .. 9 : q = a \div 10 /\ r = a % 10 /\ a = q * 10 + r
    BY DivMod
  <2>2. truncated(a) = q /\ (r = 0 \/ a > 10)
    BY <1>1, <2>1 DEF truncated, IsWhole
  <2> QED BY <1>1, <2>1, <2>2
<1>2. CASE a < 0
  <2>1. PICK q \in Int, r \in 0 .. 9 : q = (-a) \div 10 /\ r = (-a) % 10 /\ -a = q * 10 + r
    BY DivMod
  <2>2. PICK p \in Int, s \in 0 .. 9 : s = a % 10 /\ a = p * 10 + s
    BY DivMod
  <2>3. truncated(a) = -q /\ s = 0
    BY <1>2, <2>1, <2>2 DEF truncated, IsWhole
  <2> QED BY <1>2, <2>1, <2>2, <2>3
<1>3. CASE a = 0
  <2>1. truncated(a) = 0
    BY <1>3 DEF truncated
  <2> QED BY <1>3, <2>1
<1> QED BY <1>1, <1>2, <1>3

\* The age and the size that files_filecount() gets are those meant, truncated.
LEMMA ValuesMeant ==
    ASSUME opt \in CommandLine, ArgumentsParse
    PROVE  /\ MeantAge \in Int /\ fileage = truncated(MeantAge)
           /\ MeantSize \in Int /\ filesize = truncated(MeantSize)
<1>1. opt.age \in Argument \cup {NULL} /\ opt.size \in Argument \cup {NULL}
  BY DEF CommandLine
<1>2. truncated(0) = 0
  BY DEF truncated
<1>3. MeantAge \in Int /\ fileage = truncated(MeantAge)
  <2>1. CASE opt.age = NULL
    BY <1>2, <2>1 DEF MeantAge, fileage, agetollint
  <2>2. CASE opt.age # NULL
    <3>1. opt.age.tenths \in Int \cup {NULL} /\ opt.age.suffix \in Letters \cup {"none"}
      BY <1>1, <2>2 DEF Argument
    <3>2. /\ opt.age.tenths # NULL /\ agemultiplier(opt.age.tenths, opt.age.suffix) # NULL
          /\ fileage = truncated(agemultiplier(opt.age.tenths, opt.age.suffix))
      BY <2>2 DEF ArgumentsParse, fileage, agetollint, strtollint
    <3>3. PICK t \in Int, u \in Letters \cup {"none"} : t = opt.age.tenths /\ u = opt.age.suffix
      BY <3>1, <3>2
    <3>4. MeantAge = t * AgeUnit(u)
      BY <2>2, <3>3 DEF MeantAge
    <3>5. agemultiplier(t, u) = t * AgeUnit(u) /\ t * AgeUnit(u) \in Int
      BY <3>1, <3>2, <3>3 DEF agemultiplier, AgeUnit, Letters
    <3> QED BY <3>2, <3>3, <3>4, <3>5
  <2> QED BY <2>1, <2>2
<1>4. MeantSize \in Int /\ filesize = truncated(MeantSize)
  <2>1. CASE opt.size = NULL
    BY <1>2, <2>1 DEF MeantSize, filesize, sizetollint
  <2>2. CASE opt.size # NULL
    <3>1. opt.size.tenths \in Int \cup {NULL} /\ opt.size.suffix \in Letters \cup {"none"}
      BY <1>1, <2>2 DEF Argument
    <3>2. /\ opt.size.tenths # NULL /\ sizemultiplier(opt.size.tenths, opt.size.suffix) # NULL
          /\ filesize = truncated(sizemultiplier(opt.size.tenths, opt.size.suffix))
      BY <2>2 DEF ArgumentsParse, filesize, sizetollint, strtollint
    <3>3. PICK t \in Int, u \in Letters \cup {"none"} : t = opt.size.tenths /\ u = opt.size.suffix
      BY <3>1, <3>2
    <3>4. MeantSize = t * SizeUnit(u)
      BY <2>2, <3>3 DEF MeantSize
    <3>5. sizemultiplier(t, u) = t * SizeUnit(u) /\ t * SizeUnit(u) \in Int
      BY <3>1, <3>2, <3>3 DEF sizemultiplier, SizeUnit, Letters
    <3> QED BY <3>2, <3>3, <3>4, <3>5
  <2> QED BY <2>1, <2>2
<1> QED BY <1>3, <1>4

\* What is above an entry are directories.
LEMMA AboveType ==
    ASSUME NEW n \in Node
    PROVE  \A m \in Above[n] : m \in Node /\ Entry[m].kind = "directory"
<1> DEFINE T == {k \in Node : \A m \in Above[k] : m \in Node /\ Entry[m].kind = "directory"}
<1>1. ASSUME NEW k \in Node, Entry[k].parent \in DirsGiven \cup T PROVE k \in T
  <2>1. CASE Entry[k].parent \in DirsGiven
    BY <2>1, AboveUnfolds
  <2>2. CASE Entry[k].parent \notin DirsGiven
    <3>1. Entry[k].parent \in T /\ Entry[k].parent \in Node /\ Entry[Entry[k].parent].kind = "directory"
      BY <1>1, <2>2, FileAssumption
    <3>2. Above[k] = {Entry[k].parent} \cup Above[Entry[k].parent]
      BY <2>2, AboveUnfolds
    <3> QED BY <3>1, <3>2
  <2> QED BY <2>1, <2>2
<1> HIDE DEF T
<1>2. Node \subseteq T
  BY <1>1, TreeInduction
<1> QED BY <1>2 DEF T

\* The directories above an entry are all walked.
InReach(n) == \A m \in Above[n] : Descends(Entry[m]) /\ ~Ignored(Entry[m])

\* Wanted, and not in the dispute's terms but in those of the code.
Taken(n) ==
    LET e == Entry[n]
    IN /\ e.matches
       /\ Has("INCLUDE_HIDDEN") \/ \A m \in Above[n] \cup {n} : ~Entry[m].hidden
       /\ Has("RECURSIVE") \/ Above[n] = {}
       /\ Has("REGULAR_ONLY") => e.kind = "regular"
       /\ Has("IGNORE_SYMLINKS") => e.kind # "symlink"
       /\ Has("IGNORE_UNKNOWN") /\ ~Has("RECURSIVE") => e.kind # "directory"
       /\ e.kind = "regular" =>
            /\ MeantAge > 0 => 10 * (-e.mtime) > MeantAge
            /\ MeantAge < 0 => 10 * (-e.mtime) < -MeantAge
            /\ MeantSize > 0 => 10 * e.size > MeantSize
            /\ MeantSize < 0 => 10 * e.size < -MeantSize

\* What is taken is wanted, and what is wanted is taken if there is no dispute about it.
LEMMA TakenWanted ==
    ASSUME opt \in CommandLine, ArgumentsParse, NEW n \in Node
    PROVE  /\ Taken(n) => Wanted(n)
           /\ Wanted(n) /\ ~Disputed(n) => Taken(n)
<1> DEFINE e == Entry[n]
<1>1. e.mtime \in Int /\ e.size \in Int /\ MeantAge \in Int /\ MeantSize \in Int
  BY FileAssumption, ValuesMeant DEF Entries
<1>2. PICK a \in Int, s \in Int, x \in Int, y \in Int :
         a = MeantAge /\ s = MeantSize /\ x = 10 * (-e.mtime) /\ y = 10 * e.size
  <2>1. \A m \in Int : 10 * (-m) \in Int /\ 10 * m \in Int
    OBVIOUS
  <2> HIDE DEF e
  <2> QED BY <1>1, <2>1
<1> HIDE DEF e
<1>3. Taken(n) <=> /\ e.matches
                   /\ Has("INCLUDE_HIDDEN") \/ \A m \in Above[n] \cup {n} : ~Entry[m].hidden
                   /\ Has("RECURSIVE") \/ Above[n] = {}
                   /\ Has("REGULAR_ONLY") => e.kind = "regular"
                   /\ Has("IGNORE_SYMLINKS") => e.kind # "symlink"
                   /\ ~TakenForUnknown(e)
                   /\ e.kind = "regular" =>
                        /\ a > 0 => x > a
                        /\ a < 0 => x < -a
                        /\ s > 0 => y > s
                        /\ s < 0 => y < -s
  BY <1>2 DEF Taken, TakenForUnknown, e
<1>4. Wanted(n) <=> /\ e.matches
                    /\ Has("INCLUDE_HIDDEN") \/ \A m \in Above[n] \cup {n} : ~Entry[m].hidden
                    /\ Has("RECURSIVE") \/ Above[n] = {}
                    /\ Has("REGULAR_ONLY") => e.kind = "regular"
                    /\ Has("IGNORE_SYMLINKS") => e.kind # "symlink"
                    /\ e.kind = "regular" =>
                         /\ a > 0 => x >= a
                         /\ a < 0 => x <= -a
                         /\ s > 0 => y >= s
                         /\ s < 0 => y < -s
  BY <1>2 DEF Wanted, e
<1>5. Disputed(n) <=> \/ /\ e.kind = "regular"
                         /\ (a > 0 /\ x = a) \/ (a < 0 /\ x = -a) \/ (s > 0 /\ y = s)
                      \/ TakenForUnknown(e)
  BY <1>2 DEF Disputed, ExactAge, ExactSize, e
<1> QED BY <1>3, <1>4, <1>5

\* Taken is what is in the total when it is met, where it can be met.
LEMMA TakenMeans ==
    ASSUME opt \in CommandLine, ArgumentsParse, IsWhole(MeantAge), IsWhole(MeantSize),
           NEW n \in Node
    PROVE  Taken(n) <=> InTotal(n) /\ InReach(n)
<1> DEFINE e == Entry[n]
           right == e.kind = "regular" =>
                       /\ MeantAge > 0 => 10 * (-e.mtime) > MeantAge
                       /\ MeantAge < 0 => 10 * (-e.mtime) < -MeantAge
                       /\ MeantSize > 0 => 10 * e.size > MeantSize
                       /\ MeantSize < 0 => 10 * e.size < -MeantSize
<1>1. e \in Entries
  BY FileAssumption
<1>2. e.kind \in Kinds /\ e.mtime \in Int /\ e.size \in Int
  BY <1>1 DEF Entries
<1>3. right <=> (e.kind = "regular" => /\ files_check_age(fileage, e.mtime)
                                       /\ files_check_size(filesize, e.size))
  <2>1. PICK a \in Int, s \in Int, v \in Int, w \in Int, x \in Int, y \in Int :
           /\ a = MeantAge /\ v = fileage /\ x = e.mtime
           /\ s = MeantSize /\ w = filesize /\ y = e.size
           /\ v = truncated(a) /\ w = truncated(s) /\ IsWhole(a) /\ IsWhole(s)
    <3>1. truncated(MeantAge) \in Int /\ truncated(MeantSize) \in Int
      BY ValuesMeant, TruncatedCompares
    <3> QED BY <1>2, <3>1, ValuesMeant
  <2>2. /\ (a > 0 <=> v > 0) /\ (a < 0 <=> v < 0)
        /\ a > 0 => (-x > v <=> 10 * (-x) > a)
        /\ a < 0 => (-x < -v <=> 10 * (-x) < -a)
    <3>1. -x \in Int
      OBVIOUS
    <3>2. PICK z \in Int : z = -x
      BY <3>1
    <3> QED BY <2>1, <3>2, TruncatedCompares
  <2>3. /\ (s > 0 <=> w > 0) /\ (s < 0 <=> w < 0)
        /\ s > 0 => (y > w <=> 10 * y > s)
        /\ s < 0 => (y < -w <=> 10 * y < -s)
    BY <2>1, TruncatedCompares
  <2>4. files_check_age(v, x) <=> /\ a > 0 => 10 * (-x) > a
                                  /\ a < 0 => 10 * (-x) < -a
    BY <2>2 DEF files_check_age
  <2>5. files_check_size(w, y) <=> /\ s > 0 => 10 * y > s
                                   /\ s < 0 => 10 * y < -s
    BY <2>3 DEF files_check_size
  <2> QED BY <2>1, <2>4, <2>5
<1>4. Taken(n)  <=> /\ e.matches
                    /\ Has("INCLUDE_HIDDEN") \/ \A m \in Above[n] \cup {n} : ~Entry[m].hidden
                    /\ Has("RECURSIVE") \/ Above[n] = {}
                    /\ Has("REGULAR_ONLY") => e.kind = "regular"
                    /\ Has("IGNORE_SYMLINKS") => e.kind # "symlink"
                    /\ Has("IGNORE_UNKNOWN") /\ ~Has("RECURSIVE") => e.kind # "directory"
                    /\ right
  BY Zenon DEF Taken
<1>5. InReach(n) <=> /\ Has("INCLUDE_HIDDEN") \/ \A m \in Above[n] : ~Entry[m].hidden
                     /\ Has("RECURSIVE") \/ Above[n] = {}
  BY AboveType DEF InReach, Descends, Ignored
<1>6. Unwanted(e) <=> \/ e.hidden /\ ~Has("INCLUDE_HIDDEN")
                      \/ ~e.matches
                      \/ e.kind \in {"directory", "symlink"} /\ Has("REGULAR_ONLY")
                      \/ e.kind = "symlink" /\ Has("IGNORE_SYMLINKS")
                      \/ ~right
  BY Zenon, <1>3 DEF Unwanted
<1>7. "total" \in FieldsOf(e) <=> /\ e.kind = "directory" /\ ~Has("RECURSIVE") => ~Has("IGNORE_UNKNOWN")
                                  /\ e.kind = "special" => ~Has("REGULAR_ONLY")
  BY <1>2 DEF FieldsOf, Descends, Kinds
<1> HIDE DEF right
<1>8. InTotal(n) <=> ~Unwanted(e) /\ "total" \in FieldsOf(e)
  BY DEF InTotal
<1> HIDE DEF e
<1>9. e = Entry[n] /\ e.kind \in {"directory", "regular", "symlink", "special"}
  BY <1>2 DEF e, Kinds
<1> QED BY <1>4, <1>5, <1>6, <1>7, <1>8, <1>9

-----------------------------------------------------------------------------
(* What a history says in the end *)

\* The plugin has judged the total.
Judged == pc = "exited" /\ exit # STATE_UNKNOWN

\* Each given directory was walked once, a subdirectory as often as it was met, and
\* nothing is left to look at.
LEMMA EndWalks ==
    ASSUME IInv, Walk, Judged, NEW met \in [Node -> Nat], IsHistory(met), NEW n \in Node
    PROVE  /\ \A d \in DirsGiven : Given(d)
           /\ Walks(met, Entry[n].parent) = IF Entry[n].parent \in DirsGiven THEN 1
                                            ELSE met[Entry[n].parent]
           /\ met[n] <= Walks(met, Entry[n].parent) * appeared[n]
           /\ met[n] > 0 /\ Entry[n].parent \in Node =>
                 Descends(Entry[Entry[n].parent]) /\ ~Ignored(Entry[Entry[n].parent])
           /\ Kept(n) /\ Passed(met, Entry[n].parent) => met[n] >= 1
<1>1. pc = "exited" /\ stack = <<>> /\ arg = Len(Dirs) + 1
  BY DEF Judged, Walk, Phases
<1>2. \A d \in DirsGiven : Given(d)
  <2>1. \A j \in DOMAIN Dirs : j < arg
    BY <1>1, FileAssumption
  <2> QED BY <2>1 DEF DirsGiven, Given
<1>3. Entry[n].parent \in Node <=> Entry[n].parent \notin DirsGiven
  BY ParentType, FileAssumption
<1>4. Entry[n].parent \in DirsGiven \cup Node
  BY ParentType
<1>5. AtMostOf(met, n) /\ AtLeastOf(met, n)
  BY DEF IsHistory
<1>6. ~Unread(stack, Entry[n].parent) /\ ~Certain(stack, n)
  BY <1>1, NothingDue
<1> QED BY <1>2, <1>3, <1>4, <1>5, <1>6 DEF Walks, AtMostOf, AtLeastOf

\* Nothing is met more often than there were chances to meet it.
LEMMA MetByChance ==
    ASSUME IInv, Walk, Judged, NEW met \in [Node -> Nat], IsHistory(met)
    PROVE  \A n \in Node : Chances[n] \in Nat /\ met[n] <= Chances[n]
<1> DEFINE T == {n \in Node : Chances[n] \in Nat /\ met[n] <= Chances[n]}
<1>1. appeared \in [Node -> Nat]
  BY DEF IInv, TypeOK
<1>2. ASSUME NEW n \in Node, Entry[n].parent \in DirsGiven \cup T PROVE n \in T
  <2>1. /\ Chances[n] \in Nat
        /\ Chances[n] = appeared[n] * IF Entry[n].parent \in DirsGiven THEN 1
                                      ELSE Chances[Entry[n].parent]
    BY <1>1, ChancesUnfold
  <2>2. /\ Walks(met, Entry[n].parent) = IF Entry[n].parent \in DirsGiven THEN 1
                                         ELSE met[Entry[n].parent]
        /\ met[n] <= Walks(met, Entry[n].parent) * appeared[n]
    BY EndWalks
  <2>3. PICK a \in Nat, m \in Nat : a = appeared[n] /\ m = met[n]
    BY <1>1
  <2>4. CASE Entry[n].parent \in DirsGiven
    BY <2>1, <2>2, <2>3, <2>4
  <2>5. CASE Entry[n].parent \notin DirsGiven
    <3>1. Entry[n].parent \in Node /\ Entry[n].parent \in T
      BY <1>2, <2>5
    <3>2. PICK w \in Nat, c \in Nat : /\ w = met[Entry[n].parent]
                                      /\ c = Chances[Entry[n].parent] /\ w <= c
      BY <3>1
    <3>3. m <= w * a /\ Chances[n] = a * c
      BY <2>1, <2>2, <2>3, <2>5, <3>2
    <3>4. w * a <= a * c /\ w * a \in Nat /\ a * c \in Nat
      BY <3>2
    <3>5. PICK p \in Nat, q \in Nat : p = w * a /\ q = a * c
      BY <3>4
    <3> QED BY <2>1, <2>3, <3>3, <3>4, <3>5
  <2> QED BY <2>4, <2>5
<1> HIDE DEF T
<1>3. Node \subseteq T
  BY <1>2, TreeInduction
<1> QED BY <1>3 DEF T

\* What was met could be met.
LEMMA MetInReach ==
    ASSUME IInv, Walk, Judged, NEW met \in [Node -> Nat], IsHistory(met)
    PROVE  \A n \in Node : met[n] > 0 => InReach(n)
<1> DEFINE T == {n \in Node : met[n] > 0 => InReach(n)}
<1>1. appeared \in [Node -> Nat]
  BY DEF IInv, TypeOK
<1>2. ASSUME NEW n \in Node, Entry[n].parent \in DirsGiven \cup T PROVE n \in T
  <2> SUFFICES ASSUME met[n] > 0 PROVE InReach(n)
    OBVIOUS
  <2>1. CASE Entry[n].parent \in DirsGiven
    BY <2>1, AboveUnfolds DEF InReach
  <2>2. CASE Entry[n].parent \notin DirsGiven
    <3>1. Entry[n].parent \in Node /\ Entry[n].parent \in T
      BY <1>2, <2>2
    <3>2. /\ met[n] <= met[Entry[n].parent] * appeared[n]
          /\ Descends(Entry[Entry[n].parent]) /\ ~Ignored(Entry[Entry[n].parent])
      BY <2>2, <3>1, EndWalks
    <3>3. PICK a \in Nat, m \in Nat, w \in Nat :
             a = appeared[n] /\ m = met[n] /\ w = met[Entry[n].parent]
      BY <1>1, <3>1
    <3>4. w # 0
      <4>1. w = 0 => w * a = 0
        OBVIOUS
      <4> QED BY <3>2, <3>3, <4>1
    <3>5. InReach(Entry[n].parent)
      BY <3>1, <3>3, <3>4
    <3>6. Above[n] = {Entry[n].parent} \cup Above[Entry[n].parent]
      BY <2>2, AboveUnfolds
    <3> QED BY <3>2, <3>5, <3>6 DEF InReach
  <2> QED BY <2>1, <2>2
<1> HIDE DEF T
<1>3. Node \subseteq T
  BY <1>2, TreeInduction
<1> QED BY <1>3 DEF T

\* An entry that was there all the time, where it can be met, was met.
LEMMA SteadyIsMet ==
    ASSUME IInv, Walk, Judged, NEW met \in [Node -> Nat], IsHistory(met)
    PROVE  \A n \in Node : InReach(n) /\ Steady(n) => met[n] >= 1
<1> DEFINE T == {n \in Node : InReach(n) /\ Steady(n) => met[n] >= 1}
<1>1. ASSUME NEW n \in Node, Entry[n].parent \in DirsGiven \cup T PROVE n \in T
  <2> SUFFICES ASSUME InReach(n), Steady(n) PROVE met[n] >= 1
    OBVIOUS
  <2>1. Kept(n) /\ n \in present
    BY DEF Steady, Kept
  <2>2. CASE Entry[n].parent \in DirsGiven
    <3>1. Entry[n].parent \notin Node /\ Given(Entry[n].parent)
      BY <2>2, EndWalks, FileAssumption
    <3> QED BY <2>1, <3>1, EndWalks DEF Passed
  <2>3. CASE Entry[n].parent \notin DirsGiven
    <3>1. Entry[n].parent \in Node /\ Entry[n].parent \in T
      BY <1>1, <2>3
    <3>2. Above[n] = {Entry[n].parent} \cup Above[Entry[n].parent]
      BY <2>3, AboveUnfolds
    <3>3. Kept(Entry[n].parent)
      BY <2>1, <2>3 DEF Walk, TreeThere
    <3>4. InReach(Entry[n].parent) /\ Steady(Entry[n].parent)
      BY <3>2, <3>3 DEF InReach, Steady, Kept
    <3>5. met[Entry[n].parent] >= 1
      BY <3>1, <3>4
    <3>6. Passed(met, Entry[n].parent)
      BY <3>1, <3>2, <3>5 DEF Passed, InReach, Steady
    <3> QED BY <2>1, <3>6, EndWalks
  <2> QED BY <2>2, <2>3
<1> HIDE DEF T
<1>2. Node \subseteq T
  BY <1>1, TreeInduction
<1> QED BY <1>2 DEF T

-----------------------------------------------------------------------------
(* The bounds *)

\* What is zero does not add to a sum.
LEMMA SumSupport ==
    ASSUME NEW f, NEW S, IsFiniteSet(S), NEW R \in SUBSET S, \A x \in S : f[x] \in Nat,
           \A x \in S \ R : f[x] = 0
    PROVE  SumFunctionOnSet(f, S) = SumFunctionOnSet(f, R)
<1> DEFINE D == S \ R
           T == {s \in SUBSET D : SumFunctionOnSet(f, R \cup s) = SumFunctionOnSet(f, R)}
<1>1. IsFiniteSet(R) /\ IsFiniteSet(D) /\ SumFunctionOnSet(f, R) \in Nat
  BY FS_Subset, SumType
<1>2. {} \in T
  OBVIOUS
<1>3. ASSUME NEW s \in SUBSET D, NEW x \in D, s \in T, x \notin s PROVE s \cup {x} \in T
  <2>1. IsFiniteSet(R \cup s) /\ R \cup s \subseteq S /\ x \notin R \cup s /\ x \in S
    BY <1>3, FS_Subset
  <2>2. SumFunctionOnSet(f, (R \cup s) \cup {x}) = SumFunctionOnSet(f, R \cup s) + f[x]
    BY <2>1, SumAdd
  <2>3. SumFunctionOnSet(f, (R \cup s) \cup {x}) = SumFunctionOnSet(f, R)
    BY <1>1, <1>3, <2>2
  <2>4. (R \cup s) \cup {x} = R \cup (s \cup {x})
    OBVIOUS
  <2> QED BY <1>3, <2>3, <2>4
<1>4. R \cup D = S
  OBVIOUS
<1> HIDE DEF D
<1>5. SUBSET D \subseteq T
  <2> HIDE DEF T
  <2> QED BY <1>1, <1>2, <1>3, SetInduction
<1> QED BY <1>4, <1>5

\* A sum of numbers that are not zero is not below the number of them.
LEMMA SumCounts ==
    ASSUME NEW f, NEW S, IsFiniteSet(S), \A x \in S : f[x] \in Nat /\ f[x] >= 1
    PROVE  Cardinality(S) \in Nat /\ Cardinality(S) <= SumFunctionOnSet(f, S)
<1> DEFINE T == {s \in SUBSET S : Cardinality(s) <= SumFunctionOnSet(f, s)}
<1>1. {} \in T
  BY SumEmpty, FS_EmptySet
<1>2. ASSUME NEW s \in SUBSET S, NEW x \in S, s \in T, x \notin s PROVE s \cup {x} \in T
  <2>1. IsFiniteSet(s)
    BY FS_Subset
  <2>2. SumFunctionOnSet(f, s \cup {x}) = SumFunctionOnSet(f, s) + f[x]
    BY <1>2, <2>1, SumAdd
  <2>3. Cardinality(s \cup {x}) = Cardinality(s) + 1
    BY <1>2, <2>1, FS_AddElement
  <2>4. SumFunctionOnSet(f, s) \in Nat /\ Cardinality(s) \in Nat /\ f[x] \in Nat /\ f[x] >= 1
    BY <2>1, SumType, FS_CardinalityType
  <2> QED BY <1>2, <2>2, <2>3, <2>4
<1> HIDE DEF T
<1>3. SUBSET S \subseteq T
  BY <1>1, <1>2, SetInduction
<1> QED BY <1>3, FS_CardinalityType DEF T

\* The total of a history lies between the bounds.
LEMMA Bounds ==
    ASSUME IInv, Walk, Judged, NEW met \in [Node -> Nat], IsHistory(met),
           IsWhole(MeantAge), IsWhole(MeantSize)
    PROVE  /\ Cardinality({n \in Node : Wanted(n) /\ Steady(n) /\ ~Disputed(n)}) <= total
           /\ total <= MapThenSumSet(LAMBDA n : Chances[n], {n \in Node : Wanted(n)})
<1>1. \A n \in Node : /\ Wanted(n) /\ ~Disputed(n) => InTotal(n) /\ InReach(n)
                      /\ InTotal(n) /\ InReach(n) => Wanted(n)
  <2>1. opt \in CommandLine /\ ArgumentsParse
    BY DEF IInv, Walk, Phases, Judged
  <2> QED BY <2>1, TakenMeans, TakenWanted
<1>2. IsFiniteSet(Node) /\ IsFiniteSet(TotalNodes) /\ TotalNodes \subseteq Node
  BY TotalNodesType, FileAssumption
<1>3. total = SumFunctionOnSet(met, TotalNodes)
  BY DEF IsHistory, Sums, Judged
<1>4. PICK W, S : /\ W = {n \in Node : Wanted(n)}
                  /\ S = {n \in Node : Wanted(n) /\ Steady(n) /\ ~Disputed(n)}
  OBVIOUS
<1>5. S \subseteq TotalNodes /\ \A n \in S : met[n] >= 1
  BY <1>1, <1>4, SteadyIsMet DEF TotalNodes
<1>6. Cardinality(S) <= total
  <2>1. IsFiniteSet(S)
    BY <1>2, <1>5, FS_Subset
  <2>2. \A x \in TotalNodes : met[x] \in Nat
    BY <1>2
  <2>3. Cardinality(S) \in Nat /\ Cardinality(S) <= SumFunctionOnSet(met, S)
    BY <1>5, <2>1, <2>2, SumCounts
  <2>4. SumFunctionOnSet(met, S) <= SumFunctionOnSet(met, TotalNodes)
    BY <1>2, <1>5, <2>2, SumSubset
  <2>5. SumFunctionOnSet(met, S) \in Nat /\ SumFunctionOnSet(met, TotalNodes) \in Nat
    BY <1>2, <1>5, <2>1, <2>2, SumType
  <2> QED BY <1>3, <2>3, <2>4, <2>5
<1>7. total <= SumFunctionOnSet(Chances, W)
  <2>1. PICK M : M = {n \in TotalNodes : met[n] > 0}
    OBVIOUS
  <2>2. M \in SUBSET TotalNodes /\ M \in SUBSET W /\ IsFiniteSet(W) /\ IsFiniteSet(M)
    <3>1. M \subseteq W /\ W \subseteq Node
      BY <1>1, <1>4, <2>1, MetInReach DEF TotalNodes
    <3> QED BY <1>2, <2>1, <3>1, FS_Subset
  <2>3. \A x \in Node : met[x] \in Nat /\ Chances[x] \in Nat /\ met[x] <= Chances[x]
    BY MetByChance
  <2>4. SumFunctionOnSet(met, TotalNodes) = SumFunctionOnSet(met, M)
    <3>1. \A x \in TotalNodes \ M : met[x] = 0
      BY <1>2, <2>1, <2>3
    <3>2. \A x \in TotalNodes : met[x] \in Nat
      BY <1>2
    <3> QED BY <1>2, <2>2, <3>1, <3>2, SumSupport
  <2>5. /\ \A x \in M : met[x] \in Nat /\ Chances[x] \in Nat /\ met[x] <= Chances[x]
        /\ \A x \in W : Chances[x] \in Nat
    BY <1>2, <1>4, <2>2, <2>3
  <2>6. SumFunctionOnSet(met, M) <= SumFunctionOnSet(Chances, M)
    BY <2>2, <2>5, SumMonotone
  <2>7. SumFunctionOnSet(Chances, M) <= SumFunctionOnSet(Chances, W)
    BY <2>2, <2>5, SumSubset
  <2>8. /\ SumFunctionOnSet(met, M) \in Nat /\ SumFunctionOnSet(Chances, M) \in Nat
        /\ SumFunctionOnSet(Chances, W) \in Nat
    BY <2>2, <2>5, SumType
  <2> QED BY <1>3, <2>4, <2>6, <2>7, <2>8
<1>8. MapThenSumSet(LAMBDA n : Chances[n], W) = SumFunctionOnSet(Chances, W)
  BY Zenon DEF MapThenSumSet, SumFunctionOnSet, FoldFunctionOnSet
<1> QED BY <1>4, <1>6, <1>7, <1>8

\* check_filecount counts what is there, whatever the tree, the command line and the
\* other processes: every wanted entry that was there all the time is in the total, unless
\* it is one of those the usage and the code treat differently, and
\* nothing is counted more often than there were chances to meet it; the verdict is that
\* of the total.  An age or size that has a fraction is left out, see IsWhole.
THEOREM CountsWhatIsThere == Spec => []CountBracketed
<1>1. IInv /\ CountInv => CountBracketed
  <2> SUFFICES ASSUME IInv, CountInv, Judged, IsWhole(MeantAge), IsWhole(MeantSize)
               PROVE  /\ Cardinality({n \in Node : Wanted(n) /\ Steady(n) /\ ~Disputed(n)}) <= total
                      /\ total <= MapThenSumSet(LAMBDA n : Chances[n], {n \in Node : Wanted(n)})
                      /\ exit = get_status(total, opt.my_threshold)
    BY Zenon DEF CountBracketed, Judged
  <2>1. Walk /\ \E met \in [Node -> Nat] : IsHistory(met)
    BY DEF CountInv, Judged
  <2>2. exit = get_status(total, opt.my_threshold)
    BY <2>1 DEF Walk, Phases, Judged
  <2> QED BY <2>1, <2>2, Bounds
<1> QED BY <1>1, Inductive, CountInductive, PTL
=============================================================================
