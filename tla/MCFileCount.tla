---------------------------- MODULE MCFileCount ----------------------------
(***************************************************************************)
(* Small instances of FileCount: a directory with a file, a link and a     *)
(* socket, a subdirectory with files of its own and one that cannot be     *)
(* opened, a hidden directory, and a second directory on the command line. *)
(***************************************************************************)
EXTENDS FileCount

MCDirs == <<"d", "e">>

An(parent, kind) == [parent |-> parent, kind |-> kind, hidden |-> FALSE,
                     matches |-> TRUE, mtime |-> -5, size |-> 3]

MCTree ==
    [file |-> An("d", "regular"), link |-> An("d", "symlink"),
     sub |-> [An("d", "directory") EXCEPT !.matches = FALSE],
     big |-> [An("sub", "regular") EXCEPT !.size = 9, !.mtime = -1],
     locked |-> An("sub", "directory"), lost |-> An("locked", "regular"),
     dot |-> [An("d", "directory") EXCEPT !.hidden = TRUE],
     dotfile |-> [An("dot", "regular") EXCEPT !.hidden = TRUE],
     socket |-> An("e", "special"), other |-> [An("e", "regular") EXCEPT !.matches = FALSE]]

MCAtStart == DOMAIN MCTree \ {"big", "dotfile"}

\* One directory on the way cannot be opened; or others cannot be read either.
LockedOnly == [n \in DOMAIN MCTree \cup {"d", "e"} |-> IF n = "locked" THEN "no" ELSE "yes"]
MCAccesses == {LockedOnly, [LockedOnly EXCEPT !["dot"] = "broken"],
               [LockedOnly EXCEPT !["e"] = "no"]}

UpTo(n) == [DefaultRange EXCEPT !.end = n, !.end_infinity = FALSE]

Number(n, suffix) == [tenths |-> n, suffix |-> suffix, trailing |-> FALSE, beyond |-> TRUE]

Plain == [flags |-> {}, age |-> NULL, size |-> NULL, ranges_ok |-> TRUE,
          my_threshold |-> [warning |-> UpTo(2), critical |-> UpTo(4)]]

MCOptionSets ==
    {Plain, [Plain EXCEPT !.flags = {"RECURSIVE"}, !.size = Number(35, "b")],
     [Plain EXCEPT !.flags = {"RECURSIVE", "INCLUDE_HIDDEN"}, !.age = Number(-30, "s")],
     [Plain EXCEPT !.flags = {"RECURSIVE", "REGULAR_ONLY", "INCLUDE_HIDDEN"},
                   !.size = Number(-90, "k")],
     [Plain EXCEPT !.age = Number(50, "s")], [Plain EXCEPT !.age = Number(-50, "s")],
     [Plain EXCEPT !.flags = {"RECURSIVE"}, !.size = Number(30, "b")],
     [Plain EXCEPT !.flags = {"IGNORE_SYMLINKS", "IGNORE_UNKNOWN", "INCLUDE_HIDDEN"},
                   !.age = Number(1, "m")],
     [Plain EXCEPT !.ranges_ok = FALSE]}
    \cup {[Plain EXCEPT !.size = str] :
            str \in {Number(30, "none"), [Number(-30, "none") EXCEPT !.beyond = FALSE],
                    Number(30, "y"), Number(NULL, "none"),
                    [Number(30, "k") EXCEPT !.trailing = TRUE]}}

\* A size that a file has exactly.
MCSizes == {[Plain EXCEPT !.flags = {"REGULAR_ONLY"}, !.size = Number(n, "b")] :
                n \in {20, 30, 40, -40}}
=============================================================================
