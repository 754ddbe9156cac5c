------------------------------- MODULE VmInfo -------------------------------
(***************************************************************************)
(* The counters of virtual memory (lib/vminfo.c over lib/procparser.c): a  *)
(* line of /proc/vmstat is looked up, by a binary search, in a table that  *)
(* should be in alphabetical order.  Pure operators: "values" maps the     *)
(* names the kernel knows to their counts, "listed" are those it prints;   *)
(* old kernels print two lines, "page" and "swap", in /proc/stat instead.  *)
(***************************************************************************)
EXTENDS Integers, Sequences, FiniteSetsExt

\* vmem_table, in the order of the source.
vmem_table ==
    <<"allocstall", "kswapd_inodesteal", "kswapd_steal", "nr_dirty", "nr_mapped",
      "nr_page_table_pages", "nr_pagecache", "nr_reverse_maps", "nr_slab",
      "nr_unstable", "nr_writeback", "pageoutrun", "pgactivate", "pgalloc",
      "pgalloc_dma", "pgalloc_dma32", "pgalloc_high", "pgalloc_normal",
      "pgdeactivate", "pgfault", "pgfree", "pginodesteal", "pgmajfault", "pgpgin",
      "pgpgout", "pgrefill", "pgrefill_dma", "pgrefill_dma32", "pgrefill_high",
      "pgrefill_normal", "pgrotated", "pgscan", "pgscan_direct_dma",
      "pgscan_direct_dma32", "pgscan_direct_high", "pgscan_direct_normal",
      "pgscan_kswapd_dma", "pgscan_kswapd_dma32", "pgscan_kswapd_high",
      "pgscan_kswapd_normal", "pgsteal", "pgsteal_dma", "pgsteal_dma32",
      "pgsteal_high", "pgsteal_normal", "pgsteal_direct_dma",
      "pgsteal_direct_dma32", "pgsteal_direct_high", "pgsteal_direct_normal",
      "pswpin", "pswpout", "slabs_scanned">>

\* strcmp() of two names of the table, as numbers: the order of the table but for
\* the block 42 .. 45, which comes after the block 46 .. 49.
strcmp(k) == CASE k \in 42 .. 45 -> k + 4 [] k \in 46 .. 49 -> k - 4 [] OTHER -> k

\* bsearch() of row k among the rows low + 1 .. up: the row, 0 for a null pointer.
bsearch(k) ==
    LET search[rows \in (0 .. Len(vmem_table)) \X (0 .. Len(vmem_table))] ==
            LET low == rows[1]
                up == rows[2]
                middle == (low + up) \div 2 + 1
            IN IF low >= up THEN 0
               ELSE IF strcmp(k) < strcmp(middle) THEN search[<<low, middle - 1>>]
               ELSE IF strcmp(k) > strcmp(middle) THEN search[<<middle, up>>]
               ELSE middle
    IN search[<<0, Len(vmem_table)>>]

\* The names procparser() finds a slot for.
Slots == {vmem_table[k] : k \in {n \in DOMAIN vmem_table : bsearch(n) # 0}}

\* procparser(): the slot of a name, "before" when no line sets it.
procparser(name, before, values, listed) ==
    IF name \in listed \cap Slots THEN values[name] ELSE before

\* FOR_ALL_ZONES: the names of a counter that is kept for each zone.
ForAllZones(counter) ==
    CASE counter = "pgsteal" ->
           {"pgsteal_dma", "pgsteal_dma32", "pgsteal_normal", "pgsteal_high"}
      [] counter = "pgscan_direct" ->
           {"pgscan_direct_dma", "pgscan_direct_dma32", "pgscan_direct_normal",
            "pgscan_direct_high"}
      [] counter = "pgscan_kswapd" ->
           {"pgscan_kswapd_dma", "pgscan_kswapd_dma32", "pgscan_kswapd_normal",
            "pgscan_kswapd_high"}

SumOf(names, values, listed) ==
    MapThenSumSet(LAMBDA n : procparser(n, 0, values, listed), names)

\* The value before the file is read that marks a name it does not have: ~0UL.
UNSET == -1

\* A mutant: a pair is looked for in /proc/stat when vmstat does have it.
PairAlways(in, out, line, values, listed) ==
    IF line \in listed THEN <<values[in], values[out]>> ELSE <<0, 0>>

\* A pair of counters: from vmstat; if "in" is not there, from its line in
\* /proc/stat, else 0.  The two pairs do not disturb each other: a line that is
\* read although vmstat has the pair holds the same counts.
Pair(in, out, line, values, listed) ==
    IF in \in listed
    THEN <<values[in], procparser(out, UNSET, values, listed)>>
    ELSE IF line \in listed THEN <<values[in], values[out]>> ELSE <<0, 0>>

\* What the getters return.
VmReading == [pgpgin : Int, pgpgout : Int, pswpin : Int, pswpout : Int, pgfault : Int,
              pgmajfault : Int, pgfree : Int, pgsteal : Int, pgscand : Int, pgscank : Int]

\* proc_vmem_read() and the getters.  The scans leave out the zone dma32.
proc_vmem_read(values, listed) ==
    LET get(name) == procparser(name, 0, values, listed)
        pgpg == Pair("pgpgin", "pgpgout", "page", values, listed)
        pswp == Pair("pswpin", "pswpout", "swap", values, listed)
        without32(counter) ==
            SumOf(ForAllZones(counter) \ {"pgscan_direct_dma32", "pgscan_kswapd_dma32"},
                  values, listed)
    IN [pgpgin |-> pgpg[1], pgpgout |-> pgpg[2],
        pswpin |-> pswp[1], pswpout |-> pswp[2],
        pgfault |-> get("pgfault"), pgmajfault |-> get("pgmajfault"),
        pgfree |-> get("pgfree"),
        pgsteal |-> IF get("pgsteal") = 0
                    THEN SumOf(ForAllZones("pgsteal"), values, listed)
                    ELSE get("pgsteal"),
        pgscand |-> without32("pgscan_direct"), pgscank |-> without32("pgscan_kswapd")]
=============================================================================
