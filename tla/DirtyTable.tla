----------------------------- MODULE DirtyTable -----------------------------
(***************************************************************************)
(* The dirty page table (dirty_page_table.c): page -> recLSN, kept in a    *)
(* robin hood hash table (robin_hood_ht.h) whose values are cells of a     *)
(* clock allocator (clock_allocator.c).  One table is the pager's, or that *)
(* of a restart; the other comes out of a checkpoint record.  Every call   *)
(* holds the latch of the table, and is one step.                          *)
(***************************************************************************)
EXTENDS SequencesExt

CONSTANTS DptCap,   \* entries of the hash table and cells of the allocator
          DptPages, \* page numbers, which are their own hash
          Lsns      \* recLSNs

ASSUME DptAssumption == DptCap \in Nat \ {0} /\ DptPages \subseteq Nat /\ Lsns \subseteq Nat

VARIABLES dpt,   \* the table in use: [elems, occupied, clock, cells]
          ckptTable,  \* the table read from a checkpoint, open or closed
          drole,  \* whose table it is: the pager's, or that of a pass of the restart
          fault  \* an assertion that failed or freed memory that was read

dptVars == <<dpt, ckptTable, drole, fault>>

Slots  == 0..(DptCap - 1)
Absent == [key |-> 0, value |-> <<"none", 0>>, dib |-> 0, present |-> FALSE]
Place(k, v, d) == [key |-> k, value |-> v, dib |-> d, present |-> TRUE]
SlotOf(key, i) == (key + i) % DptCap
IndexSeq(from) == [k \in 1..(DptCap - from) |-> from + k - 1]

\* One probe of HT_INSERT: an empty slot takes the entry, a richer entry
\* gives its place up and moves on, the same key ends the search.
InsertStep(acc, i) ==
  LET slot == SlotOf(acc.e.key, acc.e.dib)
      onward(e) == [e EXCEPT !.dib = @ + 1]
  IN  IF acc.ret # "full" THEN acc
      ELSE IF ~acc.elems[slot].present
           THEN [acc EXCEPT !.elems[slot] = acc.e, !.ret = "success"]
      ELSE IF acc.elems[slot].dib < acc.e.dib
           THEN [acc EXCEPT !.elems[slot] = acc.e, !.e = onward(acc.elems[slot])]
      ELSE IF acc.elems[slot].key = acc.e.key THEN [acc EXCEPT !.ret = "exists"]
      ELSE [acc EXCEPT !.e = onward(@)]

HT_INSERT(elems, key, value) ==
  FoldLeft(InsertStep, [elems |-> elems, e |-> Place(key, value, 0), ret |-> "full"], IndexSeq(0))

\* HT_GET: the probes stop at a gap, at an entry closer to its home than the
\* key would be, or at the key.
Stops(e, key, i) == ~e.present \/ e.dib < i \/ e.key = key
Probes(elems, key) ==
  {i \in Slots : /\ elems[SlotOf(key, i)].present /\ elems[SlotOf(key, i)].dib >= i
                 /\ elems[SlotOf(key, i)].key = key
                 /\ \A j \in 0..(i - 1) : ~Stops(elems[SlotOf(key, j)], key, j)}
HT_GET(elems, key) == {elems[SlotOf(key, i)].value : i \in Probes(elems, key)}

\* Mutant: an entry at its home moves back, too.
Bug_ShiftsHome(key, acc, i) ==
  LET hole == SlotOf(key, i)
      next == acc.elems[SlotOf(key, i + 1)]
  IN  IF acc.ret = "success" THEN acc
      ELSE IF ~next.present THEN [acc EXCEPT !.elems[hole] = Absent, !.ret = "success"]
      ELSE [acc EXCEPT !.elems[hole] = [next EXCEPT !.dib = IF @ = 0 THEN 0 ELSE @ - 1]]

\* HT_DELETE closes the gap: entries away from home move back by one.
ShiftStep(key, acc, i) ==
  LET hole == SlotOf(key, i)
      next == acc.elems[SlotOf(key, i + 1)]
  IN  IF acc.ret = "success" THEN acc
      ELSE IF ~next.present \/ next.dib = 0
           THEN [acc EXCEPT !.elems[hole] = Absent, !.ret = "success"]
      ELSE [acc EXCEPT !.elems[hole] = [next EXCEPT !.dib = @ - 1]]

HT_DELETE(elems, key) ==
  IF Probes(elems, key) = {} THEN [elems |-> elems, ret |-> "doesnt_exist"]
  ELSE FoldLeft(LAMBDA acc, i : ShiftStep(key, acc, i),
                [elems |-> elems, ret |-> "doesnt_exist"],
                IndexSeq(CHOOSE i \in Probes(elems, key) : TRUE))
-----------------------------------------------------------------------------
\* The allocator: the first free cell from the clock on, which stops behind it.
clck_alloc_alloc(t) ==
  {i \in Slots \ t.occupied :
     \A j \in Slots \ t.occupied : (i - t.clock) % DptCap <= (j - t.clock) % DptCap}

\* Entries point to cells of the table that allocated them.
Pointer(name, i) == <<name, i>>

dpgt_open == [elems |-> [s \in Slots |-> Absent], occupied |-> {}, clock |-> 0,
              cells |-> [s \in Slots |-> [pg |-> 0, rec |-> 0]], open |-> TRUE]

InsertedAt(t, i, r, pg, rec) ==
  [t |-> [t EXCEPT !.elems = r.elems, !.occupied = @ \cup {i}, !.clock = (i + 1) % DptCap,
                   !.cells[i] = [pg |-> pg, rec |-> rec]],
   ret |-> r.ret]
Added(t, name, pg, rec) ==
  {InsertedAt(t, i, HT_INSERT(t.elems, pg, Pointer(name, i)), pg, rec) : i \in clck_alloc_alloc(t)}

dpe_get(pg) == HT_GET(dpt.elems, pg)

NoTable == [dpgt_open EXCEPT !.open = FALSE]

\* A page found through an entry of a closed table is read from freed memory.
Foreign(elems) == {p \in {elems[s].value : s \in {x \in Slots : elems[x].present}} : p[1] # "dpt"}
Reads(ps) == fault' = IF \E p \in ps : p[1] # "dpt" THEN "freed" ELSE fault
InRole(r) == fault = "none" /\ drole = r

\* pgr_save and the analysis add a page they do not find; a full allocator is
\* ERR_DPGT_FULL, a full hash table a failed assertion.
Add(pg, rec) ==
  IF dpe_get(pg) # {} THEN Reads(dpe_get(pg)) /\ UNCHANGED dpt
  ELSE IF Added(dpt, "dpt", pg, rec) = {} THEN UNCHANGED <<dpt, fault>>
  ELSE \E a \in Added(dpt, "dpt", pg, rec) :
         IF a.ret = "success" THEN dpt' = a.t /\ UNCHANGED fault
         ELSE fault' = "insert_expect" /\ UNCHANGED dpt

dpgt_add(pg, rec) == fault = "none" /\ Add(pg, rec) /\ UNCHANGED <<ckptTable, drole>>

\* The redo pass moves a recLSN behind what the page already has.
dpgt_update(pg, rec) ==
  /\ InRole("redo") /\ dpe_get(pg) # {} /\ Reads(dpe_get(pg))
  /\ dpt' = [dpt EXCEPT !.cells = [i \in Slots |-> IF Pointer("dpt", i) \in dpe_get(pg)
                                                  THEN [pg |-> pg, rec |-> rec] ELSE dpt.cells[i]]]
  /\ UNCHANGED <<ckptTable, drole>>

\* Eviction removes the page it wrote.
dpgt_remove(pg) ==
  /\ InRole("pager") /\ UNCHANGED <<ckptTable, fault, drole>>
  /\ dpt' = [dpt EXCEPT !.elems = HT_DELETE(@, pg).elems,
                        !.occupied = @ \ {p[2] : p \in dpe_get(pg)}]

\* The record of a checkpoint holds the entries in the order of the slots;
\* reading it back adds them, in that order, to a table of its own.
Entries(t) == {t.elems[s] : s \in {x \in Slots : t.elems[x].present}}
dpgt_serialize(t) ==
  FoldLeft(LAMBDA acc, s : IF t.elems[s].present THEN Append(acc, t.cells[t.elems[s].value[2]]) ELSE acc,
           << >>, IndexSeq(0))
dpgt_deserialize(bytes) ==
  FoldLeft(LAMBDA t, e : (CHOOSE a \in Added(t, "ckpt", e.pg, e.rec) : TRUE).t, dpgt_open, bytes)

\* The process that wrote a checkpoint died; the next one opens a table for
\* the analysis, which adds pages, and reads the record.
Restart ==
  /\ InRole("pager") /\ drole' = "analysis" /\ dpt' = dpgt_open
  /\ ckptTable' = dpgt_deserialize(dpgt_serialize(dpt)) /\ UNCHANGED fault

\* The entries themselves move over, in place of those of the same page, and
\* the table they came from is closed.
MergeStep(acc, s) ==
  IF acc.ret # "success" \/ ~ckptTable.elems[s].present THEN acc
  ELSE HT_INSERT(HT_DELETE(acc.elems, ckptTable.elems[s].key).elems, ckptTable.elems[s].key, ckptTable.elems[s].value)

dpgt_merge_into ==
  /\ InRole("analysis") /\ ckptTable.open /\ ckptTable' = NoTable /\ UNCHANGED drole
  /\ \E r \in {FoldLeft(MergeStep, [elems |-> dpt.elems, ret |-> "success"], IndexSeq(0))} :
       IF r.ret = "success" THEN dpt' = [dpt EXCEPT !.elems = r.elems] /\ UNCHANGED fault
       ELSE fault' = "insert_expect" /\ UNCHANGED dpt

\* The analysis ends: RedoLSN is the least recLSN.  The redo pass closes the
\* table of a checkpoint record without using it.
dpgt_min_rec_lsn ==
  /\ InRole("analysis") /\ drole' = "redo" /\ ckptTable' = NoTable
  /\ Reads(Foreign(dpt.elems)) /\ UNCHANGED dpt

\* The restart is over; the pager has a table of its own, empty.
Opened == InRole("redo") /\ drole' = "pager" /\ dpt' = dpgt_open /\ UNCHANGED <<ckptTable, fault>>

DptInit == dpt = dpgt_open /\ ckptTable = NoTable /\ fault = "none" /\ drole = "pager"

DptNext ==
  \/ \E pg \in DptPages : \/ \E rec \in Lsns : dpgt_add(pg, rec) \/ dpgt_update(pg, rec)
                          \/ dpgt_remove(pg)
  \/ Restart \/ dpgt_merge_into \/ dpgt_min_rec_lsn \/ Opened

DptSpec == DptInit /\ [][DptNext]_dptVars
-----------------------------------------------------------------------------
DptTypeOK ==
  /\ dpt.occupied \subseteq Slots /\ dpt.clock \in Slots
  /\ \A s \in Slots : dpt.cells[s].pg \in DptPages \cup {0} /\ dpt.elems[s].dib \in Slots
  /\ fault \in {"none", "insert_expect", "freed"}

\* The map a table stands for: the entries that are present, by key.
Keys(elems) == {elems[s].key : s \in {x \in Slots : elems[x].present}}
Value(elems, k) == elems[CHOOSE s \in Slots : elems[s].present /\ elems[s].key = k].value
Same(elems, m) == /\ Keys(elems) = DOMAIN m
                  /\ \A k \in DOMAIN m : HT_GET(elems, k) = {m[k]}
                  /\ Cardinality({s \in Slots : elems[s].present}) = Cardinality(DOMAIN m)
MapOf(elems) == [k \in Keys(elems) |-> Value(elems, k)]

\* Whatever was inserted and deleted before, collisions and wrapping
\* included, every key of the table is found, and one more insertion or
\* deletion changes the map it stands for at that key alone.
ProbingIsMap(elems) ==
  /\ Same(elems, MapOf(elems))
  /\ \A k \in DptPages :
       /\ Same(HT_DELETE(elems, k).elems, [x \in Keys(elems) \ {k} |-> Value(elems, x)])
       /\ k \notin Keys(elems) /\ Cardinality(Keys(elems)) < DptCap =>
            \E v \in {Pointer("dpt", 0)} :
              Same(HT_INSERT(elems, k, v).elems, [x \in Keys(elems) \cup {k} |-> IF x = k THEN v ELSE Value(elems, x)])

\* Each entry has a cell of the allocator to itself that holds its page, no
\* other cell is taken, and a checkpoint record gives back the same table:
\* the allocator has a cell exactly as long as the hash table has a slot.
CellsMatch(t) ==
  /\ t.occupied = {t.elems[s].value[2] : s \in {x \in Slots : t.elems[x].present}}
  /\ Cardinality(t.occupied) = Cardinality(Entries(t))
  /\ \A e \in Entries(t) : t.cells[e.value[2]].pg = e.key

RecLsns(t) == {t.cells[e.value[2]] : e \in Entries(t)}
DirtyTableExact ==
  /\ ProbingIsMap(dpt.elems)
  /\ drole = "pager" => /\ CellsMatch(dpt) /\ fault = "none"
                       /\ RecLsns(dpgt_deserialize(dpgt_serialize(dpt))) = RecLsns(dpt)

\* Every entry the analysis and the redo pass read is in memory they have,
\* and what the allocator gives has a slot of the hash table.
EntriesAllocated == fault = "none"
=============================================================================
