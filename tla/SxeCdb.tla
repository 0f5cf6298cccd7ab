------------------------------- MODULE SxeCdb -------------------------------
(***************************************************************************)
(* lib-sxe-cdb, one instance: a hash table that only grows, of sheets of   *)
(* rows of cells, and lists of the keys used as counters, sorted by count. *)
(*                                                                         *)
(* A key's hash gives an entry of sheets_index, which gives its sheet, and *)
(* two rows of that sheet.  When both are full the sheet is split: half of *)
(* the entries of sheets_index that led to it, and the cells with them, go *)
(* to a new sheet.  A uid names the entry, the row and the cell.  Records  *)
(* of kvdata are numbered as they are appended; counts are linked from     *)
(* each list's lowest to its highest, and each links its keys.             *)
(***************************************************************************)
EXTENDS Integers, SequencesExt, FiniteSetsExt

CONSTANTS CdbKeys,         \* keys
          CdbHash,         \* of a key: [hi, lo, alt] (u16[0], u16[1], u16[2]) and its length
          CdbVals,         \* lengths of values
          SheetsMax, RowsPerSheet, KeysPerRow, KernelPage, CountsPerPage,
          KvdataMaximum,   \* kvdata_maximum
          CountsLists,     \* lists of counts
          MaxRecords, MaxCount   \* bounds: records of an instance, increments of a key

ASSUME CdbAssumption == SheetsMax \in Nat \ {0} /\ RowsPerSheet \in Nat \ {0} /\ KeysPerRow \in Nat \ {0} /\ CountsPerPage > 1

VARIABLE cdb

ListLength == 12           \* sizeof(SXE_CDB_HKV_LIST)
FreeCell == [lo |-> 0, hi |-> 0, pos |-> 0]
FreeSheet == [r \in 0 .. RowsPerSheet - 1 |-> [k \in 0 .. KeysPerRow - 1 |-> FreeCell]]

\* sxe_cdb_instance_new_init.  The sheets are those that keys_at_start asks for,
\* and at least one.  mixed and hits (history): a key was incremented in two
\* lists; how often each record was incremented, and in which list.
NewInstance(start) ==
    [sheets |-> [s \in 1 .. (IF start = 0 THEN 1 ELSE start) |-> FreeSheet],
     index |-> [i \in 0 .. SheetsMax - 1 |-> IF start = 0 THEN 0 ELSE i % start],
     data |-> <<>>, used |-> 1, size |-> KernelPage, uids |-> <<>>,
     counts |-> <<>>, pages |-> 0, next_free |-> 1, free |-> 0, taken |-> 0,
     hi |-> [l \in CountsLists |-> 0], lo |-> [l \in CountsLists |-> 0],
     start |-> start, mixed |-> FALSE, aborted |-> FALSE]

CdbInit == \E start \in {0, 2} : cdb = NewInstance(start)

Sheet(c, key) == c.index[CdbHash[key].hi % SheetsMax]
Row1(key) == CdbHash[key].lo % RowsPerSheet
Row2(key) == CdbHash[key].alt % RowsPerSheet
At(c, sheet, row, k) == c.sheets[sheet + 1][row][k]
Cells == 0 .. KeysPerRow - 1

-----------------------------------------------------------------------------
(* sxe_cdb_instance_split_sheet.                                           *)

\* Every other one of the entries that lead to the sheet leads to the new one.
Toggled(c, sheet, i) == c.index[i] = sheet /\ Cardinality({j \in 0 .. i - 1 : c.index[j] = sheet}) % 2 = 1
SplitIndex(c, sheet) == [i \in 0 .. SheetsMax - 1 |-> IF Toggled(c, sheet, i) THEN Len(c.sheets) ELSE c.index[i]]

\* A mutant of Moves that looks at the cell's other hash.
MovesByLow(c, index, cell) == cell.pos # 0 /\ index[cell.lo % SheetsMax] = Len(c.sheets)

\* A cell goes to the new sheet when its entry now leads there.
Moves(c, index, cell) == cell.pos # 0 /\ index[cell.hi % SheetsMax] = Len(c.sheets)

SplitSheet(c, sheet) ==
    LET index == SplitIndex(c, sheet)
        old == c.sheets[sheet + 1]
        Kept == [r \in DOMAIN old |-> [k \in Cells |-> IF Moves(c, index, old[r][k]) THEN [old[r][k] EXCEPT !.pos = 0] ELSE old[r][k]]]
        Moved == [r \in DOMAIN old |-> [k \in Cells |-> IF Moves(c, index, old[r][k]) THEN old[r][k] ELSE FreeCell]] IN
    [c EXCEPT !.index = index, !.sheets = Append([@ EXCEPT ![sheet + 1] = Kept], Moved)]

-----------------------------------------------------------------------------
(* sxe_cdb_instance_put_val.                                               *)

\* The shortest header that can hold both lengths.
HeaderLen(key, val) == CASE key <= 7 /\ val <= 15 -> 1
                         [] key <= 127 /\ val <= 65535 -> 3
                         [] key <= 65535 /\ val <= 65535 -> 5
                         [] OTHER -> 8
HkvLen(key, val) == HeaderLen(CdbHash[key].len, val) + CdbHash[key].len + val

RowUsed(c, key, row) == Cardinality({k \in Cells : At(c, Sheet(c, key), row, k).pos # 0})
FirstFree(c, key, row) == Min({k \in Cells : At(c, Sheet(c, key), row, k).pos = 0})

NoUid == [index |-> 0, row |-> 0, cell |-> -1]

\* Room for the record: whole pages, and one more.
GrowKvdata(c, want) == IF want > c.size - c.used THEN [c EXCEPT !.size = @ + ((want + KernelPage - 1) \div KernelPage) * KernelPage + KernelPage] ELSE c

Store(c, key, val) ==
    LET less == RowUsed(c, key, Row1(key)) < RowUsed(c, key, Row2(key))
        row == IF less THEN Row1(key) ELSE Row2(key)
        k == FirstFree(c, key, row)
        g == GrowKvdata(c, HkvLen(key, val)) IN
    [g EXCEPT !.sheets[Sheet(c, key) + 1][row][k] = [lo |-> CdbHash[key].lo, hi |-> CdbHash[key].hi, pos |-> Len(c.data) + 1],
              !.data = Append(@, [key |-> key, val |-> val, count_to_use |-> 0, next |-> 0, last |-> 0, list |-> 0, hits |-> 0]),
              !.used = @ + HkvLen(key, val),
              !.uids = Append(@, [index |-> CdbHash[key].hi % SheetsMax, row |-> row, cell |-> k])]

\* Both rows are scanned again after a split.  Splitting a sheet that only one
\* entry leads to does not help, and ends when there are as many sheets as
\* entries.  Nothing is appended when the record could not be.
RECURSIVE PutScan(_, _, _)
PutScan(c, key, val) ==
    IF RowUsed(c, key, Row1(key)) < KeysPerRow \/ RowUsed(c, key, Row2(key)) < KeysPerRow THEN Store(c, key, val)
    ELSE IF Len(c.sheets) >= SheetsMax THEN c
    ELSE PutScan(SplitSheet(c, Sheet(c, key)), key, val)

\* The maximum is only looked at before a record is appended.
PutVal(c, key, val) ==
    IF (KvdataMaximum > 0 /\ c.size > KvdataMaximum) \/ CdbHash[key].len = 0 THEN c ELSE PutScan(c, key, val)

-----------------------------------------------------------------------------
(* Looking a key up, by its hash or by its uid.                            *)

Matches(c, key, row, k) ==
    LET cell == At(c, Sheet(c, key), row, k) IN
    cell.pos # 0 /\ cell.lo = CdbHash[key].lo /\ cell.hi = CdbHash[key].hi /\ c.data[cell.pos].key = key

\* The cells are tried from the first on, in the first row and then in the second.
GetUid(c, key) ==
    LET hits == {<<k, r>> \in Cells \X {1, 2} : Matches(c, key, IF r = 1 THEN Row1(key) ELSE Row2(key), k)}
        best == CHOOSE x \in hits : \A y \in hits : x[1] < y[1] \/ (x[1] = y[1] /\ x[2] <= y[2]) IN
    IF hits = {} THEN NoUid ELSE [index |-> CdbHash[key].hi % SheetsMax, row |-> IF best[2] = 1 THEN Row1(key) ELSE Row2(key), cell |-> best[1]]

GetUidHkv(c, uid) == At(c, c.index[uid.index], uid.row, uid.cell).pos

GetHkv(c, key) == IF GetUid(c, key) = NoUid THEN 0 ELSE GetUidHkv(c, GetUid(c, key))

-----------------------------------------------------------------------------
(* The counts.  counts[i] is [count, next, last, hkv1]; 0 is none.         *)

\* sxe_cdb_instance_free_count_push: from the last to the first.
FreeCountPush(c, from, to) ==
    FoldLeft(LAMBDA x, i : [x EXCEPT !.counts[i].next = x.next_free, !.next_free = i, !.free = @ + 1],
             c, [j \in 1 .. to - from + 1 |-> to - j + 1])

\* A page more of counts; the first count of all is not used.
CountsGrown(c) ==
    LET size == IF c.pages = 0 THEN 1 ELSE Len(c.counts) + 1
        more == CountsPerPage * (c.pages + 1) - size
        g == [c EXCEPT !.pages = @ + 1, !.counts = @ \o [i \in 1 .. more |-> [count |-> 0, next |-> 0, last |-> 0, hkv1 |-> 0]]] IN
    FreeCountPush(g, size, size + more - 1)

Ready(c) == IF c.free = 0 THEN CountsGrown(c) ELSE c

\* sxe_cdb_instance_free_count_pop: c[1] is the instance and c[2] the count.
FreeCountPop(c) ==
    LET g == Ready(c) IN
    <<[g EXCEPT !.next_free = g.counts[g.next_free].next, !.free = @ - 1, !.taken = @ + 1], g.next_free>>

Alone == [next |-> 0, last |-> 0]
Linked(c, pos, at, links) == [c EXCEPT !.data[pos] = [@ EXCEPT !.count_to_use = at, !.next = links.next, !.last = links.last]]

\* The record becomes the first of the keys with a count that exists.
Join(c, pos, at) ==
    LET first == c.counts[at].hkv1 IN
    Linked([c EXCEPT !.data[first].last = pos, !.counts[at].hkv1 = pos], pos, at, [next |-> first, last |-> 0])

\* A new count, below the one at next and above the one at last.
Insert(c, pos, count, next, last) ==
    LET p == FreeCountPop(c) IN
    <<Linked([p[1] EXCEPT !.counts[p[2]] = [count |-> count, next |-> next, last |-> last, hkv1 |-> pos]], pos, p[2], Alone), p[2]>>

IncNew(c, pos, list) ==
    LET low == c.lo[list]
        i == Insert(c, pos, 1, low, 0) IN
    CASE low = 0 -> [i[1] EXCEPT !.lo[list] = i[2], !.hi[list] = i[2]]
      [] low # 0 /\ c.counts[low].count > 1 -> [i[1] EXCEPT !.lo[list] = i[2], !.counts[low].last = i[2]]
      [] OTHER -> Join(c, pos, low)

\* The key leaves the chain of its count.
Unlink(c, pos) ==
    LET d == c.data[pos]
        at == d.count_to_use
        n == IF d.next # 0 THEN [c EXCEPT !.data[d.next].last = d.last] ELSE c
        l == IF d.last # 0 THEN [n EXCEPT !.data[d.last].next = d.next] ELSE n IN
    IF l.counts[at].hkv1 = pos THEN [l EXCEPT !.counts[at].hkv1 = d.next] ELSE l

\* A count that no key has is freed.  next and last are the counts around it: it is
\* never the highest, which would have been incremented in place.
DropEmpty(c, at, next, last, list) ==
    LET f == [FreeCountPush(c, at, at) EXCEPT !.taken = @ - 1]
        n == IF next # 0 THEN [f EXCEPT !.counts[next].last = last] ELSE [f EXCEPT !.aborted = TRUE]
        l == IF last # 0 THEN [n EXCEPT !.counts[last].next = next]
             ELSE [n EXCEPT !.lo[list] = IF @ = at THEN next ELSE @] IN
    IF c.counts[at].hkv1 = 0 THEN l ELSE c

\* The key is given the next count up, which may have to be made.
Raise(c, pos, at, next, count, list) ==
    LET i == Insert(c, pos, count, next, at) IN
    CASE next = 0 -> [i[1] EXCEPT !.hi[list] = i[2], !.counts[at].next = i[2]]
      [] next # 0 /\ c.counts[next].count = count -> Join(c, pos, next)
      [] OTHER -> [i[1] EXCEPT !.counts[at].next = i[2], !.counts[next].last = i[2]]

\* The only key with its count takes the count with it, unless the next count up
\* is the one that it needs.
IncOld(c, pos, list) ==
    LET at == c.data[pos].count_to_use
        old == c.counts[at]
        lone == old.hkv1 = pos /\ c.data[pos].next = 0 /\ (old.next = 0 \/ c.counts[old.next].count > old.count + 1) IN
    IF lone THEN [c EXCEPT !.counts[at].count = @ + 1]
    ELSE Raise(DropEmpty(Unlink(c, pos), at, old.next, old.last, list), pos, at, old.next, old.count + 1, list)

\* sxe_cdb_instance_inc: a key that does not exist is put, and one that is not a
\* counter left alone.
Inc(c, key, list) ==
    LET pos == GetHkv(c, key)
        p == PutVal(c, key, ListLength)
        new == GetHkv(p, key)
        Hit(x, i) == [x EXCEPT !.data[i] = [@ EXCEPT !.hits = @ + 1, !.list = list], !.mixed = @ \/ (x.data[i].hits > 0 /\ x.data[i].list # list)] IN
    IF pos # 0 /\ c.data[pos].val # ListLength THEN c
    ELSE IF pos # 0 THEN Hit(IncOld(c, pos, list), pos)
    ELSE IF Len(p.data) = Len(c.data) THEN p
    ELSE Hit(IncNew(p, new, list), new)

-----------------------------------------------------------------------------
(* sxe_cdb_instance_walk: the key at a position, and the next position.    *)

PosIsBad(c, cnt, hkv) ==
    cnt # 0 /\ hkv # 0 /\ (cnt > Len(c.counts) + 1 \/ hkv > Len(c.data) \/ (c.data[hkv].val = ListLength /\ c.data[hkv].count_to_use # cnt))

Walk1(c, up, cnt0, hkv0, list) ==
    LET cnt == IF cnt0 # 0 THEN cnt0 ELSE IF up THEN c.lo[list] ELSE c.hi[list]
        hkv == IF cnt0 # 0 THEN hkv0 ELSE IF cnt = 0 THEN 0 ELSE c.counts[cnt].hkv1
        after == IF hkv = 0 THEN 0 ELSE c.data[hkv].next
        beyond == IF cnt = 0 THEN 0 ELSE IF up THEN c.counts[cnt].next ELSE c.counts[cnt].last
        end == [cnt |-> 0, hkv |-> 0, got |-> 0, count |-> 0] IN
    IF cnt = 0 \/ PosIsBad(c, cnt, hkv) \/ PosIsBad(c, cnt, after) THEN end
    ELSE [cnt |-> IF after = 0 THEN beyond ELSE cnt, hkv |-> IF after # 0 THEN after ELSE IF beyond = 0 THEN 0 ELSE c.counts[beyond].hkv1,
          got |-> hkv, count |-> c.counts[cnt].count]

\* The caller's loop, for at most n keys.
RECURSIVE WalkAll(_, _, _, _, _, _)
WalkAll(c, up, cnt, hkv, list, n) ==
    LET w == Walk1(c, up, cnt, hkv, list) IN
    IF w.got = 0 \/ n = 0 THEN <<>>
    ELSE <<[pos |-> w.got, count |-> w.count]>> \o (IF w.cnt = 0 THEN <<>> ELSE WalkAll(c, up, w.cnt, w.hkv, list, n - 1))

-----------------------------------------------------------------------------
CdbLive == ~cdb.mixed /\ ~cdb.aborted
Roomy == Len(cdb.data) < MaxRecords

sxe_cdb_instance_put_val(key, val) == CdbLive /\ Roomy /\ cdb' = PutVal(cdb, key, val)

\* Bound: a key is not incremented forever.
sxe_cdb_instance_inc(key, list) ==
    /\ CdbLive /\ (Roomy \/ GetHkv(cdb, key) # 0)
    /\ GetHkv(cdb, key) # 0 => cdb.data[GetHkv(cdb, key)].hits < MaxCount
    /\ cdb' = Inc(cdb, key, list)

sxe_cdb_instance_reboot == CdbLive /\ cdb.data # <<>> /\ cdb' = NewInstance(cdb.start)

CdbNext == \/ \E key \in CdbKeys, val \in CdbVals : sxe_cdb_instance_put_val(key, val)
           \/ \E key \in CdbKeys, list \in CountsLists : sxe_cdb_instance_inc(key, list)
           \/ sxe_cdb_instance_reboot

CdbSpec == CdbInit /\ [][CdbNext]_cdb

-----------------------------------------------------------------------------
\* Every key that was put is found, by its hash and by the uid that putting it gave,
\* however often its sheet was split since; a key that was not put is not found.
\* Each record is in one cell only, and the records fit in the kvdata.
KeysFound ==
    /\ \A p \in DOMAIN cdb.data : GetUidHkv(cdb, cdb.uids[p]) = p /\ GetHkv(cdb, cdb.data[p].key) # 0
    /\ \A key \in CdbKeys : GetHkv(cdb, key) # 0 => cdb.data[GetHkv(cdb, key)].key = key
    /\ Cardinality({<<s, r, k>> \in (0 .. Len(cdb.sheets) - 1) \X (0 .. RowsPerSheet - 1) \X Cells : At(cdb, s, r, k).pos # 0}) = Len(cdb.data)
    /\ cdb.used <= cdb.size

Counters(list) == {p \in DOMAIN cdb.data : cdb.data[p].hits > 0 /\ cdb.data[p].list = list}

\* Walking a list, up or down, gives each of its keys once, in the order of the
\* counts and with the number of times that the key was incremented, and every
\* count is free or in a list, as long as no key is counted in two lists.
CountsSorted ==
    ~cdb.mixed =>
        /\ ~cdb.aborted
        /\ \A list \in CountsLists, up \in BOOLEAN :
              LET w == WalkAll(cdb, up, 0, 0, list, MaxRecords + 1) IN
              /\ Len(w) = Cardinality(Counters(list)) /\ {w[i].pos : i \in DOMAIN w} = Counters(list)
              /\ \A i \in DOMAIN w : w[i].count = cdb.data[w[i].pos].hits
              /\ \A i \in 1 .. Len(w) - 1 : IF up THEN w[i].count <= w[i + 1].count ELSE w[i].count >= w[i + 1].count
        /\ cdb.free + cdb.taken = Len(cdb.counts)
        /\ cdb.taken = Cardinality({cdb.data[p].count_to_use : p \in {p \in DOMAIN cdb.data : cdb.data[p].hits > 0}})

\* The table and the lists of counts over it, after any sequence of puts, increments
\* and reboots: keys are found as they were put, and counted as they were used.
CdbSound == KeysFound /\ CountsSorted
=============================================================================
