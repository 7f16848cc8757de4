----------------------------- MODULE MeterImport -----------------------------
(***************************************************************************)
(* The measurements of one water meter:                                    *)
(* moduly/mereni/vodomery/database/vodomery_db_vse.py imports the readings *)
(* that the source database has collected since the last import, and       *)
(* database/outlier_review_apply.py rebuilds them when an administrator    *)
(* changes the verdict on a reading that was set aside as an outlier.      *)
(*                                                                         *)
(* Each of the two is one READ COMMITTED transaction, the first in the     *)
(* scheduler, the second in an API process; no lock keeps them apart.  A   *)
(* transaction that fails, or whose process is killed, leaves nothing.     *)
(*                                                                         *)
(* Dates are counted in minutes of the model, counter values and deltas in *)
(* its smallest unit, the last decimal that round(.., 6) keeps.            *)
(***************************************************************************)
EXTENDS Integers, SequencesExt

CONSTANTS
  Date,            \* dates that readings can have
  Objem,           \* counter values that readings can have
  Interval,        \* interval_minutes of the source
  MaxGap,          \* MAX_GAP_MULTIPLIER
  ResetDiff,       \* VODOMERY_RESET_NEGATIVE_DIFF_THRESHOLD
  ReturnDuration,  \* TRANSIENT_ZERO_RESET_RETURN_MAX_DURATION
  ReturnDelta,     \* TRANSIENT_ZERO_RESET_RETURN_MAX_DELTA
  SpikeDelta,      \* OUTLIER_ABSOLUTE_MIN_DELTA
  OutlierDelta,    \* the threshold that the statistics of the meter give
  MinHistory,      \* OUTLIER_MIN_HISTORY
  None,            \* no row, no delta, no transaction
  MaxReadings,     \* bound: readings that arrive
  MaxLate,         \* bound: those that are not later than all before them
  MaxReviews,      \* bound: verdicts that are changed
  MaxAborts        \* bound: transactions that fail

ASSUME ImportAssumption ==
  /\ Date \subseteq Nat /\ Objem \subseteq Nat
  /\ Interval \in Nat \ {0} /\ MaxGap \in Nat \ {0, 1}
  /\ {ResetDiff, ReturnDuration, ReturnDelta, SpikeDelta} \subseteq Nat
  /\ OutlierDelta \in Nat /\ OutlierDelta >= SpikeDelta
  /\ MinHistory \in Nat /\ None \notin Int
  /\ {MaxReadings, MaxLate, MaxReviews, MaxAborts} \subseteq Nat

VARIABLES
  source,      \* readings of the meter in the source database, by recid
  table,       \* its rows in Mereni_vodomery_vse
  reviews,     \* its rows in the table of outlier reviews
  import,      \* the open import transaction: the rows it will insert
  review,      \* the open transaction of apply_outlier_review_update
  overlapped,  \* history: the two were open at the same time
  torn,        \* history: a rebuild left slots of a gap without its end
  changes,     \* verdicts changed so far
  aborts       \* transactions failed so far

data == <<source, table, reviews>>
vars == <<data, import, review, overlapped, torn, changes, aborts>>

Status == {"PENDING", "CONFIRMED_OUTLIER", "CONFIRMED_CONSUMPTION"}

Init ==
  /\ source = <<>> /\ table = {} /\ reviews = {}
  /\ import = None /\ review = None
  /\ overlapped = FALSE /\ torn = FALSE
  /\ changes = 0 /\ aborts = 0

-----------------------------------------------------------------------------
(***************************************************************************)
(* filter_valid_rows.  "last" is a row or None.                            *)
(***************************************************************************)
HasResetDiff(current, previous) == current - previous < -ResetDiff

Advances(reset, objem, last) == reset \/ last = None \/ objem >= last.objem

\* Mutant: rows that were set aside count as well.
LastOfAll(rows) ==
  IF rows = {} THEN None
  ELSE CHOOSE r \in rows : \A other \in rows : other.date <= r.date

\* get_last_measurements(only_valid=True)
LastValid(rows) ==
  LET valid == {r \in rows : r.platne}
  IN IF valid = {} THEN None
     ELSE CHOOSE r \in valid : \A other \in valid : other.date <= r.date

\* Mutant: zeros at the end of the batch count as transient as well.
ZeroBlockMayReturn(batch, i, last) ==
  \A e \in i + 1 .. Len(batch) :
    batch[e].objem # 0 => batch[e].objem - last.objem \in -ReturnDelta .. ReturnDelta

\* The zeros that start at row i end with a return to the old value.  The code
\* judges the block as a whole; its later rows meet what its first row meets.
ZeroBlockReturns(batch, i, last) ==
  \E e \in i + 1 .. Len(batch) :
    /\ \A k \in i .. e - 1 : batch[k].objem = 0
    /\ batch[e].objem # 0
    /\ batch[e].date - batch[i].date <= ReturnDuration
    /\ batch[e].objem - last.objem \in -ReturnDelta .. ReturnDelta

\* The step of the scan at row i: the last row that advanced, and the rows that
\* stay, each with its reset_detected.
ScanRow(acc, batch, i) ==
  LET r == batch[i]
      drops == acc.last # None /\ HasResetDiff(r.objem, acc.last.objem)
      transient == drops /\ r.objem = 0 /\ ZeroBlockReturns(batch, i, acc.last)
  IN IF transient THEN acc
     ELSE [last |-> IF Advances(drops, r.objem, acc.last) THEN r ELSE acc.last,
           kept |-> Append(acc.kept, [recid |-> r.recid, date |-> r.date,
                                      objem |-> r.objem, reset |-> drops])]

FilterValidRows(batch, baseline) ==
  LET scan[i \in 0 .. Len(batch)] ==
        IF i = 0 THEN [last |-> baseline, kept |-> <<>>]
        ELSE ScanRow(scan[i - 1], batch, i)
  IN scan[Len(batch)].kept

-----------------------------------------------------------------------------
(***************************************************************************)
(* prepare_rows.                                                           *)
(***************************************************************************)
\* get_recent_delta_stats and compute_outlier_delta_threshold: below
\* OUTLIER_MIN_HISTORY samples there is no threshold.
HasThreshold(rows) ==
  Cardinality({r \in rows : /\ ~r.synthetic /\ r.platne /\ ~r.reset
                            /\ r.delta # None}) >= MinHistory

IsDeltaOutlier(delta, rows) ==
  delta > 0 /\ HasThreshold(rows) /\ delta > OutlierDelta

IsReturnSpike(r, next, prev) ==
  /\ r.objem - prev.objem > SpikeDelta
  /\ next # None
  /\ next.date > r.date
  /\ next.date - r.date <= Interval * MaxGap
  /\ HasResetDiff(next.objem, r.objem)
  /\ ~HasResetDiff(next.objem, prev.objem)
  /\ next.objem - prev.objem <= SpikeDelta

\* Mutant: rounded up, and to fewer decimals.
CoarseMean(total, slots) == 10 * ((total + 10 * slots - 1) \div (10 * slots))

\* round(total / slots, 6); a tie goes up.
MeanDelta(total, slots) == (2 * total + slots) \div (2 * slots)

Slots(prev, r) == (r.date - prev.date) \div Interval

\* Mutant: the dates that are taken are not left out.
GapRowsOverAll(prev, r, occupied) ==
  LET mean == MeanDelta(r.objem - prev.objem, Slots(prev, r))
  IN [i \in 1 .. Slots(prev, r) - 1 |->
       [recid |-> None, date |-> prev.date + i * Interval, objem |-> prev.objem + mean * i,
        delta |-> mean, platne |-> TRUE, gap |-> FALSE,
        synthetic |-> TRUE, reset |-> FALSE]]

\* The elements of a finite set, each behind those that are before it: the sorted
\* sequence, by the number of predecessors.
InOrder(S, before) ==
  [k \in 1 .. Cardinality(S) |->
     CHOOSE x \in S : Cardinality({y \in S : <<y, x>> \in before}) = k - 1]

\* The synthetic rows of resolve_gap, oldest first.
GapRows(prev, r, occupied) ==
  LET total == r.objem - prev.objem
      mean == MeanDelta(total, Slots(prev, r))
      Slot(i) == prev.date + i * Interval
      free == {i \in 1 .. Slots(prev, r) - 1 : Slot(i) \notin occupied}
      Row(i) == [recid |-> None, date |-> Slot(i), objem |-> prev.objem + mean * i,
                 delta |-> mean, platne |-> TRUE, gap |-> FALSE,
                 synthetic |-> TRUE, reset |-> FALSE]
      order == InOrder(free, {p \in free \X free : p[1] < p[2]})
  IN IF total <= 0 THEN <<>> ELSE [k \in 1 .. Len(order) |-> Row(order[k])]

\* The verdict on a date that prepare_rows obeys: one of the confirmed ones.
Confirmed(overrides, date, status) ==
  [date |-> date, status |-> status] \in overrides

Occupied(rows, stored) == {r.date : r \in stored} \cup {rows[i].date : i \in DOMAIN rows}

\* The step of the loop at row i: the row that the next delta counts from, and the
\* rows to insert so far.
PrepareRow(acc, rows, stored, overrides, i) ==
  LET r == rows[i]
      next == IF i < Len(rows) THEN rows[i + 1] ELSE None
      prev == acc.prev
      reset == /\ r.reset
               /\ prev = None \/ HasResetDiff(r.objem, prev.objem)
      rises == ~reset /\ prev # None /\ r.objem >= prev.objem
      gap == r.date - prev.date > Interval * MaxGap
      total == r.objem - prev.objem
      candidate == IF gap THEN MeanDelta(total, Slots(prev, r)) ELSE total
      rejected ==
        /\ rises
        /\ ~Confirmed(overrides, r.date, "CONFIRMED_CONSUMPTION")
        /\ \/ Confirmed(overrides, r.date, "CONFIRMED_OUTLIER")
           \/ IsDeltaOutlier(candidate, stored)
           \/ ~gap /\ IsReturnSpike(r, next, prev)
      counted == rises /\ ~rejected
      filled == IF counted /\ gap THEN GapRows(prev, r, Occupied(rows, stored)) ELSE <<>>
      delta == CASE ~counted -> None
                 [] counted /\ ~gap -> total
                 [] counted /\ gap /\ total = 0 -> None
                 [] OTHER -> total - candidate * Len(filled)
  IN [prev |-> IF ~rejected /\ Advances(reset, r.objem, prev) THEN r ELSE prev,
      out |-> acc.out \o Append(filled,
                [recid |-> r.recid, date |-> r.date, objem |-> r.objem,
                 delta |-> delta, platne |-> ~rejected,
                 gap |-> counted /\ gap, synthetic |-> FALSE, reset |-> reset])]

\* Rows to insert, in their order, for the rows that filter_valid_rows kept.
PrepareRows(rows, stored, overrides) ==
  LET loop[i \in 0 .. Len(rows)] ==
        IF i = 0 THEN [prev |-> LastValid(stored), out |-> <<>>]
        ELSE PrepareRow(loop[i - 1], rows, stored, overrides, i)
  IN loop[Len(rows)].out

\* Both transactions filter and prepare a set of readings, sorted by date.
Earlier(a, b) == a.date < b.date \/ (a.date = b.date /\ a.recid < b.recid)

Prepared(readings, stored, overrides) ==
  LET batch == InOrder(readings, {p \in readings \X readings : Earlier(p[1], p[2])})
  IN PrepareRows(FilterValidRows(batch, LastValid(stored)), stored, overrides)

\* The payloads of outlier reviews that go with prepared rows.
OutlierDates(out, overrides) ==
  {out[i].date : i \in {k \in 1 .. Len(out) :
     ~out[k].platne /\ ~Confirmed(overrides, out[k].date, "CONFIRMED_OUTLIER")}}

\* Mutant: without ON CONFLICT.
AllInsertedInto(rows, out) == Range(out)

\* insert(..).on_conflict_do_nothing on the date, row by row.
InsertedInto(rows, out) ==
  {out[i] : i \in {k \in 1 .. Len(out) :
     /\ \A r \in rows : r.date # out[k].date
     /\ \A j \in 1 .. k - 1 : out[j].date # out[k].date}}

\* Mutant: the kind of detection lands in the status.
UpsertUnknown(known, dates) ==
  known \cup [date : dates \ {v.date : v \in known}, status : {"NORMAL_DELTA"}]

\* upsert_outlier_review_candidates: a known review keeps its verdict.
UpsertReviews(known, dates) ==
  known \cup [date : dates \ {v.date : v \in known}, status : {"PENDING"}]

-----------------------------------------------------------------------------
(***************************************************************************)
(* The source and the import.                                              *)
(***************************************************************************)
\* A date comes late when the clock is set back in autumn, which gives an hour
\* of dates twice, or when a logger delivers what it had stored.
Late(date) == \E i \in DOMAIN source : date <= source[i].date
LateReadings ==
  Cardinality({i \in DOMAIN source : \E j \in 1 .. i - 1 : source[i].date <= source[j].date})

\* A reading that arrives while a transaction is open is one that it does not
\* read any more: it arrives after it.
Arrive(date, objem) ==
  /\ Len(source) < MaxReadings
  /\ Late(date) => LateReadings < MaxLate
  /\ import = None /\ review = None
  /\ source' = Append(source, [recid |-> Len(source) + 1, date |-> date,
                               objem |-> objem])
  /\ UNCHANGED <<table, reviews, import, review, overlapped, torn, changes, aborts>>

\* get_last_imported_recid
Cursor == LET recids == {r.recid : r \in {s \in table : ~s.synthetic}}
          IN IF recids = {} THEN 0 ELSE Max(recids)

NewReadings == {source[i] : i \in Cursor + 1 .. Len(source)}

\* fetch_from_ms_areal, and import_measurements up to its first insert.
ImportRead ==
  /\ import = None
  /\ NewReadings # {}
  /\ import' = Prepared(NewReadings, table, {})
  /\ overlapped' = (overlapped \/ review # None)
  /\ UNCHANGED <<data, review, torn, changes, aborts>>

\* An insert waits for a transaction that has deleted a row of its date, and
\* an upsert for the one that holds its review.
ImportMustWait ==
  /\ review # None
  /\ \E i \in 1 .. Len(import) :
       \/ \E r \in review.deleted : r.date = import[i].date
       \/ ~import[i].platne /\ import[i].date = review.date
       \/ ~import[i].platne /\ \E v \in review.withdrawn : v.date = import[i].date

\* One INSERT .. ON CONFLICT DO UPDATE cannot touch the same review twice.
ImportFails ==
  \E i \in 1 .. Len(import) : \E j \in 1 .. i - 1 :
    ~import[i].platne /\ ~import[j].platne /\ import[i].date = import[j].date

ImportCommit ==
  /\ import # None
  /\ ~ImportMustWait /\ ~ImportFails
  /\ table' = table \cup InsertedInto(table, import)
  /\ reviews' = UpsertReviews(reviews, OutlierDates(import, {}))
  /\ import' = None
  /\ UNCHANGED <<source, review, overlapped, torn, changes, aborts>>

\* The failure that the rows themselves cause; the next run meets them again.
ImportRollBack ==
  /\ import # None /\ ImportFails
  /\ import' = None
  /\ UNCHANGED <<data, review, overlapped, torn, changes, aborts>>

\* Any other failure, or the end of the process.
ImportAbort ==
  /\ import # None
  /\ aborts < MaxAborts
  /\ aborts' = aborts + 1
  /\ import' = None
  /\ UNCHANGED <<data, review, overlapped, torn, changes>>

-----------------------------------------------------------------------------
(***************************************************************************)
(* apply_outlier_review_update.  Its session does not flush before a query *)
(* (autoflush=False): the new verdict reaches the database at the commit.  *)
(***************************************************************************)
\* Takes the review and loads the readings from its date on.
ReviewLoad(v, status) ==
  /\ review = None
  /\ changes < MaxReviews
  /\ v.status # status
  /\ review' = [date |-> v.date, status |-> status, phase |-> "loaded",
                rows |-> {[recid |-> r.recid, date |-> r.date, objem |-> r.objem] :
                          r \in {s \in table : ~s.synthetic /\ s.date >= v.date}},
                deleted |-> {}, withdrawn |-> {}]
  /\ changes' = changes + 1
  /\ overlapped' = (overlapped \/ import # None)
  /\ UNCHANGED <<data, import, torn, aborts>>

\* Mutant: every measurement of the meter is deleted.
DeleteAll ==
  /\ review # None /\ review.phase = "loaded"
  /\ review' = [review EXCEPT !.phase = "deleted", !.deleted = table]
  /\ UNCHANGED <<data, import, overlapped, torn, changes, aborts>>

\* Mutant: every other pending review of the meter is withdrawn.
WithdrawAll ==
  /\ review # None /\ review.phase = "loaded"
  /\ review' = [review EXCEPT
       !.phase = "deleted",
       !.deleted = {r \in table : r.date >= review.date},
       !.withdrawn = {v \in reviews : v.date # review.date /\ v.status = "PENDING"}]
  /\ UNCHANGED <<data, import, overlapped, torn, changes, aborts>>

\* Mutant: the reviewed measurement itself stays.
DeleteLater ==
  /\ review # None /\ review.phase = "loaded"
  /\ review' = [review EXCEPT !.phase = "deleted",
                             !.deleted = {r \in table : r.date > review.date}]
  /\ UNCHANGED <<data, import, overlapped, torn, changes, aborts>>

\* Deletes the measurements and the other pending reviews from the date on;
\* nobody sees it yet.
ReviewDelete ==
  /\ review # None /\ review.phase = "loaded"
  /\ review' = [review EXCEPT
       !.phase = "deleted",
       !.deleted = {r \in table : r.date >= review.date},
       !.withdrawn = {v \in reviews : /\ v.date >= review.date /\ v.date # review.date
                                      /\ v.status = "PENDING"}]
  /\ UNCHANGED <<data, import, overlapped, torn, changes, aborts>>

\* What its queries return after the deletes: its own view of the two tables.
ReviewTable == table \ review.deleted
ReviewOverrides == {v \in reviews : v.date >= review.date /\ v.status # "PENDING"}
Rebuilt == Prepared(review.rows, ReviewTable, ReviewOverrides)
Actual(out) == {i \in 1 .. Len(out) : ~out[i].synthetic}

\* Measurements are put back by a plain insert: a date that is taken violates
\* uq_ident_date_zdroj.
ReviewConflict(out) ==
  \E i \in Actual(out) :
    \/ \E r \in ReviewTable : r.date = out[i].date
    \/ \E j \in Actual(out) \ {i} : out[j].date = out[i].date

\* Behind every slot that was filled is the row that closed its gap.
Whole(rows) ==
  \A s \in rows : s.synthetic => \E r \in rows : r.platne /\ r.gap /\ s.date < r.date

\* Rebuilds the readings it loaded and commits, with the verdict itself.  The
\* measurements go back first, so only synthetic rows can find their date taken.
ReviewCommit ==
  /\ review # None /\ review.phase = "deleted"
  /\ LET out == Rebuilt
         kept == ReviewTable \cup {out[i] : i \in Actual(out)}
         known == {[date |-> v.date,
                    status |-> IF v.date = review.date THEN review.status ELSE v.status] :
                   v \in reviews \ review.withdrawn}
     IN /\ ~ReviewConflict(out)
        /\ table' = kept \cup InsertedInto(kept, out)
        /\ reviews' = UpsertReviews(known, OutlierDates(out, ReviewOverrides))
  /\ torn' = (torn \/ ~Whole(ReviewTable))
  /\ review' = None
  /\ UNCHANGED <<source, import, overlapped, changes, aborts>>

ReviewAbort ==
  /\ review # None
  /\ aborts < MaxAborts
  /\ aborts' = aborts + 1
  /\ review' = None
  /\ UNCHANGED <<data, import, overlapped, torn, changes>>

Next ==
  \/ \E date \in Date, objem \in Objem : Arrive(date, objem)
  \/ ImportRead \/ ImportCommit \/ ImportRollBack \/ ImportAbort
  \/ \E v \in reviews, status \in Status : ReviewLoad(v, status)
  \/ ReviewDelete \/ ReviewCommit \/ ReviewAbort

\* The scheduler starts an import every quarter of an hour, and it runs to its
\* end unless it waits for a rebuild; nothing makes an administrator change a
\* verdict.  This is the weak fairness of ImportRead and of the two ends of an
\* import, with their guards in place of ENABLED.
Fairness ==
  /\ []<>(import # None \/ NewReadings = {})
  /\ []<>(import = None \/ ImportMustWait)

Spec == Init /\ [][Next]_vars /\ Fairness

-----------------------------------------------------------------------------
(***************************************************************************)
(* Properties.                                                             *)
(***************************************************************************)
Reading == [recid : Nat \ {0}, date : Date, objem : Objem]
Row == [recid : (Nat \ {0}) \cup {None}, date : Nat, objem : Nat,
        delta : Int \cup {None}, platne : BOOLEAN, gap : BOOLEAN,
        synthetic : BOOLEAN, reset : BOOLEAN]
Review == [date : Date, status : Status]
KeptReading == [recid : Nat \ {0}, date : Date, objem : Objem, reset : BOOLEAN]

ASSUME NoneAssumption == None \notin Row \cup KeptReading \cup Reading

\* The shapes of the tables and of the two open transactions.
TypeOK ==
  /\ source \in Seq(Reading)
  /\ table \subseteq Row
  /\ reviews \subseteq Review
  /\ import = None \/ import \in Seq(Row)
  /\ \/ review = None
     \/ /\ [date |-> review.date, status |-> review.status] \in Review
        /\ review.phase \in {"loaded", "deleted"}
        /\ review.rows \subseteq Reading
        /\ review.deleted \subseteq Row
        /\ review.withdrawn \subseteq Review
  /\ overlapped \in BOOLEAN /\ torn \in BOOLEAN
  /\ changes \in 0 .. MaxReviews /\ aborts \in 0 .. MaxAborts

\* What the arithmetic of the deltas relies on: the readings come in the order
\* of their dates, and no rebuild ran beside an import.
Undisturbed == LateReadings = 0 /\ ~overlapped

\* The rows that count start at the first one and again at each reset.
Valid == {r \in table : r.platne}
Baselines == {b \in Valid : b.reset \/ \A r \in Valid : b.date <= r.date}
After(b) == {r \in Valid : /\ r.date > b.date
                           /\ \A c \in Baselines : c.date <= b.date \/ r.date < c.date}
Delta(r) == IF r.delta = None THEN 0 ELSE r.delta
Consumption(rows) == MapThenSumSet(Delta, rows)
Peak(b) == Max({r.objem : r \in After(b) \cup {b}})

\* Half a unit for each slot of a gap, which began at the earliest with the first date.
Rounding(b) == Max({r.date : r \in After(b) \cup {b}}) \div (2 * Interval)

\* What the delta of r says: the counter has advanced since p by as much as r and
\* the slots that were filled between them count together, and not at all if r has
\* no delta.  Other valid rows between them lie below p.
CountsFrom(p, r, rows) ==
  LET between == {x \in rows : x.platne /\ p.date < x.date /\ x.date < r.date}
      filled == {x \in between : x.synthetic}
      total == r.objem - p.objem
  IN /\ p.date < r.date
     /\ \A x \in between \ filled : x.delta = None /\ ~x.reset /\ x.objem < p.objem
     /\ r.delta = None => total <= 0
     /\ r.delta # None =>
          /\ filled = {} => r.delta = total
          /\ \A x \in filled : r.delta + x.delta * Cardinality(filled) = total

\* Every row behind the first one and behind a reset counts from a valid row
\* before it, whatever the batches the readings came in, the gaps that were filled,
\* the rows that were set aside and the verdicts that were changed since.
DeltasCount ==
  Undisturbed =>
    \A r \in Valid \ Baselines : r.synthetic \/ \E p \in Valid : CountsFrom(p, r, table)

\* The deltas between two resets add up to what the counter has advanced, unless a
\* rebuild began inside a filled gap: what its last row had got is lost with that row,
\* or a row among the slots, which ran back, is what the rebuild counts from.  Only a
\* counter that runs back a little, by less than a reset, is counted again.
ConsumptionAccounted ==
  Undisturbed /\ ~torn =>
    \A b \in Baselines :
      Consumption(After(b)) - (Peak(b) - b.objem)
        \in -Rounding(b) .. ResetDiff * Cardinality({r \in After(b) : r.delta = None})

\* Every reading up to the cursor of the import is a row, unless it is a zero,
\* which filter_valid_rows may drop for good, and none is two rows.  This holds
\* through rebuilds, which delete rows and put them back.
NothingLost ==
  /\ \A r, s \in table : r.recid = s.recid /\ ~r.synthetic => r = s
  /\ Undisturbed =>
       \A i \in 1 .. Cursor : source[i].objem = 0 \/ \E r \in table : r.recid = i

\* Late and repeated dates, filled gaps and rebuilds beside imports never give
\* two rows of one date.
OneRowPerDate == \A r, s \in table : r.date = s.date => r = s

\* Every row that was set aside can be reviewed: neither a rebuild, which
\* withdraws pending reviews, nor an import beside it leaves one without.
InvalidHasReview ==
  \A r \in table : ~r.platne => \E v \in reviews : v.date = r.date

\* A delta is negative only by what the mean of a gap was rounded up: half a unit
\* for each slot of the gap, which began at the earliest with the first date.
DeltaBound ==
  \A r \in table : r.delta # None => r.delta >= -(r.date \div (2 * Interval))

\* Readings in order are all imported in the end, also a zero that may yet
\* turn out to be transient: the cursor does not stay behind it.
EverythingImported ==
  <>[](Undisturbed => Cursor = Len(source))

\* A rebuild that has deleted its rows can put them back: neither a row that it
\* left nor one that an import has added since takes one of their dates.
RebuildFits == review # None /\ review.phase = "deleted" => ~ReviewConflict(Rebuilt)

\* What the label of the verdict says, and
\* test_prepare_rows_respects_confirmed_consumption_override: a reading that is
\* confirmed as consumption is valid.
ConfirmedConsumptionIsValid ==
  (review = None /\ ~overlapped) =>
    \A v \in reviews : \A r \in table :
      v.status = "CONFIRMED_CONSUMPTION" /\ r.date = v.date => r.platne
=============================================================================
