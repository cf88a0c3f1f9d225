------------------------------- MODULE Feeders -------------------------------
(***************************************************************************)
(* The data sets of a scenario, feeders.py: how rows are handed out, how a   *)
(* master slices them for its nodes, and the check that a unique data set is *)
(* large enough.  A data set is a record of its strategy and its number of   *)
(* rows; the rows are 1..rows, in file order, and 0 stands for None.         *)
(***************************************************************************)
EXTENDS Integers

Strategy == {"loop", "sequential", "random", "unique"}
Consumes(set) == set.strategy \in {"sequential", "unique"}

AtMost(a, b) == IF a <= b THEN a ELSE b
AtLeast(a, b) == IF a >= b THEN a ELSE b

\* Node index of count nodes, counted from 0: its share of total items that
\* divmod splits as evenly as it can, the extra ones going to the first nodes.
ShareOf(total, index, count) == total \div count + (IF index < total % count THEN 1 ELSE 0)

\* Fault variant: the extra rows of earlier nodes are not skipped.
SliceStartEven(total, index, count) == index * (total \div count)

\* The rows before the slice of node index.
SliceStart(total, index, count) == index * (total \div count) + AtMost(index, total % count)

\* shard_rows: one contiguous slice for each node, of a consuming data set.
\* _shard_config_feeders sends the other data sets whole.
Slice(set, index, count) ==
  IF Consumes(set) /\ count > 1
  THEN LET start == SliceStart(set.rows, index, count)
       IN  (start + 1)..(start + ShareOf(set.rows, index, count))
  ELSE 1..set.rows

\* FeederCursor.next_row of a node's slice: the rows it may hand out when
\* cursor rows have gone before, {0} when a consuming data set is spent.
RowsAt(set, index, count, cursor) ==
  LET slice == Slice(set, index, count)
      start == IF Consumes(set) /\ count > 1 THEN SliceStart(set.rows, index, count) ELSE 0
  IN  CASE slice = {}               -> {0}
        [] set.strategy = "random"  -> slice
        [] set.strategy = "loop"    -> {1 + (cursor % set.rows)}
        [] Consumes(set) /\ start + cursor + 1 \in slice -> {start + cursor + 1}
        [] OTHER                    -> {0}

\* A loop only uses its index modulo the rows, a random choice leaves it alone.
Advanced(set, cursor) ==
  CASE set.strategy = "random" -> cursor
    [] set.strategy = "loop"   -> (cursor + 1) % set.rows
    [] OTHER                   -> cursor + 1

\* Fault variant: an iteration that is not filled is not counted.
NeededRoundedDown(users, requests, steps, nodes) ==
  AtLeast(AtLeast(1, users) * AtLeast(1, nodes),
          IF requests > 0 /\ steps > 0 THEN requests \div steps ELSE 0)

\* validate_unique_capacity: one row for each user of each node, and one for each
\* iteration that -n requests of so many steps need; 0 requests stands for no -n.
Needed(users, requests, steps, nodes) ==
  AtLeast(AtLeast(1, users) * AtLeast(1, nodes),
          IF requests > 0 /\ steps > 0 THEN (requests + steps - 1) \div steps ELSE 0)

LargeEnough(set, users, requests, steps, nodes) ==
  set.strategy = "unique" => set.rows >= Needed(users, requests, steps, nodes)
===============================================================================
