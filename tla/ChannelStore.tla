----------------------------- MODULE ChannelStore -----------------------------
(***************************************************************************)
(* The channel table of a node's SQLite database                           *)
(*   packages/iohtee/src/storage/sqlite/SqliteChannelsDatabase.ts          *)
(*   packages/iohtee/src/storage/AbstractChannelsDatabase.ts               *)
(* as operators on a sequence of rows in the order of their insertion.     *)
(* Every amount is kept in a TEXT column and compared as text.             *)
(***************************************************************************)
EXTENDS Integers, Sequences

\* ChannelState
Open == 0
Settling == 1
Settled == 2

MaxDigits == 4

\* Number of digits of the decimal numeral of n.
Width(n) == CHOOSE w \in 1 .. MaxDigits : n < 10 ^ w /\ (w > 1 => n >= 10 ^ (w - 1))

\* Text order of two numerals: that of the fractions 0.a and 0.b, a numeral
\* before its own extensions.
TextLeq(a, b) ==
  LET x == a * 10 ^ Width(b)
      y == b * 10 ^ Width(a)
  IN x < y \/ (x = y /\ Width(a) <= Width(b))

\* The first of a set of amounts under "ORDER BY value DESC".
TextMax(amounts) == CHOOSE m \in amounts : \A a \in amounts : TextLeq(a, m)

Row(id, value, spent, state) ==
  [id |-> id, value |-> value, spent |-> spent, state |-> state]
fromPayment(p) == Row(p.id, p.channelValue, p.value, Open)

Knows(rows, id) == \E i \in DOMAIN rows : rows[i].id = id
RowOf(rows, id) == rows[CHOOSE i \in DOMAIN rows : rows[i].id = id]

\* UPDATE channel SET ... WHERE "channelId" = id
UpdateRow(rows, id, new(_)) ==
  [i \in DOMAIN rows |-> IF rows[i].id = id THEN new(rows[i]) ELSE rows[i]]

spend(rows, id, amount) ==
  UpdateRow(rows, id, LAMBDA r : [r EXCEPT !.spent = amount])
updateState_EveryRow(rows, id, state) ==
  [i \in DOMAIN rows |-> [rows[i] EXCEPT !.state = state]]
updateState(rows, id, state) ==
  UpdateRow(rows, id, LAMBDA r : [r EXCEPT !.state = state])
updateValue(rows, id, value) ==
  UpdateRow(rows, id, LAMBDA r : [r EXCEPT !.value = value])

\* PRIMARY KEY: inserting an id for the second time throws.
CanSave(rows, id) == ~Knows(rows, id)
save(rows, row) == Append(rows, row)

saveOrUpdate(rows, row) ==
  IF Knows(rows, row.id) THEN spend(rows, row.id, row.spent) ELSE save(rows, row)

\* WHERE value >= spent + $amount AND state = 0
Candidates(rows, amount) ==
  {i \in DOMAIN rows : /\ rows[i].state = Open
                       /\ TextLeq(rows[i].spent + amount, rows[i].value)}

\* The row that the query returns, as a set of at most one id; no other
\* candidate is looked at.
firstCandidate(rows, amount) ==
  LET found == Candidates(rows, amount)
  IN {rows[i].id : i \in {j \in found : \A k \in found : j <= k}}
=============================================================================
