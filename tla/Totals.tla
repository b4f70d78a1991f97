------------------------------- MODULE Totals -------------------------------
(***************************************************************************)
(* Totals of money columns.  Tables whose rows are numbered 1..n are       *)
(* functions on 1..n; the code adds such columns with                      *)
(* `rows.reduce((acc, row) => acc.plus(row.amount), 0)`, which is the last *)
(* value of the running sum below.                                         *)
(***************************************************************************)
EXTENDS Integers

\* The running sums of f: entry k is f[1] + ... + f[k].
Running(f, n) ==
  LET sum[k \in 0..n] == IF k = 0 THEN 0 ELSE sum[k-1] + f[k]
  IN  sum

\* f[1] + ... + f[n], the result of the code's reduce over n rows.
Total(f, n) == Running(f, n)[n]

=============================================================================
