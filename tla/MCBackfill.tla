----------------------------- MODULE MCBackfill -----------------------------
(* Small instances of Backfill for TLC. *)
EXTENDS Backfill, TLC

\* Ledgers 3 to 5 in files of two: the first file reaches beyond the
\* ledgers asked for.  Chunks of two give the ranges 3-4 and 5-5, which share
\* the file 4-5.  Event b2 is outside, x5 is refused by validation.
MCEvents == {"b2", "c3", "d4", "x5"}
MCLedgerOf ==
    [e \in MCEvents |-> CASE e = "b2" -> 2 [] e = "c3" -> 3 [] e = "d4" -> 4 [] OTHER -> 5]
MCStorable == MCEvents \ {"x5"}
=============================================================================
