---------------------------- MODULE MCBenchmark -----------------------------
(* Benchmark on two cases: one whose Lean does not look like Lean, so that *)
(* the formalizer is asked for it, and a claim with Lean that does.        *)
EXTENDS Benchmark

TwoCases == << [tier |-> "tier1", has |-> {"stub", "lean"}, marked |-> {}],
               [tier |-> "tier2", has |-> {"claim", "lean"}, marked |-> {"text"}] >>
=============================================================================
